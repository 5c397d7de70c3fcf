---------------------------- MODULE CJsonProofs ----------------------------
(***************************************************************************)
(* Proofs about CJson: the items that cJSON's calls link and free are      *)
(* always a forest.                                                        *)
(*                                                                         *)
(* K gives each item its list, and the invariant says of K what the        *)
(* pointers cannot say by themselves: no item is in two places, none is    *)
(* below itself, and those in no list are the ones the client holds or has *)
(* lost.  Each call puts an item into a list, takes one out, renames one,  *)
(* makes one or deletes one; for each of these there is a lemma on the     *)
(* pointers, and one that the forest stays one.                            *)
(***************************************************************************)
EXTENDS CJson, FiniteSetTheorems, FunctionTheorems, SequenceTheorems, WellFoundedInduction, TLAPS

------------------------------------------------------------------------------
(* Counting.                                                               *)

\* The least of a set of naturals.
LEMMA Least ==
  ASSUME NEW I, I \subseteq Nat, I # {}
  PROVE  \E m \in I : \A j \in I : m <= j
<1>1. PICK m \in I : \A j \in I : ~ (<<j, m>> \in OpToRel(<, Nat))
  BY NatLessThanWellFounded, WFMin
<1>2. \A j \in I : ~(j < m)
  BY <1>1 DEF OpToRel
<1> QED BY <1>2

\* A set that holds 0 and with each number the next holds all of them.
LEMMA Counting ==
  ASSUME NEW S, 0 \in S, \A n \in Nat : n \in S => n + 1 \in S
  PROVE  \A n \in Nat : n \in S
<1> DEFINE I == {n \in Nat : n \notin S}
<1>1. ASSUME I # {} PROVE FALSE
  <2>1. PICK m \in I : \A j \in I : m <= j
    BY <1>1, Least
  <2>2. m \in Nat /\ m # 0 /\ m \notin S
    BY <2>1
  <2>3. m - 1 \in Nat /\ (m - 1) + 1 = m /\ ~(m <= m - 1)
    BY <2>2
  <2>4. m - 1 \notin I
    BY <2>1, <2>3
  <2> QED BY <2>2, <2>3, <2>4
<1> QED BY <1>1

\* The values that F leads to from s, in N steps.
Run(g, X, F, s, N) == g \in [0..N -> X] /\ g[0] = s /\ \A k \in 1..N : g[k] = F[g[k - 1]]

\* A function of the numbers up to N can be defined step by step.
LEMMA Iterates ==
  ASSUME NEW X, NEW F \in [X -> X], NEW s \in X, NEW N \in Nat
  PROVE  \E g : Run(g, X, F, s, N)
<1> USE DEF Run
<1> DEFINE S == {n \in Nat : \E g \in [0..n -> X] : g[0] = s /\ \A k \in 1..n : g[k] = F[g[k - 1]]}
<1>1. 0 \in S
  <2> DEFINE g == [k \in 0..0 |-> s]
  <2>1. g \in [0..0 -> X] /\ g[0] = s /\ \A k \in 1..0 : g[k] = F[g[k - 1]]
    OBVIOUS
  <2> QED BY <2>1
<1>2. ASSUME NEW n \in Nat, n \in S PROVE n + 1 \in S
  <2>1. PICK g \in [0..n -> X] : g[0] = s /\ \A k \in 1..n : g[k] = F[g[k - 1]]
    BY <1>2
  <2> DEFINE f == [k \in 0..(n + 1) |-> IF k = n + 1 THEN F[g[n]] ELSE g[k]]
  <2>2. \A k \in 0..(n + 1) : k # n + 1 => k \in 0..n
    OBVIOUS
  <2>3. g[n] \in X /\ F[g[n]] \in X /\ \A k \in 0..n : g[k] \in X
    BY <2>1
  <2>4. f \in [0..(n + 1) -> X]
    BY <2>2, <2>3
  <2>5. f[n + 1] = F[g[n]] /\ \A k \in 0..n : f[k] = g[k]
    OBVIOUS
  <2> HIDE DEF f
  <2>6. f[0] = s
    BY <2>1, <2>5
  <2>7. ASSUME NEW k \in 1..(n + 1) PROVE f[k] = F[f[k - 1]]
    <3>1. CASE k = n + 1
      <4>1. k - 1 = n /\ n \in 0..n
        BY <3>1
      <4> QED BY <2>5, <3>1, <4>1
    <3>2. CASE k # n + 1
      <4>1. k \in 1..n /\ k \in 0..n /\ k - 1 \in 0..n
        BY <3>2
      <4> QED BY <2>1, <2>5, <4>1
    <3> QED BY <3>1, <3>2
  <2> QED BY <2>4, <2>6, <2>7
<1>3. N \in S
  <2> HIDE DEF S
  <2> QED BY <1>1, <1>2, Counting
<1> QED BY <1>3

------------------------------------------------------------------------------
(* What cJSON_Delete reaches.                                              *)

Kind == {"value", "array", "object"}

\* The fields of the items.
Fields(h) ==
  /\ h \in [live : SUBSET Items, kind : [Items -> Kind], ref : [Items -> BOOLEAN],
            name : [Items -> Names \union {NoName}], next : [Items -> Items \union {NULL}],
            prev : [Items -> Items \union {NULL}], child : [Items -> Items \union {NULL}]]

\* One step of the search.
Beyond(h, S) ==
  (S \union {h.next[y] : y \in S} \union {h.child[y] : y \in {z \in S : ~h.ref[z]}}) \ {NULL}

\* A set that the search does not leave.
Closed(h, S) ==
  \A y \in S : h.next[y] \in S \union {NULL} /\ (~h.ref[y] => h.child[y] \in S \union {NULL})

\* The search collects items.
LEMMA BeyondItems ==
  ASSUME NEW h, Fields(h), NEW S, S \subseteq Items
  PROVE  Beyond(h, S) \subseteq Items /\ S \subseteq Beyond(h, S)
<1>1. /\ h.next \in [Items -> Items \union {NULL}] /\ h.child \in [Items -> Items \union {NULL}]
      /\ NULL \notin Items
  BY CJsonAssumption DEF Fields
<1> QED BY <1>1 DEF Beyond

\* When a step adds nothing the set is closed.
LEMMA StandingStill ==
  ASSUME NEW h, NEW S, Beyond(h, S) \subseteq S
  PROVE  Closed(h, S)
BY Zenon DEF Beyond, Closed

\* The search as a function of the number of steps.
LEMMA Searches ==
  ASSUME NEW h, Fields(h), NEW x \in Items
  PROVE  \E g \in [0..MaxItems -> SUBSET Items] :
           /\ g[0] = {x} /\ g[MaxItems] = Chain(h, x)
           /\ \A k \in 1..MaxItems : g[k] = Beyond(h, g[k - 1])
<1> DEFINE F == [S \in SUBSET Items |-> Beyond(h, S)]
           P(g) == g = [k \in 0..MaxItems |->
             IF k = 0 THEN {x}
             ELSE LET S == g[k - 1]
                  IN  (S \union {h.next[y] : y \in S}
                         \union {h.child[y] : y \in {z \in S : ~h.ref[z]}}) \ {NULL}]
           r == CHOOSE g : P(g)
<1>1. MaxItems \in Nat
  BY CJsonAssumption, FS_CardinalityType DEF MaxItems
<1>2. F \in [SUBSET Items -> SUBSET Items] /\ {x} \in SUBSET Items
  BY BeyondItems
<1>3. PICK g \in [0..MaxItems -> SUBSET Items] : g[0] = {x} /\ \A k \in 1..MaxItems : g[k] = F[g[k - 1]]
  <2> DEFINE X == SUBSET Items
             s == {x}
             n == MaxItems
  <2>1. F \in [X -> X] /\ s \in X /\ n \in Nat
    BY <1>1, <1>2
  <2> HIDE DEF F, X, s, n
  <2>2. \E g : Run(g, X, F, s, n)
    BY <2>1, Iterates, Zenon
  <2> QED BY <2>2, Zenon DEF X, s, n, Run
<1>4. P(g)
  <2>1. ASSUME NEW k \in 0..MaxItems, k # 0 PROVE F[g[k - 1]] = Beyond(h, g[k - 1])
    <3>1. k - 1 \in 0..MaxItems
      BY <1>1, <2>1
    <3> QED BY <1>3, <3>1
  <2>2. \A k \in 0..MaxItems : g[k] = IF k = 0 THEN {x} ELSE Beyond(h, g[k - 1])
    <3>1. \A k \in 0..MaxItems : k = 0 \/ k \in 1..MaxItems
      BY <1>1
    <3> HIDE DEF F
    <3> QED BY <1>3, <2>1, <3>1
  <2>3. g = [k \in 0..MaxItems |-> IF k = 0 THEN {x} ELSE Beyond(h, g[k - 1])]
    BY <1>3, <2>2
  <2> QED BY <2>3 DEF Beyond
<1>5. P(r)
  <2> HIDE DEF P
  <2> QED BY <1>4, Zenon
<1>6. Chain(h, x) = r[MaxItems]
  BY DEF Chain
<1>7. /\ DOMAIN r = 0..MaxItems
      /\ \A k \in 0..MaxItems : r[k] = IF k = 0 THEN {x} ELSE Beyond(h, r[k - 1])
  <2> HIDE DEF r
  <2> QED BY <1>5 DEF Beyond
<1>8. r = [k \in 0..MaxItems |-> r[k]]
  <2>1. \A G : r = [k \in 0..MaxItems |-> G[k]] => r = [k \in 0..MaxItems |-> r[k]]
    <3> HIDE DEF r
    <3> QED OBVIOUS
  <2>2. r = [k \in 0..MaxItems |-> IF k = 0 THEN {x} ELSE Beyond(h, r[k - 1])]
    <3> HIDE DEF r
    <3> QED BY <1>5, Zenon DEF Beyond, P
  <2> DEFINE G == [k \in 0..MaxItems |-> IF k = 0 THEN {x} ELSE Beyond(h, r[k - 1])]
  <2>3. r = G /\ G = [k \in 0..MaxItems |-> G[k]]
    <3> HIDE DEF r
    <3> QED BY <2>2
  <2> HIDE DEF r, G
  <2>4. r = [k \in 0..MaxItems |-> G[k]]
    BY <2>3, Zenon
  <2> QED BY <2>1, <2>4, Zenon
<1> HIDE DEF r, P, F
<1> DEFINE T == {n \in Nat : n <= MaxItems => r[n] \subseteq Items}
<1>9. 0 \in T
  BY <1>1, <1>7
<1>10. ASSUME NEW n \in Nat, n \in T PROVE n + 1 \in T
  <2>1. CASE n + 1 <= MaxItems
    <3>1. n + 1 \in 0..MaxItems /\ n + 1 # 0 /\ (n + 1) - 1 = n /\ r[n] \subseteq Items
      BY <1>1, <1>10, <2>1
    <3>2. r[n + 1] = Beyond(h, r[n])
      BY <1>7, <3>1
    <3>3. r[n + 1] \subseteq Items
      BY <3>1, <3>2, BeyondItems
    <3> QED BY <3>3
  <2>2. CASE ~(n + 1 <= MaxItems)
    BY <2>2
  <2> QED BY <2>1, <2>2
<1>11. \A n \in Nat : n \in T
  <2> HIDE DEF T
  <2> QED BY <1>9, <1>10, Counting
<1>12. r \in [0..MaxItems -> SUBSET Items]
  BY <1>1, <1>8, <1>11
<1>13. r[0] = {x} /\ \A k \in 1..MaxItems : r[k] = Beyond(h, r[k - 1])
  BY <1>1, <1>7
<1> QED BY <1>6, <1>12, <1>13

\* It reaches the item, is closed, and is the least such set.
LEMMA ChainIs ==
  ASSUME NEW h, Fields(h), NEW x \in Items
  PROVE  /\ x \in Chain(h, x) /\ Chain(h, x) \subseteq Items /\ Closed(h, Chain(h, x))
         /\ \A S : x \in S /\ Closed(h, S) => Chain(h, x) \subseteq S
<1>1. PICK g \in [0..MaxItems -> SUBSET Items] :
        /\ g[0] = {x} /\ g[MaxItems] = Chain(h, x)
        /\ \A k \in 1..MaxItems : g[k] = Beyond(h, g[k - 1])
  BY Searches
<1>2. MaxItems \in Nat /\ MaxItems = Cardinality(Items) /\ IsFiniteSet(Items)
  BY CJsonAssumption, FS_CardinalityType DEF MaxItems
<1>3. \A n \in Nat : n + 1 <= MaxItems =>
        n \in 0..MaxItems /\ n + 1 \in 0..MaxItems /\ g[n] \subseteq Items /\ g[n + 1] = Beyond(h, g[n])
  <2> SUFFICES ASSUME NEW n \in Nat, n + 1 <= MaxItems
               PROVE  n \in 0..MaxItems /\ n + 1 \in 0..MaxItems /\ g[n] \subseteq Items /\ g[n + 1] = Beyond(h, g[n])
    OBVIOUS
  <2>1. n \in 0..MaxItems /\ n + 1 \in 1..MaxItems /\ n + 1 \in 0..MaxItems /\ (n + 1) - 1 = n
    BY <1>2
  <2>2. g[n + 1] = Beyond(h, g[n])
    BY <1>1, <2>1
  <2> QED BY <1>1, <2>1, <2>2
\* as far as it goes, it grows or stands still
<1> DEFINE T == {n \in Nat : n <= MaxItems => x \in g[n] /\ (Cardinality(g[n]) >= n + 1 \/ Beyond(h, g[n]) \subseteq g[n])}
<1>4. 0 \in T
  <2>1. Cardinality({x}) = 1
    BY FS_Singleton, Zenon
  <2>2. Cardinality(g[0]) >= 0 + 1 /\ x \in g[0]
    BY <1>1, <2>1
  <2> QED BY <2>2
<1>5. ASSUME NEW n \in Nat, n \in T PROVE n + 1 \in T
  <2> SUFFICES ASSUME n + 1 <= MaxItems
               PROVE  x \in g[n + 1] /\ (Cardinality(g[n + 1]) >= (n + 1) + 1 \/ Beyond(h, g[n + 1]) \subseteq g[n + 1])
    OBVIOUS
  <2>1. g[n] \subseteq Items /\ g[n + 1] = Beyond(h, g[n]) /\ x \in g[n] /\ n <= MaxItems
        /\ (Cardinality(g[n]) >= n + 1 \/ Beyond(h, g[n]) \subseteq g[n])
    BY <1>2, <1>3, <1>5
  <2>2. g[n + 1] \subseteq Items /\ g[n] \subseteq g[n + 1]
    BY <2>1, BeyondItems
  <2>3. CASE g[n + 1] \subseteq g[n]
    <3>1. g[n + 1] = g[n]
      BY <2>2, <2>3
    <3> QED BY <2>1, <3>1
  <2>4. CASE ~(g[n + 1] \subseteq g[n])
    <3>1. Cardinality(g[n]) >= n + 1
      BY <2>1, <2>4
    <3>2. IsFiniteSet(g[n + 1]) /\ IsFiniteSet(g[n])
      BY <1>2, <2>1, <2>2, FS_Subset
    <3>3. Cardinality(g[n]) <= Cardinality(g[n + 1]) /\ Cardinality(g[n + 1]) # Cardinality(g[n])
      BY <2>2, <2>4, <3>2, FS_Subset
    <3>4. Cardinality(g[n]) \in Nat /\ Cardinality(g[n + 1]) \in Nat
      BY <3>2, FS_CardinalityType
    <3> DEFINE c == Cardinality(g[n])
               d == Cardinality(g[n + 1])
    <3>5. c \in Nat /\ d \in Nat /\ c >= n + 1 /\ c <= d /\ d # c
      BY <3>1, <3>3, <3>4
    <3> HIDE DEF c, d
    <3>6. d >= (n + 1) + 1
      BY <3>5
    <3> QED BY <2>1, <2>2, <3>6 DEF d
  <2> QED BY <2>3, <2>4
<1>6. \A n \in Nat : n \in T
  <2> HIDE DEF T
  <2> QED BY <1>4, <1>5, Counting
<1> DEFINE C == Chain(h, x)
<1>7. C \subseteq Items /\ x \in C /\ (Cardinality(C) >= MaxItems + 1 \/ Beyond(h, C) \subseteq C)
  BY <1>1, <1>2, <1>6
<1>8. Beyond(h, C) \subseteq C
  <2>1. Cardinality(C) <= MaxItems
    BY <1>2, <1>7, FS_Subset
  <2>2. Cardinality(C) \in Nat
    BY <1>2, <1>7, FS_Subset, FS_CardinalityType
  <2> QED BY <1>2, <1>7, <2>1, <2>2
<1>9. Closed(h, C)
  BY <1>8, StandingStill
\* it stays in every closed set that holds the item
<1>10. ASSUME NEW S, x \in S, Closed(h, S) PROVE C \subseteq S
  <2> DEFINE U == {n \in Nat : n <= MaxItems => g[n] \subseteq S}
  <2>1. 0 \in U
    BY <1>1, <1>10
  <2>2. ASSUME NEW n \in Nat, n \in U PROVE n + 1 \in U
    <3> SUFFICES ASSUME n + 1 <= MaxItems PROVE g[n + 1] \subseteq S
      OBVIOUS
    <3>1. g[n] \subseteq S /\ g[n + 1] = Beyond(h, g[n])
      BY <1>2, <1>3, <2>2
    <3>2. Beyond(h, g[n]) \subseteq S
      BY <1>10, <3>1 DEF Beyond, Closed
    <3> QED BY <3>1, <3>2
  <2>3. \A n \in Nat : n \in U
    <3> HIDE DEF U
    <3> QED BY <2>1, <2>2, Counting
  <2> QED BY <1>1, <1>2, <2>3
<1> QED BY <1>7, <1>9, <1>10, Zenon

------------------------------------------------------------------------------
(* Walking a list.                                                         *)

\* s is the list of a: child leads to its first item, next from each to the next, and
\* prev back, from the first to the last.
ListOf(h, a, s) ==
  /\ h.child[a] = IF Len(s) = 0 THEN NULL ELSE s[1]
  /\ \A i \in 1..Len(s) :
       /\ h.next[s[i]] = IF i < Len(s) THEN s[i + 1] ELSE NULL
       /\ h.prev[s[i]] = IF i = 1 THEN s[Len(s)] ELSE s[i - 1]

\* A list that has no item twice.
Once(s) == s \in Seq(Items) /\ \A i, j \in 1..Len(s) : s[i] = s[j] => i = j

\* It has no more items than there are.
LEMMA ListFits ==
  ASSUME NEW s, Once(s)
  PROVE  Len(s) \in Nat /\ Len(s) <= MaxItems /\ (\A i \in 1..Len(s) : s[i] \in Items)
         /\ s = [i \in 1..Len(s) |-> s[i]]
<1>1. Len(s) \in Nat /\ (\A i \in 1..Len(s) : s[i] \in Items) /\ s = [i \in 1..Len(s) |-> s[i]]
  BY LenProperties, ElementOfSeq DEF Once
<1> DEFINE n == Len(s)
           f == [i \in 1..n |-> s[i]]
<1>2. f \in Injection(1..n, Items)
  BY <1>1 DEF Once, Injection, IsInjective
<1>3. n \in Nat
  BY <1>1
<1> HIDE DEF n, f
<1>4. Cardinality(1..n) <= Cardinality(Items) /\ IsFiniteSet(1..n)
  BY <1>2, CJsonAssumption, FS_Injection
<1>5. Cardinality(1..n) = n
  BY <1>3, FS_Interval
<1> QED BY <1>1, <1>4, <1>5 DEF n, MaxItems

\* One more item of the list.
Following(h, a, t) == IF t = << >> THEN h.child[a] ELSE h.next[Last(t)]
Grown(h, a, t) == IF Following(h, a, t) = NULL THEN t ELSE Append(t, Following(h, a, t))

\* The first n items of it.
Start(s, n) == [i \in 1..(IF n < Len(s) THEN n ELSE Len(s)) |-> s[i]]

\* Each turn finds the next.
LEMMA StartGrows ==
  ASSUME NEW h, NEW a, NEW s, Once(s), ListOf(h, a, s), NEW m \in Nat
  PROVE  Start(s, m + 1) = Grown(h, a, Start(s, m))
<1>1. /\ Len(s) \in Nat /\ \A i \in 1..Len(s) : s[i] \in Items /\ s[i] # NULL
      /\ s = [i \in 1..Len(s) |-> s[i]]
  BY ListFits, CJsonAssumption
<1> DEFINE n == Len(s)
           t == Start(s, m)
<1>2. /\ n \in Nat /\ (\A i \in 1..n : s[i] \in Items /\ s[i] # NULL) /\ s = [i \in 1..n |-> s[i]]
      /\ h.child[a] = IF n = 0 THEN NULL ELSE s[1]
      /\ \A i \in 1..n : h.next[s[i]] = IF i < n THEN s[i + 1] ELSE NULL
  BY <1>1 DEF ListOf
<1>3. t = [i \in 1..(IF m < n THEN m ELSE n) |-> s[i]]
      /\ Start(s, m + 1) = [i \in 1..(IF m + 1 < n THEN m + 1 ELSE n) |-> s[i]]
  BY DEF Start
<1> HIDE DEF n, t
<1>4. t \in Seq(Items)
  <2>1. (IF m < n THEN m ELSE n) \in Nat /\ \A i \in 1..(IF m < n THEN m ELSE n) : i \in 1..n
    BY <1>2
  <2> DEFINE c == IF m < n THEN m ELSE n
  <2>2. t = [i \in 1..c |-> s[i]] /\ c \in Nat /\ \A i \in 1..c : s[i] \in Items
    BY <1>2, <1>3, <2>1
  <2> HIDE DEF c
  <2> QED BY <2>2
<1>5. CASE m >= n
  <2>1. (IF m < n THEN m ELSE n) = n /\ (IF m + 1 < n THEN m + 1 ELSE n) = n
    BY <1>2, <1>5
  <2>2. t = s /\ Start(s, m + 1) = s
    BY <1>2, <1>3, <2>1
  <2>3. Len(s) = n
    BY DEF n
  <2>4. Following(h, a, t) = NULL
    <3>1. CASE n = 0
      <4>1. t = << >>
        BY <2>1, <1>3, <3>1
      <4>2. h.child[a] = NULL
        BY <1>2, <3>1
      <4> QED BY <4>1, <4>2 DEF Following
    <3>2. CASE n # 0
      <4>1. n \in 1..n /\ Last(t) = s[n]
        BY <1>2, <2>2, <2>3, <3>2 DEF Last
      <4>2. t # << >>
        BY <1>4, <2>2, <2>3, <3>2
      <4>3. h.next[s[n]] = NULL
        <5>1. ~(n < n)
          BY <1>2
        <5>2. h.next[s[n]] = IF n < n THEN s[n + 1] ELSE NULL
          BY <1>2, <4>1, Zenon
        <5> QED BY <5>1, <5>2, Zenon
      <4> QED BY <4>1, <4>2, <4>3 DEF Following
    <3> QED BY <3>1, <3>2
  <2>5. Grown(h, a, t) = t
    BY <2>4, Zenon DEF Grown
  <2> QED BY <2>2, <2>5 DEF t
<1>6. CASE m < n
  <2>1. (IF m < n THEN m ELSE n) = m /\ (IF m + 1 < n THEN m + 1 ELSE n) = m + 1 /\ m + 1 \in 1..n
    BY <1>2, <1>6
  <2>2. t = [i \in 1..m |-> s[i]] /\ Start(s, m + 1) = [i \in 1..(m + 1) |-> s[i]]
    BY <1>3, <2>1
  <2>3. Len(t) = m
    BY <1>4, <2>2
  <2>4. Following(h, a, t) = s[m + 1]
    <3>1. CASE m = 0
      <4>1. t = << >> /\ n # 0
        BY <1>4, <1>6, <2>3, <3>1, EmptySeq
      <4>2. h.child[a] = s[1] /\ m + 1 = 1
        BY <1>2, <3>1, <4>1
      <4> QED BY <4>1, <4>2 DEF Following
    <3>2. CASE m # 0
      <4>1. m \in 1..n /\ m \in 1..m /\ m < n
        BY <1>2, <1>6, <3>2
      <4>2. Last(t) = s[m]
        BY <2>2, <2>3, <4>1 DEF Last
      <4>3. t # << >>
        BY <2>3, <3>2, EmptySeq
      <4>4. h.next[s[m]] = s[m + 1]
        BY <1>2, <4>1
      <4> QED BY <4>2, <4>3, <4>4 DEF Following
    <3> QED BY <3>1, <3>2
  <2>5. s[m + 1] \in Items /\ s[m + 1] # NULL
    BY <1>2, <2>1
  <2>6. Append(t, s[m + 1]) = [i \in 1..(m + 1) |-> s[i]]
    <3>1. Append(t, s[m + 1]) = [i \in 1..(m + 1) |-> IF i = m + 1 THEN s[m + 1] ELSE t[i]]
      BY <1>4, <2>3, <2>5
    <3>2. \A i \in 1..(m + 1) : (IF i = m + 1 THEN s[m + 1] ELSE t[i]) = s[i]
      BY <2>2
    <3> QED BY <3>1, <3>2
  <2>7. Grown(h, a, t) = Append(t, s[m + 1])
    BY <2>4, <2>5, Zenon DEF Grown
  <2> QED BY <2>2, <2>6, <2>7 DEF t
<1> QED BY <1>2, <1>5, <1>6

\* Following next finds the list.
LEMMA KidsAre ==
  ASSUME NEW h, NEW a, NEW s, Once(s), ListOf(h, a, s)
  PROVE  Kids(h, a) = s
<1> DEFINE u == [k \in 0..MaxItems |-> Start(s, k)]
           P(g) == g = [k \in 0..MaxItems |->
             IF k = 0 THEN << >>
             ELSE LET t == g[k - 1]
                      x == IF t = << >> THEN h.child[a] ELSE h.next[Last(t)]
                  IN  IF x = NULL THEN t ELSE Append(t, x)]
           r == CHOOSE g : P(g)
<1>1. MaxItems \in Nat /\ Len(s) \in Nat /\ Len(s) <= MaxItems /\ s = [i \in 1..Len(s) |-> s[i]]
  BY CJsonAssumption, FS_CardinalityType, ListFits DEF MaxItems
<1>2. Start(s, 0) = << >> /\ Start(s, MaxItems) = s
  <2>1. (IF 0 < Len(s) THEN 0 ELSE Len(s)) = 0 /\ (IF MaxItems < Len(s) THEN MaxItems ELSE Len(s)) = Len(s)
    BY <1>1
  <2>2. Start(s, 0) = [i \in 1..0 |-> s[i]] /\ Start(s, MaxItems) = [i \in 1..Len(s) |-> s[i]]
    BY <2>1 DEF Start
  <2> QED BY <1>1, <2>2
<1>3. \A k \in 0..MaxItems : k # 0 => k - 1 \in 0..MaxItems /\ k - 1 \in Nat /\ (k - 1) + 1 = k
  BY <1>1
<1>4. \A k \in 0..MaxItems : k # 0 => Start(s, k) = Grown(h, a, Start(s, k - 1))
  <2>1. \A m \in Nat : Start(s, m + 1) = Grown(h, a, Start(s, m))
    BY StartGrows
  <2> QED BY <1>3, <2>1
<1>5. P(u)
  <2>1. \A k \in 0..MaxItems : Start(s, k) = IF k = 0 THEN << >> ELSE Grown(h, a, u[k - 1])
    BY <1>2, <1>3, <1>4
  <2>2. u = [k \in 0..MaxItems |-> IF k = 0 THEN << >> ELSE Grown(h, a, u[k - 1])]
    BY <2>1
  <2> QED BY <2>2 DEF Grown, Following
<1>6. P(r)
  <2> HIDE DEF P, u
  <2> QED BY <1>5, Zenon
<1>7. Kids(h, a) = r[MaxItems]
  BY DEF Kids
<1>8. \A k \in 0..MaxItems : r[k] = IF k = 0 THEN << >> ELSE Grown(h, a, r[k - 1])
  <2> HIDE DEF r
  <2> QED BY <1>6 DEF Grown, Following
<1> HIDE DEF r, P, u
<1> DEFINE T == {n \in Nat : n <= MaxItems => r[n] = Start(s, n)}
<1>9. 0 \in T
  BY <1>1, <1>2, <1>8
<1>10. ASSUME NEW n \in Nat, n \in T PROVE n + 1 \in T
  <2> SUFFICES ASSUME n + 1 <= MaxItems PROVE r[n + 1] = Start(s, n + 1)
    OBVIOUS
  <2>1. n + 1 \in 0..MaxItems /\ n + 1 # 0 /\ (n + 1) - 1 = n /\ r[n] = Start(s, n)
    BY <1>1, <1>10
  <2>2. r[n + 1] = Grown(h, a, r[n])
    BY <1>8, <2>1
  <2> QED BY <2>1, <2>2, StartGrows
<1>11. \A n \in Nat : n \in T
  <2> HIDE DEF T
  <2> QED BY <1>9, <1>10, Counting
<1>12. r[MaxItems] = s
  BY <1>1, <1>2, <1>11
<1> QED BY <1>7, <1>12

------------------------------------------------------------------------------
(* The forest of items.                                                    *)

\* K gives the list of every item; those that hold nothing have an empty one.
Lists(K) == K \in [Items -> Seq(Items)]

\* x is in the list of a.
In(K, a, x) == \E i \in 1..Len(K[a]) : K[a][i] = x

\* What a set holds it holds with all that is below.
Downward(K, S) == \A a \in S : \A y : In(K, a, y) => y \in S

Holder(h, a) == a \in h.live /\ h.kind[a] # "value" /\ ~h.ref[a]

\* No item is in two places.
Apart(K) ==
  \A a, b \in Items : \A i \in 1..Len(K[a]), j \in 1..Len(K[b]) : K[a][i] = K[b][j] => a = b /\ i = j

\* No items are below each other in a circle.
Grounded(K) == \A S \in SUBSET Items : (\A x \in S : \E a \in S : In(K, a, x)) => S = {}

Listed(h, K) ==
  \A a \in Items : IF Holder(h, a) THEN ListOf(h, a, K[a])
                   ELSE Len(K[a]) = 0 /\ (h.ref[a] \/ h.child[a] = NULL)

\* The items in no list are the roots R.
Owned(h, K, R) == R \subseteq h.live /\ \A x \in Items : (\E a \in Items : In(K, a, x)) <=> x \in h.live \ R

\* Roots have none after them, and what is free refers to nothing.
Loose(h, R) ==
  \A x \in Items : /\ x \in R => h.next[x] = NULL
                   /\ x \notin h.live => h.next[x] = NULL /\ ~h.ref[x]

Forest(h, K, R) ==
  Fields(h) /\ Lists(K) /\ Apart(K) /\ Grounded(K) /\ Listed(h, K) /\ Owned(h, K, R) /\ Loose(h, R)

\* A list is a sequence of items.
LEMMA EachList ==
  ASSUME NEW K, Lists(K), NEW a \in Items
  PROVE  /\ K[a] \in Seq(Items) /\ Len(K[a]) \in Nat /\ (\A i \in 1..Len(K[a]) : K[a][i] \in Items)
         /\ Apart(K) => Once(K[a])
<1>1. K[a] \in Seq(Items)
  BY DEF Lists
<1>2. Len(K[a]) \in Nat /\ \A i \in 1..Len(K[a]) : K[a][i] \in Items
  BY <1>1, LenProperties, ElementOfSeq
<1> QED BY <1>1, <1>2 DEF Apart, Once

\* Kids follows the list.
LEMMA KidsOf ==
  ASSUME NEW h, NEW K, NEW R, Forest(h, K, R), NEW a, Holder(h, a)
  PROVE  a \in Items /\ Kids(h, a) = K[a] /\ Once(K[a]) /\ ListOf(h, a, K[a])
<1>1. a \in Items
  BY DEF Forest, Holder, Fields
<1>2. Once(K[a])
  BY <1>1, EachList DEF Forest
<1>3. ListOf(h, a, K[a])
  BY <1>1 DEF Forest, Listed
<1> QED BY <1>1, <1>2, <1>3, KidsAre

\* The first item of a list leads to all of it.
LEMMA ListClosed ==
  ASSUME NEW h, NEW K, NEW R, Forest(h, K, R), NEW S, Closed(h, S), NEW a \in Items,
         Len(K[a]) > 0 => K[a][1] \in S
  PROVE  \A x : In(K, a, x) => x \in S
<1>1. Len(K[a]) \in Nat /\ \A i \in 1..Len(K[a]) : K[a][i] \in Items
  BY EachList DEF Forest
<1>2. SUFFICES ASSUME NEW i \in 1..Len(K[a]) PROVE K[a][i] \in S
  BY DEF In
<1>3. ListOf(h, a, K[a])
  BY <1>1 DEF Forest, Listed
<1> DEFINE n == Len(K[a])
           T == {k \in Nat : k + 1 <= n => K[a][k + 1] \in S}
<1>4. n \in Nat /\ (n > 0 => K[a][1] \in S) /\ i \in 1..n /\ (\A k \in 1..n : K[a][k] \in Items)
  BY <1>1
<1>5. \A k \in 1..n : k < n => h.next[K[a][k]] = K[a][k + 1]
  BY <1>3 DEF ListOf
<1> HIDE DEF n
<1>6. 0 \in T
  BY <1>4
<1>7. ASSUME NEW k \in Nat, k \in T PROVE k + 1 \in T
  <2> SUFFICES ASSUME (k + 1) + 1 <= n PROVE K[a][(k + 1) + 1] \in S
    OBVIOUS
  <2>1. k + 1 \in 1..n /\ k + 1 < n /\ (k + 1) + 1 \in 1..n /\ K[a][k + 1] \in S
    BY <1>4, <1>7
  <2>2. h.next[K[a][k + 1]] = K[a][(k + 1) + 1] /\ K[a][(k + 1) + 1] # NULL
    BY <1>4, <1>5, <2>1, CJsonAssumption
  <2> QED BY <2>1, <2>2 DEF Closed
<1>8. \A k \in Nat : k \in T
  <2> HIDE DEF T
  <2> QED BY <1>6, <1>7, Counting
<1>9. i - 1 \in Nat /\ (i - 1) + 1 = i /\ i <= n
  BY <1>4
<1> QED BY <1>8, <1>9

\* What closed sets hold of a list's owner they hold of the list.
LEMMA ClosedBelow ==
  ASSUME NEW h, NEW K, NEW R, Forest(h, K, R), NEW S, S \subseteq Items, Closed(h, S), NEW a \in S
  PROVE  \A x : In(K, a, x) => x \in S
<1>1. a \in Items /\ Len(K[a]) \in Nat /\ \A i \in 1..Len(K[a]) : K[a][i] \in Items
  BY EachList DEF Forest
<1>2. ASSUME Len(K[a]) > 0 PROVE K[a][1] \in S
  <2>1. Len(K[a]) # 0 /\ 1 \in 1..Len(K[a])
    BY <1>1, <1>2
  <2>2. Holder(h, a) /\ h.child[a] = K[a][1]
    BY <1>1, <2>1 DEF Forest, Listed, ListOf
  <2>3. h.child[a] \in S \union {NULL}
    BY <2>2 DEF Closed, Holder
  <2> QED BY <1>1, <2>1, <2>2, <2>3, CJsonAssumption
<1> QED BY <1>1, <1>2, ListClosed

\* What the search finds from x is below x, or is x.
LEMMA BelowRoot ==
  ASSUME NEW h, NEW K, NEW R, Forest(h, K, R), NEW x \in Items, h.next[x] = NULL
  PROVE  /\ x \in Chain(h, x) /\ Chain(h, x) \subseteq Items
         /\ Downward(K, Chain(h, x))
         /\ \A y \in Chain(h, x) : y = x \/ \E b \in Chain(h, x) : In(K, b, y)
<1> DEFINE C == Chain(h, x)
           T == {y \in C : y = x \/ \E b \in C : In(K, b, y)}
<1>1. Fields(h)
  BY DEF Forest
<1>2. /\ x \in C /\ C \subseteq Items /\ Closed(h, C)
      /\ \A S : x \in S /\ Closed(h, S) => C \subseteq S
  BY <1>1, ChainIs
<1> HIDE DEF C
<1>3. \A a \in C : \A y : In(K, a, y) => y \in C
  BY <1>2, ClosedBelow
<1>4. Closed(h, T)
  <2> SUFFICES ASSUME NEW y \in T
               PROVE  h.next[y] \in T \union {NULL} /\ (~h.ref[y] => h.child[y] \in T \union {NULL})
    BY DEF Closed
  <2>1. y \in C /\ y \in Items /\ h.next[y] \in C \union {NULL} /\ (~h.ref[y] => h.child[y] \in C \union {NULL})
    BY <1>2 DEF Closed
  <2>2. h.next[y] \in T \union {NULL}
    <3>1. CASE y = x
      BY <3>1
    <3>2. CASE y # x
      <4>1. PICK b \in C : In(K, b, y)
        BY <3>2
      <4>2. PICK i \in 1..Len(K[b]) : K[b][i] = y
        BY <4>1 DEF In
      <4>3. b \in Items /\ Len(K[b]) \in Nat
        BY <1>2, EachList DEF Forest
      <4>4. h.next[y] = IF i < Len(K[b]) THEN K[b][i + 1] ELSE NULL
        BY <4>2, <4>3 DEF Forest, Listed, ListOf
      <4>5. i < Len(K[b]) => i + 1 \in 1..Len(K[b])
        BY <4>2, <4>3
      <4>6. h.next[y] # NULL => In(K, b, h.next[y])
        BY <4>4, <4>5 DEF In
      <4> QED BY <2>1, <4>6
    <3> QED BY <3>1, <3>2
  <2>3. ASSUME ~h.ref[y] PROVE h.child[y] \in T \union {NULL}
    <3>1. CASE Holder(h, y)
      <4>1. Len(K[y]) \in Nat /\ h.child[y] = IF Len(K[y]) = 0 THEN NULL ELSE K[y][1]
        BY <2>1, <3>1, EachList DEF Forest, Listed, ListOf
      <4>2. h.child[y] # NULL => In(K, y, h.child[y])
        <5>1. Len(K[y]) # 0 => 1 \in 1..Len(K[y])
          BY <4>1
        <5> QED BY <4>1, <5>1 DEF In
      <4> QED BY <2>1, <2>3, <4>2
    <3>2. CASE ~Holder(h, y)
      BY <2>1, <2>3, <3>2 DEF Forest, Listed
    <3> QED BY <3>1, <3>2
  <2> QED BY <2>2, <2>3
<1>5. C \subseteq T
  BY <1>2, <1>4
<1> QED BY <1>2, <1>3, <1>5 DEF C, Downward

------------------------------------------------------------------------------
(* Lists with an item more or less.                                        *)

Put(s, p, x) == [i \in 1..(Len(s) + 1) |-> IF i < p THEN s[i] ELSE IF i = p THEN x ELSE s[i - 1]]
Out(s, p) == [i \in 1..(Len(s) - 1) |-> IF i < p THEN s[i] ELSE s[i + 1]]

With(K, a, p, x) == [K EXCEPT ![a] = Put(K[a], p, x)]
Without(K, a, p) == [K EXCEPT ![a] = Out(K[a], p)]

\* From K to L, x has come into the list of a, or has gone.
Hung(K, L, a, x) == \A b \in Items : \A y : In(L, b, y) <=> In(K, b, y) \/ (b = a /\ y = x)
Gone(K, L, x) == \A b \in Items : \A y : In(L, b, y) <=> In(K, b, y) /\ y # x
Nowhere(K, x) == \A b \in Items : ~In(K, b, x)

\* Where the items of a list are when one comes in at p.
LEMMA PutIs ==
  ASSUME NEW s \in Seq(Items), NEW x \in Items, NEW p \in 1..(Len(s) + 1)
  PROVE  /\ Put(s, p, x) \in Seq(Items) /\ Len(Put(s, p, x)) = Len(s) + 1 /\ Put(s, p, x)[p] = x
         /\ \A i \in 1..(p - 1) : Put(s, p, x)[i] = s[i] /\ i \in 1..Len(s)
         /\ \A i \in (p + 1)..(Len(s) + 1) : Put(s, p, x)[i] = s[i - 1] /\ i - 1 \in 1..Len(s)
<1> DEFINE n == Len(s)
           t == Put(s, p, x)
<1>1. n \in Nat /\ p \in 1..(n + 1) /\ \A i \in 1..n : s[i] \in Items
  BY LenProperties, ElementOfSeq
<1>2. t = [i \in 1..(n + 1) |-> IF i < p THEN s[i] ELSE IF i = p THEN x ELSE s[i - 1]]
  BY DEF Put
<1> HIDE DEF n, t
<1>3. /\ \A i \in 1..(p - 1) : i \in 1..(n + 1) /\ i < p /\ i \in 1..n
      /\ \A i \in (p + 1)..(n + 1) : i \in 1..(n + 1) /\ ~(i < p) /\ i # p /\ i - 1 \in 1..n
      /\ p \in 1..(n + 1) /\ ~(p < p)
      /\ \A i \in 1..(n + 1) : i \in 1..(p - 1) \/ i = p \/ i \in (p + 1)..(n + 1)
  BY <1>1
<1>4. /\ \A i \in 1..(p - 1) : t[i] = s[i]
      /\ \A i \in (p + 1)..(n + 1) : t[i] = s[i - 1]
      /\ t[p] = x
  BY <1>2, <1>3
<1>5. \A i \in 1..(n + 1) : t[i] \in Items
  BY <1>1, <1>3, <1>4
<1>6. t \in [1..(n + 1) -> Items] /\ n + 1 \in Nat
  BY <1>1, <1>2, <1>5
<1>7. t \in Seq(Items) /\ Len(t) = n + 1
  BY <1>6
<1> QED BY <1>3, <1>4, <1>7 DEF n, t

\* Where they are when the one at p goes.
LEMMA OutIs ==
  ASSUME NEW s \in Seq(Items), NEW p \in 1..Len(s)
  PROVE  /\ Out(s, p) \in Seq(Items) /\ Len(Out(s, p)) = Len(s) - 1
         /\ \A i \in 1..(p - 1) : Out(s, p)[i] = s[i] /\ i \in 1..(Len(s) - 1)
         /\ \A i \in p..(Len(s) - 1) : Out(s, p)[i] = s[i + 1] /\ i + 1 \in 1..Len(s)
<1> DEFINE n == Len(s)
           t == Out(s, p)
<1>1. n \in Nat /\ p \in 1..n /\ \A i \in 1..n : s[i] \in Items
  BY LenProperties, ElementOfSeq
<1>2. t = [i \in 1..(n - 1) |-> IF i < p THEN s[i] ELSE s[i + 1]]
  BY DEF Out
<1> HIDE DEF n, t
<1>3. /\ \A i \in 1..(p - 1) : i \in 1..(n - 1) /\ i < p /\ i \in 1..n
      /\ \A i \in p..(n - 1) : i \in 1..(n - 1) /\ ~(i < p) /\ i + 1 \in 1..n
      /\ \A i \in 1..(n - 1) : i \in 1..(p - 1) \/ i \in p..(n - 1)
  BY <1>1
<1>4. /\ \A i \in 1..(p - 1) : t[i] = s[i]
      /\ \A i \in p..(n - 1) : t[i] = s[i + 1]
  BY <1>2, <1>3
<1>5. \A i \in 1..(n - 1) : t[i] \in Items
  BY <1>1, <1>3, <1>4
<1>6. t \in [1..(n - 1) -> Items] /\ n - 1 \in Nat
  BY <1>1, <1>2, <1>5
<1>7. t \in Seq(Items) /\ Len(t) = n - 1
  BY <1>6
<1> QED BY <1>3, <1>4, <1>7 DEF n, t

\* The forest in which x has come into the list of a.
LEMMA PutIn ==
  ASSUME NEW K, Lists(K), Apart(K), NEW a \in Items, NEW x \in Items, NEW p \in 1..(Len(K[a]) + 1),
         Nowhere(K, x)
  PROVE  Lists(With(K, a, p, x)) /\ Apart(With(K, a, p, x)) /\ Hung(K, With(K, a, p, x), a, x)
<1> USE DEF Hung, Nowhere
<1> DEFINE L == With(K, a, p, x)
           s == K[a]
           t == Put(s, p, x)
           n == Len(s)
<1>1. s \in Seq(Items) /\ n \in Nat /\ p \in 1..(n + 1)
  BY EachList
<1>2. /\ t \in Seq(Items) /\ Len(t) = n + 1 /\ t[p] = x
      /\ \A i \in 1..(p - 1) : t[i] = s[i] /\ i \in 1..n
      /\ \A i \in (p + 1)..(n + 1) : t[i] = s[i - 1] /\ i - 1 \in 1..n
  BY <1>1, PutIs
<1>3. L[a] = t /\ \A b \in Items : b # a => L[b] = K[b]
  BY DEF Lists, With
<1>4. Lists(L)
  BY <1>2 DEF Lists, With
<1> HIDE DEF n, t, L
<1>5. /\ \A i \in 1..(n + 1) : i \in 1..(p - 1) \/ i = p \/ i \in (p + 1)..(n + 1)
      /\ \A i \in 1..n : (i \in 1..(p - 1) /\ i \in 1..(n + 1))
                         \/ (i + 1 \in (p + 1)..(n + 1) /\ i + 1 \in 1..(n + 1) /\ (i + 1) - 1 = i)
  BY <1>1
<1>6. ASSUME NEW y PROVE In(L, a, y) <=> In(K, a, y) \/ y = x
  <2>1. ASSUME In(L, a, y) PROVE In(K, a, y) \/ y = x
    <3>1. PICK i \in 1..(n + 1) : t[i] = y
      BY <1>2, <1>3, <2>1 DEF In
    <3> QED BY <1>2, <1>5, <3>1 DEF In, n
  <2>2. ASSUME In(K, a, y) PROVE In(L, a, y)
    <3>1. PICK i \in 1..n : s[i] = y
      BY <2>2 DEF In, n
    <3>2. CASE i \in 1..(p - 1) /\ i \in 1..(n + 1)
      BY <1>2, <1>3, <3>1, <3>2 DEF In
    <3>3. CASE i + 1 \in (p + 1)..(n + 1) /\ i + 1 \in 1..(n + 1) /\ (i + 1) - 1 = i
      <4>1. t[i + 1] = y
        BY <1>2, <3>1, <3>3
      <4> QED BY <1>2, <1>3, <3>3, <4>1 DEF In
    <3> QED BY <1>5, <3>1, <3>2, <3>3
  <2>3. In(L, a, x)
    <3>1. p \in 1..(n + 1)
      BY <1>1
    <3> QED BY <1>2, <1>3, <3>1 DEF In
  <2> QED BY <2>1, <2>2, <2>3
<1>7. \A b \in Items : b # a => \A y : In(L, b, y) <=> In(K, b, y)
  BY <1>3 DEF In
<1>8. \A i \in 1..n : s[i] # x
  BY DEF In, n
<1>9. ASSUME NEW i \in 1..(n + 1), NEW j \in 1..(n + 1), t[i] = t[j] PROVE i = j
  <2>1. \A k \in 1..(n + 1) : k # p => t[k] # x
    BY <1>2, <1>5, <1>8
  <2>2. CASE i = p \/ j = p
    BY <1>2, <1>9, <2>1, <2>2
  <2>3. CASE i # p /\ j # p
    <3> DEFINE f == IF i < p THEN i ELSE i - 1
               g == IF j < p THEN j ELSE j - 1
    <3>1. f \in 1..n /\ t[i] = s[f]
      BY <1>1, <1>2, <2>3
    <3>2. g \in 1..n /\ t[j] = s[g]
      BY <1>1, <1>2, <2>3
    <3>3. f = g
      <4> HIDE DEF f, g
      <4>1. s[f] = s[g]
        BY <1>9, <3>1, <3>2, Zenon
      <4> QED BY <3>1, <3>2, <4>1 DEF Apart, n
    <3> QED BY <1>1, <2>3, <3>3
  <2> QED BY <2>2, <2>3
<1>10. \A b, c \in Items : \A y : In(K, b, y) /\ In(K, c, y) => b = c
  BY DEF In, Apart
<1>11. Apart(L)
  <2> SUFFICES ASSUME NEW b \in Items, NEW c \in Items, NEW i \in 1..Len(L[b]), NEW j \in 1..Len(L[c]), L[b][i] = L[c][j]
               PROVE  b = c /\ i = j
    BY DEF Apart
  <2>1. CASE b # a /\ c # a
    BY <1>3, <2>1 DEF Apart
  <2>2. CASE b = a /\ c = a
    BY <1>2, <1>3, <1>9, <2>2
  <2>3. CASE b = a /\ c # a
    <3>1. In(L, a, L[b][i]) /\ In(K, c, L[b][i])
      BY <1>3, <2>3 DEF In
    <3>2. In(K, a, L[b][i])
      BY <1>6, <3>1
    <3> QED BY <1>10, <2>3, <3>1, <3>2
  <2>4. CASE b # a /\ c = a
    <3>1. In(L, a, L[b][i]) /\ In(K, b, L[b][i])
      BY <1>3, <2>4 DEF In
    <3>2. In(K, a, L[b][i])
      BY <1>6, <3>1
    <3> QED BY <1>10, <2>4, <3>1, <3>2
  <2> QED BY <2>1, <2>2, <2>3, <2>4
<1> QED BY <1>4, <1>6, <1>7, <1>11 DEF L

\* The forest in which the item at p has gone from it.
LEMMA OutIn ==
  ASSUME NEW K, Lists(K), Apart(K), NEW a \in Items, NEW p \in 1..Len(K[a])
  PROVE  Lists(Without(K, a, p)) /\ Apart(Without(K, a, p)) /\ Gone(K, Without(K, a, p), K[a][p])
<1> USE DEF Gone
<1> DEFINE L == Without(K, a, p)
           s == K[a]
           t == Out(s, p)
           n == Len(s)
<1>1. s \in Seq(Items) /\ n \in Nat /\ p \in 1..n
  BY EachList
<1>2. /\ t \in Seq(Items) /\ Len(t) = n - 1
      /\ \A i \in 1..(p - 1) : t[i] = s[i] /\ i \in 1..(n - 1)
      /\ \A i \in p..(n - 1) : t[i] = s[i + 1] /\ i + 1 \in 1..n
  BY <1>1, OutIs
<1>3. L[a] = t /\ \A b \in Items : b # a => L[b] = K[b]
  BY DEF Lists, Without
<1>4. Lists(L)
  BY <1>2 DEF Lists, Without
<1>5. \A i, j \in 1..n : s[i] = s[j] => i = j
  BY DEF Apart
<1> HIDE DEF n, t, L
<1>6. \A i \in 1..(n - 1) : \E f \in 1..n : f # p /\ f = (IF i < p THEN i ELSE i + 1) /\ t[i] = s[f]
  <2> SUFFICES ASSUME NEW i \in 1..(n - 1)
               PROVE  \E f \in 1..n : f # p /\ f = (IF i < p THEN i ELSE i + 1) /\ t[i] = s[f]
    OBVIOUS
  <2>1. CASE i < p
    <3>1. i \in 1..(p - 1) /\ i \in 1..n /\ i # p
      BY <1>1, <2>1
    <3> QED BY <1>2, <2>1, <3>1
  <2>2. CASE ~(i < p)
    <3>1. i \in p..(n - 1) /\ i + 1 \in 1..n /\ i + 1 # p
      BY <1>1, <2>2
    <3> QED BY <1>2, <2>2, <3>1
  <2> QED BY <2>1, <2>2
<1>7. ASSUME NEW y PROVE In(L, a, y) <=> In(K, a, y) /\ y # s[p]
  <2>1. ASSUME In(L, a, y) PROVE In(K, a, y) /\ y # s[p]
    <3>1. PICK i \in 1..(n - 1) : t[i] = y
      BY <1>2, <1>3, <2>1 DEF In
    <3>2. PICK f \in 1..n : f # p /\ t[i] = s[f]
      BY <1>6, <3>1
    <3>3. In(K, a, y)
      BY <3>1, <3>2 DEF In, n
    <3>4. y # s[p]
      BY <1>1, <1>5, <3>1, <3>2
    <3> QED BY <3>3, <3>4
  <2>2. ASSUME In(K, a, y), y # s[p] PROVE In(L, a, y)
    <3>1. PICK i \in 1..n : s[i] = y
      BY <2>2 DEF In, n
    <3>2. CASE i < p
      <4>1. i \in 1..(p - 1) /\ i \in 1..(n - 1)
        BY <1>1, <3>2
      <4> QED BY <1>2, <1>3, <3>1, <4>1 DEF In
    <3>3. CASE i > p
      <4>1. i - 1 \in p..(n - 1) /\ i - 1 \in 1..(n - 1) /\ (i - 1) + 1 = i
        BY <1>1, <3>3
      <4>2. t[i - 1] = y
        BY <1>2, <3>1, <4>1
      <4> QED BY <1>2, <1>3, <4>1, <4>2 DEF In
    <3>4. i # p
      BY <2>2, <3>1
    <3>5. i < p \/ i > p
      BY <1>1, <3>4
    <3> QED BY <3>2, <3>3, <3>5
  <2> QED BY <2>1, <2>2
<1>8. \A b \in Items : b # a => \A y : (In(L, b, y) <=> In(K, b, y)) /\ (In(K, b, y) => y # s[p])
  BY <1>1, <1>3 DEF In, Apart, n
<1>9. ASSUME NEW i \in 1..(n - 1), NEW j \in 1..(n - 1), t[i] = t[j] PROVE i = j
  <2>1. PICK f \in 1..n : f # p /\ f = (IF i < p THEN i ELSE i + 1) /\ t[i] = s[f]
    BY <1>6
  <2>2. PICK g \in 1..n : g # p /\ g = (IF j < p THEN j ELSE j + 1) /\ t[j] = s[g]
    BY <1>6
  <2>3. f = g
    BY <1>5, <1>9, <2>1, <2>2
  <2> QED BY <1>1, <2>1, <2>2, <2>3
<1>10. Apart(L)
  <2> SUFFICES ASSUME NEW b \in Items, NEW c \in Items, NEW i \in 1..Len(L[b]), NEW j \in 1..Len(L[c]), L[b][i] = L[c][j]
               PROVE  b = c /\ i = j
    BY DEF Apart
  <2>1. CASE b # a /\ c # a
    BY <1>3, <2>1 DEF Apart
  <2>2. CASE b = a /\ c = a
    BY <1>2, <1>3, <1>9, <2>2
  <2>3. CASE b = a /\ c # a
    <3>1. In(L, a, L[b][i]) /\ In(K, c, L[b][i])
      BY <1>3, <2>3 DEF In
    <3>2. In(K, a, L[b][i])
      BY <1>7, <3>1
    <3> QED BY <2>3, <3>1, <3>2 DEF In, Apart
  <2>4. CASE b # a /\ c = a
    <3>1. In(L, a, L[b][i]) /\ In(K, b, L[b][i])
      BY <1>3, <2>4 DEF In
    <3>2. In(K, a, L[b][i])
      BY <1>7, <3>1
    <3> QED BY <2>4, <3>1, <3>2 DEF In, Apart
  <2> QED BY <2>1, <2>2, <2>3, <2>4
<1> QED BY <1>4, <1>7, <1>8, <1>10 DEF L

\* Nothing gets below itself when an item is hung where nothing below it is.
LEMMA StillGrounded ==
  ASSUME NEW K, Grounded(K), NEW L, NEW a \in Items, NEW x, Hung(K, L, a, x),
         NEW C, x \in C, a \notin C, Downward(K, C)
  PROVE  Grounded(L)
<1> USE DEF Hung, Downward
<1> SUFFICES ASSUME NEW S \in SUBSET Items, \A y \in S : \E b \in S : In(L, b, y)
             PROVE  S = {}
  BY DEF Grounded
<1>1. ASSUME NEW y \in S \ C PROVE \E b \in S \ C : In(K, b, y)
  <2>1. PICK b \in S : In(L, b, y)
    OBVIOUS
  <2>2. In(K, b, y)
    BY <2>1
  <2> QED BY <2>2
<1>2. S \ C = {}
  <2> DEFINE D == S \ C
  <2>1. D \in SUBSET Items /\ \A y \in D : \E b \in D : In(K, b, y)
    BY <1>1
  <2> HIDE DEF D
  <2>2. D = {}
    BY <2>1 DEF Grounded
  <2> QED BY <2>2 DEF D
<1>3. ASSUME NEW y \in S PROVE \E b \in S : In(K, b, y)
  <2>1. PICK b \in S : In(L, b, y)
    OBVIOUS
  <2>2. b # a
    BY <1>2
  <2> QED BY <2>1, <2>2
<1> QED BY <1>3 DEF Grounded

\* Nor when items are taken away.
LEMMA LessGrounded ==
  ASSUME NEW K, Grounded(K), NEW L, \A b, y \in Items : In(L, b, y) => In(K, b, y)
  PROVE  Grounded(L)
BY DEF Grounded

------------------------------------------------------------------------------
(* Hanging an item into a list, and taking it out.                         *)

SameItems(h, g) == Fields(g) /\ g.live = h.live /\ g.kind = h.kind /\ g.ref = h.ref /\ g.name = h.name

\* g is h with x as the p-th item of a, whose list is s in h.
Spliced(h, g, a, s, p, x) ==
  /\ SameItems(h, g)
  /\ g.child[a] = (IF p = 1 THEN x ELSE h.child[a]) /\ \A b \in Items : b # a => g.child[b] = h.child[b]
  /\ g.next[x] = IF p <= Len(s) THEN s[p] ELSE NULL
  /\ p > 1 => g.next[s[p - 1]] = x
  /\ \A y \in Items : y # x /\ (p > 1 => y # s[p - 1]) => g.next[y] = h.next[y]
  /\ g.prev[x] = IF p > 1 THEN s[p - 1] ELSE IF Len(s) = 0 THEN x ELSE s[Len(s)]
  /\ p <= Len(s) => g.prev[s[p]] = x
  /\ p = Len(s) + 1 /\ Len(s) > 0 => g.prev[s[1]] = x
  /\ \A y \in Items : y # x /\ (p <= Len(s) => y # s[p]) /\ (p = Len(s) + 1 /\ Len(s) > 0 => y # s[1])
                         => g.prev[y] = h.prev[y]

\* The pointers lead through the longer list.
LEMMA SplicedList ==
  ASSUME NEW h, NEW g, NEW a, NEW s, Once(s), ListOf(h, a, s), NEW x \in Items, \A i \in 1..Len(s) : s[i] # x,
         NEW p \in 1..(Len(s) + 1), Spliced(h, g, a, s, p, x)
  PROVE  ListOf(g, a, Put(s, p, x))
<1> DEFINE n == Len(s)
           t == Put(s, p, x)
<1>1. n \in Nat /\ p \in 1..(n + 1) /\ (\A i \in 1..n : s[i] \in Items) /\ \A i, j \in 1..n : s[i] = s[j] => i = j
  BY ListFits DEF Once
<1>2. /\ Len(t) = n + 1 /\ t[p] = x
      /\ \A i \in 1..(p - 1) : t[i] = s[i] /\ i \in 1..n
      /\ \A i \in (p + 1)..(n + 1) : t[i] = s[i - 1] /\ i - 1 \in 1..n
  BY PutIs DEF Once
<1>3. /\ h.child[a] = IF n = 0 THEN NULL ELSE s[1]
      /\ \A i \in 1..n : h.next[s[i]] = IF i < n THEN s[i + 1] ELSE NULL
      /\ \A i \in 1..n : h.prev[s[i]] = IF i = 1 THEN s[n] ELSE s[i - 1]
      /\ \A i \in 1..n : s[i] # x
  BY DEF ListOf
<1>4. /\ g.child[a] = IF p = 1 THEN x ELSE h.child[a]
      /\ g.next[x] = IF p <= n THEN s[p] ELSE NULL
      /\ p > 1 => g.next[s[p - 1]] = x
      /\ \A y \in Items : y # x /\ (p > 1 => y # s[p - 1]) => g.next[y] = h.next[y]
  BY DEF Spliced
<1>5. /\ g.prev[x] = IF p > 1 THEN s[p - 1] ELSE IF n = 0 THEN x ELSE s[n]
      /\ p <= n => g.prev[s[p]] = x
      /\ p = n + 1 /\ n > 0 => g.prev[s[1]] = x
      /\ \A y \in Items : y # x /\ (p <= n => y # s[p]) /\ (p = n + 1 /\ n > 0 => y # s[1])
                         => g.prev[y] = h.prev[y]
  BY DEF Spliced
<1> HIDE DEF n, t
<1>6. g.child[a] = t[1]
  <2>1. CASE p = 1
    BY <1>2, <1>4, <2>1
  <2>2. CASE p # 1
    <3>1. 1 \in 1..(p - 1) /\ n # 0
      BY <1>1, <2>2
    <3> QED BY <1>2, <1>3, <1>4, <2>2, <3>1
  <2> QED BY <2>1, <2>2
<1>7. ASSUME NEW i \in 1..(n + 1) PROVE g.next[t[i]] = IF i < n + 1 THEN t[i + 1] ELSE NULL
  <2>1. CASE i = p
    <3>1. CASE p <= n
      <4>1. p + 1 \in (p + 1)..(n + 1) /\ (p + 1) - 1 = p /\ p < n + 1
        BY <1>1, <3>1
      <4>2. t[p + 1] = s[p]
        BY <1>2, <4>1
      <4> QED BY <1>2, <1>4, <2>1, <3>1, <4>1, <4>2
    <3>2. CASE ~(p <= n)
      <4>1. ~(p < n + 1)
        BY <1>1, <3>2
      <4> QED BY <1>2, <1>4, <2>1, <3>2, <4>1
    <3> QED BY <3>1, <3>2
  <2>2. CASE i < p
    <3>1. i \in 1..(p - 1) /\ i \in 1..n /\ i < n + 1 /\ t[i] = s[i] /\ s[i] \in Items /\ s[i] # x
      BY <1>1, <1>2, <1>3, <2>2
    <3>2. CASE i = p - 1
      <4>1. i + 1 = p /\ p > 1
        BY <1>1, <3>1, <3>2
      <4>2. g.next[s[i]] = x
        BY <1>4, <3>2, <4>1
      <4> QED BY <1>2, <3>1, <4>1, <4>2
    <3>3. CASE i # p - 1
      <4>1. i + 1 \in 1..(p - 1) /\ i < n /\ p - 1 \in 1..n
        BY <1>1, <3>1, <3>3
      <4>2. s[i] # s[p - 1]
        BY <1>1, <3>1, <3>3, <4>1
      <4>3. g.next[s[i]] = h.next[s[i]]
        BY <1>4, <3>1, <4>2
      <4>4. h.next[s[i]] = s[i + 1] /\ t[i + 1] = s[i + 1]
        BY <1>2, <1>3, <3>1, <4>1
      <4> QED BY <3>1, <4>3, <4>4
    <3> QED BY <3>2, <3>3
  <2>3. CASE i > p
    <3>1. i \in (p + 1)..(n + 1) /\ i - 1 \in 1..n /\ t[i] = s[i - 1] /\ s[i - 1] \in Items /\ s[i - 1] # x
      BY <1>1, <1>2, <1>3, <2>3
    <3>2. p > 1 => s[i - 1] # s[p - 1]
      <4>1. p > 1 => p - 1 \in 1..n /\ p - 1 # i - 1
        BY <1>1, <2>3
      <4> QED BY <1>1, <3>1, <4>1
    <3>3. g.next[s[i - 1]] = h.next[s[i - 1]]
      BY <1>4, <3>1, <3>2
    <3>4. (i - 1) + 1 = i /\ (i - 1 < n <=> i < n + 1)
      BY <1>1, <3>1
    <3>5. h.next[s[i - 1]] = IF i < n + 1 THEN s[i] ELSE NULL
      BY <1>3, <3>1, <3>4
    <3>6. i < n + 1 => t[i + 1] = s[i]
      <4>1. i < n + 1 => i + 1 \in (p + 1)..(n + 1) /\ (i + 1) - 1 = i
        BY <1>1, <2>3
      <4> QED BY <1>2, <4>1
    <3> QED BY <3>1, <3>3, <3>5, <3>6
  <2> QED BY <1>1, <2>1, <2>2, <2>3
<1>8. ASSUME NEW i \in 1..(n + 1) PROVE g.prev[t[i]] = IF i = 1 THEN t[n + 1] ELSE t[i - 1]
  <2>1. CASE i = p
    <3>1. CASE p > 1
      <4>1. p - 1 \in 1..(p - 1) /\ p # 1
        BY <1>1, <3>1
      <4>2. t[p - 1] = s[p - 1] /\ g.prev[x] = s[p - 1]
        BY <1>2, <1>5, <3>1, <4>1
      <4> QED BY <1>2, <2>1, <4>1, <4>2
    <3>2. CASE p = 1 /\ n = 0
      <4>1. n + 1 = p /\ g.prev[x] = x
        BY <1>1, <1>5, <3>2
      <4> QED BY <1>2, <2>1, <3>2, <4>1
    <3>3. CASE p = 1 /\ n # 0
      <4>1. n + 1 \in (p + 1)..(n + 1) /\ (n + 1) - 1 = n
        BY <1>1, <3>3
      <4>2. t[n + 1] = s[n] /\ g.prev[x] = s[n]
        BY <1>2, <1>5, <3>3, <4>1
      <4> QED BY <1>2, <2>1, <3>3, <4>2
    <3> QED BY <1>1, <3>1, <3>2, <3>3
  <2>2. CASE i < p
    <3>1. i \in 1..(p - 1) /\ i \in 1..n /\ t[i] = s[i] /\ s[i] \in Items /\ s[i] # x /\ n > 0
      BY <1>1, <1>2, <1>3, <2>2
    <3>2. p <= n => s[i] # s[p]
      <4>1. p <= n => p \in 1..n /\ i # p
        BY <1>1, <2>2
      <4> QED BY <1>1, <3>1, <4>1
    <3>3. CASE i = 1 /\ p = n + 1
      BY <1>2, <1>5, <3>1, <3>3
    <3>4. CASE i = 1 /\ p # n + 1
      <4>1. g.prev[s[i]] = h.prev[s[i]] /\ h.prev[s[i]] = s[n]
        BY <1>3, <1>5, <3>1, <3>2, <3>4
      <4>2. n + 1 \in (p + 1)..(n + 1) /\ (n + 1) - 1 = n
        BY <1>1, <3>4
      <4>3. t[n + 1] = s[n]
        BY <1>2, <4>2
      <4> QED BY <3>1, <3>4, <4>1, <4>3
    <3>5. CASE i # 1
      <4>1. i - 1 \in 1..(p - 1) /\ 1 \in 1..n
        BY <1>1, <3>1, <3>5
      <4>2. s[i] # s[1]
        BY <1>1, <3>1, <3>5, <4>1
      <4>3. g.prev[s[i]] = h.prev[s[i]] /\ h.prev[s[i]] = s[i - 1]
        BY <1>3, <1>5, <3>1, <3>2, <3>5, <4>2
      <4> QED BY <1>2, <3>1, <3>5, <4>1, <4>3
    <3> QED BY <3>3, <3>4, <3>5
  <2>3. CASE i > p
    <3>1. i \in (p + 1)..(n + 1) /\ i - 1 \in 1..n /\ t[i] = s[i - 1] /\ s[i - 1] \in Items /\ s[i - 1] # x
          /\ i # 1 /\ p <= n /\ p # n + 1 /\ p \in 1..n
      BY <1>1, <1>2, <1>3, <2>3
    <3>2. CASE i = p + 1
      <4>1. i - 1 = p
        BY <1>1, <3>2
      <4> QED BY <1>2, <1>5, <3>1, <4>1
    <3>3. CASE i # p + 1
      <4>1. i - 1 \in (p + 1)..(n + 1) /\ i - 1 # p /\ i - 1 # 1
        BY <1>1, <3>1, <3>3
      <4>2. s[i - 1] # s[p]
        BY <1>1, <3>1, <4>1
      <4>3. g.prev[s[i - 1]] = h.prev[s[i - 1]]
        BY <1>5, <3>1, <4>2
      <4>4. h.prev[s[i - 1]] = s[(i - 1) - 1] /\ t[i - 1] = s[(i - 1) - 1]
        BY <1>2, <1>3, <3>1, <4>1
      <4> QED BY <3>1, <4>3, <4>4
    <3> QED BY <3>2, <3>3
  <2> QED BY <1>1, <2>1, <2>2, <2>3
<1>9. Len(t) = n + 1 /\ n + 1 # 0
  BY <1>1, <1>2
<1> QED BY <1>6, <1>7, <1>8, <1>9 DEF ListOf, t

\* An item is in one list, and then no root.
LEMMA OneList ==
  ASSUME NEW h, NEW K, NEW R, Forest(h, K, R), NEW a \in Items, NEW i \in 1..Len(K[a])
  PROVE  /\ K[a][i] \in Items /\ In(K, a, K[a][i]) /\ K[a][i] \in h.live /\ K[a][i] \notin R
         /\ \A b \in Items : In(K, b, K[a][i]) => b = a
         /\ \A j \in 1..Len(K[a]) : K[a][j] = K[a][i] => j = i
<1>1. K[a][i] \in Items
  BY EachList DEF Forest
<1>2. In(K, a, K[a][i])
  BY DEF In
<1>3. Apart(K) /\ Owned(h, K, R)
  BY DEF Forest
<1>4. K[a][i] \in h.live \ R
  BY <1>1, <1>2, <1>3 DEF Owned
<1>5. \A b \in Items : In(K, b, K[a][i]) => b = a
  BY <1>3 DEF In, Apart
<1>6. \A j \in 1..Len(K[a]) : K[a][j] = K[a][i] => j = i
  BY <1>3 DEF Apart
<1> QED BY <1>1, <1>2, <1>4, <1>5, <1>6

\* The pointers of other lists stay when only items outside them change.
LEMMA OtherList ==
  ASSUME NEW h, NEW g, NEW b, NEW s, ListOf(h, b, s), g.child[b] = h.child[b],
         \A i \in 1..Len(s) : g.next[s[i]] = h.next[s[i]] /\ g.prev[s[i]] = h.prev[s[i]]
  PROVE  ListOf(g, b, s)
BY DEF ListOf

\* An item comes into a list, where nothing below it is.
LEMMA Hangs ==
  ASSUME NEW h, NEW K, NEW R, Forest(h, K, R), NEW a, Holder(h, a), NEW x \in R,
         NEW C, x \in C, a \notin C, Downward(K, C),
         NEW p \in 1..(Len(K[a]) + 1), NEW g, Spliced(h, g, a, K[a], p, x)
  PROVE  Forest(g, With(K, a, p, x), R \ {x})
<1> DEFINE L == With(K, a, p, x)
           s == K[a]
           n == Len(s)
<1>1. /\ Lists(K) /\ Apart(K) /\ Grounded(K) /\ Owned(h, K, R) /\ Loose(h, R) /\ Listed(h, K)
      /\ h.live \subseteq Items
  BY DEF Forest, Fields
<1>2. a \in Items /\ x \in Items /\ x \in h.live /\ Once(s) /\ ListOf(h, a, s)
  BY <1>1, KidsOf DEF Owned
<1>3. \A b \in Items : ~In(K, b, x)
  BY <1>1, <1>2 DEF Owned
<1>4. Lists(L) /\ Apart(L) /\ Hung(K, L, a, x)
  <2>1. Nowhere(K, x)
    BY <1>3 DEF Nowhere
  <2> QED BY <1>1, <1>2, <2>1, PutIn, Zenon
<1>5. Grounded(L)
  <2> HIDE DEF L
  <2> QED BY <1>1, <1>2, <1>4, StillGrounded, Zenon
<1>13. L[a] = Put(s, p, x) /\ \A b \in Items : b # a => L[b] = K[b]
  BY <1>1, <1>2 DEF Lists, With
<1> HIDE DEF L
<1>6. /\ Fields(g) /\ g.live = h.live /\ g.kind = h.kind /\ g.ref = h.ref
      /\ \A b \in Items : b # a => g.child[b] = h.child[b]
      /\ \A y \in Items : y # x /\ (p > 1 => y # s[p - 1]) => g.next[y] = h.next[y]
      /\ \A y \in Items : y # x /\ (p <= n => y # s[p]) /\ (p = n + 1 /\ n > 0 => y # s[1])
                         => g.prev[y] = h.prev[y]
  BY DEF Spliced, SameItems
<1>7. n \in Nat /\ p \in 1..(n + 1)
  BY <1>2, ListFits
<1>8. (p > 1 => p - 1 \in 1..n) /\ (p <= n => p \in 1..n) /\ (n > 0 => 1 \in 1..n)
  <2> HIDE DEF n
  <2> QED BY <1>7
<1>9. \A i \in 1..n : In(K, a, s[i]) /\ s[i] \in h.live /\ s[i] \notin R /\ \A b \in Items : In(K, b, s[i]) => b = a
  BY <1>2, OneList
<1>10. Listed(g, L)
  <2> SUFFICES ASSUME NEW b \in Items
               PROVE  IF Holder(g, b) THEN ListOf(g, b, L[b])
                      ELSE Len(L[b]) = 0 /\ (g.ref[b] \/ g.child[b] = NULL)
    BY DEF Listed
  <2>1. Holder(g, b) <=> Holder(h, b)
    BY <1>6 DEF Holder
  <2>2. CASE b = a
    <3>1. \A i \in 1..Len(s) : s[i] # x
      BY <1>2, <1>3, <1>9
    <3>2. ListOf(g, a, Put(s, p, x))
      BY <1>2, <3>1, SplicedList
    <3> QED BY <1>2, <1>13, <2>1, <2>2, <3>2
  <2>3. CASE b # a
    <3>1. L[b] = K[b] /\ g.child[b] = h.child[b] /\ g.ref = h.ref
      BY <1>6, <1>13, <2>3
    <3>2. CASE ~Holder(h, b)
      BY <1>1, <2>1, <3>1, <3>2 DEF Listed
    <3>3. CASE Holder(h, b)
      <4>1. ListOf(h, b, K[b])
        BY <1>1, <3>3 DEF Listed
      <4>2. ASSUME NEW i \in 1..Len(K[b])
            PROVE  g.next[K[b][i]] = h.next[K[b][i]] /\ g.prev[K[b][i]] = h.prev[K[b][i]]
        <5> DEFINE y == K[b][i]
        <5>1. y \in Items /\ In(K, b, y)
          BY OneList
        <5>2. y # x /\ \A j \in 1..n : y # s[j]
          BY <1>3, <1>9, <2>3, <5>1
        <5> HIDE DEF y, n, s
        <5>3. y # x /\ (p > 1 => y # s[p - 1]) /\ (p <= n => y # s[p]) /\ (n > 0 => y # s[1])
          BY <1>8, <5>2
        <5> QED BY <1>6, <5>1, <5>3 DEF y
      <4>3. ListOf(g, b, K[b])
        BY <3>1, <4>1, <4>2, OtherList
      <4> QED BY <2>1, <3>1, <3>3, <4>3
    <3> QED BY <3>2, <3>3
  <2> QED BY <2>2, <2>3
<1>11. Owned(g, L, R \ {x})
  <2>1. R \ {x} \subseteq g.live
    BY <1>1, <1>6 DEF Owned
  <2>2. ASSUME NEW y \in Items PROVE (\E b \in Items : In(L, b, y)) <=> y \in g.live \ (R \ {x})
    <3>1. (\E b \in Items : In(L, b, y)) <=> (\E b \in Items : In(K, b, y)) \/ y = x
      BY <1>2, <1>4 DEF Hung
    <3>2. (\E b \in Items : In(K, b, y)) <=> y \in h.live \ R
      BY <1>1 DEF Owned
    <3> QED BY <1>2, <1>6, <3>1, <3>2
  <2> QED BY <2>1, <2>2 DEF Owned
<1>12. Loose(g, R \ {x})
  <2> SUFFICES ASSUME NEW y \in Items
               PROVE  (y \in R \ {x} => g.next[y] = NULL) /\ (y \notin g.live => g.next[y] = NULL /\ ~g.ref[y])
    BY DEF Loose
  <2>1. (y \in R => h.next[y] = NULL) /\ (y \notin h.live => h.next[y] = NULL /\ ~h.ref[y])
    BY <1>1 DEF Loose
  <2>2. ASSUME y \in R \ {x} \/ y \notin h.live PROVE g.next[y] = h.next[y]
    <3>1. y # x
      BY <1>2, <2>2
    <3>2. p > 1 => y # s[p - 1]
      BY <1>8, <1>9, <2>2
    <3> QED BY <1>6, <3>1, <3>2
  <2> QED BY <1>6, <2>1, <2>2
<1> QED BY <1>4, <1>5, <1>6, <1>10, <1>11, <1>12 DEF Forest, L

Relink(h, c, m, q) == [h EXCEPT !.child = c, !.next = m, !.prev = q]

Links == [Items -> Items \union {NULL}]

\* The items with other links are still items.
LEMMA Relinked ==
  ASSUME NEW h, Fields(h), NEW c \in Links, NEW m \in Links,
         NEW q \in Links
  PROVE  \A g : g = Relink(h, c, m, q) =>
           SameItems(h, g) /\ g.child = c /\ g.next = m /\ g.prev = q
BY DEF Fields, SameItems, Relink, Links

\* What the list of a container looks like to the calls.
LEMMA Within ==
  ASSUME NEW h, NEW K, NEW R, Forest(h, K, R), NEW a, Holder(h, a)
  PROVE  /\ a \in Items /\ Kids(h, a) = K[a] /\ Once(K[a]) /\ ListOf(h, a, K[a])
         /\ K[a] \in Seq(Items) /\ Len(K[a]) \in Nat
         /\ \A i \in 1..Len(K[a]) : K[a][i] \in Items /\ K[a][i] # NULL /\ K[a][i] \notin R
         /\ \A i, j \in 1..Len(K[a]) : K[a][i] = K[a][j] => i = j
<1>1. a \in Items /\ Kids(h, a) = K[a] /\ Once(K[a]) /\ ListOf(h, a, K[a])
  BY KidsOf
<1>2. K[a] \in Seq(Items) /\ Len(K[a]) \in Nat
  BY <1>1, EachList DEF Forest
<1>3. \A i \in 1..Len(K[a]) : K[a][i] \in Items /\ K[a][i] # NULL /\ K[a][i] \notin R
  BY <1>1, OneList, CJsonAssumption
<1> QED BY <1>1, <1>2, <1>3 DEF Once

\* add_item_to_array puts the item last.
LEMMA Appends ==
  ASSUME NEW h, NEW K, NEW R, Forest(h, K, R), NEW a, Holder(h, a), NEW x \in R
  PROVE  Spliced(h, AddItemToArray(h, a, x), a, K[a], Len(K[a]) + 1, x)
<1> DEFINE s == K[a]
           n == Len(s)
           g == AddItemToArray(h, a, x)
<1>1. /\ a \in Items /\ n \in Nat /\ \A i \in 1..n : s[i] \in Items /\ s[i] # NULL /\ s[i] \notin R
  BY Within
<1>2. /\ h.child[a] = IF n = 0 THEN NULL ELSE s[1]
      /\ \A i \in 1..n : h.prev[s[i]] = IF i = 1 THEN s[n] ELSE s[i - 1]
  <2>1. ListOf(h, a, K[a])
    BY Within
  <2> QED BY <2>1 DEF ListOf
<1>3. Fields(h) /\ x \in Items /\ h.next[x] = NULL
  BY DEF Forest, Owned, Fields, Loose
<1>4. /\ h.child \in Links /\ h.next \in Links
      /\ h.prev \in Links
  BY <1>3 DEF Fields, Links
<1> HIDE DEF n, s
<1>5. CASE n = 0
  <2> DEFINE c == [h.child EXCEPT ![a] = x]
             m == [h.next EXCEPT ![x] = NULL]
             q == [h.prev EXCEPT ![x] = x]
  <2>1. g = Relink(h, c, m, q)
    BY <1>2, <1>5, <1>3 DEF AddItemToArray, Fields, Relink
  <2>2. /\ c \in Links /\ m \in Links
        /\ q \in Links
    BY <1>3, <1>4 DEF Links
  <2>3. SameItems(h, g) /\ g.child = c /\ g.next = m /\ g.prev = q
    <3> HIDE DEF c, m, q, g
    <3> QED BY <1>3, <2>1, <2>2, Relinked
  <2> HIDE DEF g
  <2>4. c[a] = x /\ (\A b \in Items : b # a => c[b] = h.child[b]) /\ m[x] = NULL
        /\ (\A b \in Items : b # x => m[b] = h.next[b]) /\ q[x] = x /\ (\A b \in Items : b # x => q[b] = h.prev[b])
    BY <1>1, <1>3, <1>4 DEF Links
  <2> HIDE DEF c, m, q
  <2>5. Spliced(h, g, a, s, n + 1, x)
    <3>1. SameItems(h, g) /\ g.child[a] = (IF (n + 1) = 1 THEN x ELSE h.child[a]) /\ \A b \in Items : b # a => g.child[b] = h.child[b]
      BY <1>1, <1>2, <1>5, <2>3, <2>4
    <3>2. /\ g.next[x] = IF (n + 1) <= n THEN s[n + 1] ELSE NULL
          /\ (n + 1) > 1 => g.next[s[(n + 1) - 1]] = x
          /\ \A y \in Items : y # x /\ ((n + 1) > 1 => y # s[(n + 1) - 1]) => g.next[y] = h.next[y]
      BY <1>1, <1>2, <1>5, <2>3, <2>4
    <3>3. /\ g.prev[x] = IF (n + 1) > 1 THEN s[(n + 1) - 1] ELSE IF n = 0 THEN x ELSE s[n]
          /\ (n + 1) <= n => g.prev[s[n + 1]] = x
          /\ (n + 1) = n + 1 /\ n > 0 => g.prev[s[1]] = x
          /\ \A y \in Items : y # x /\ ((n + 1) <= n => y # s[n + 1]) /\ ((n + 1) = n + 1 /\ n > 0 => y # s[1])
                         => g.prev[y] = h.prev[y]
      BY <1>1, <1>2, <1>5, <2>3, <2>4
    <3> QED BY <3>1, <3>2, <3>3 DEF Spliced, n
  <2> QED BY <2>5 DEF s, n, g
<1>6. CASE n # 0
  <2>1. h.child[a] = s[1] /\ s[1] # NULL /\ h.prev[s[1]] = s[n] /\ s[1] \in Items /\ s[n] \in Items
        /\ s[1] # x /\ s[n] # x /\ (n + 1) - 1 = n /\ ~(n + 1 <= n) /\ n + 1 > 1 /\ n > 0 /\ n + 1 # 1
    <3>1. 1 \in 1..n /\ n \in 1..n
      BY <1>1, <1>6
    <3> QED BY <1>1, <1>2, <1>6, <3>1
  <2> DEFINE c == h.child
             m == [h.next EXCEPT ![s[n]] = x]
             q == [h.prev EXCEPT ![x] = s[n], ![s[1]] = x]
  <2>2. g = Relink(h, c, m, q)
    <3>1. g = [h EXCEPT !.next = m, !.prev = q]
      BY <1>3, <2>1 DEF AddItemToArray, Fields
    <3> QED BY <1>3, <3>1 DEF Fields, Relink
  <2>3. /\ c \in Links /\ m \in Links
        /\ q \in Links
    BY <1>3, <1>4, <2>1 DEF Links
  <2>4. SameItems(h, g) /\ g.child = c /\ g.next = m /\ g.prev = q
    <3> HIDE DEF c, m, q, g
    <3> QED BY <1>3, <2>2, <2>3, Relinked
  <2> HIDE DEF g
  <2>5. m[s[n]] = x /\ (\A b \in Items : b # s[n] => m[b] = h.next[b]) /\ q[x] = s[n] /\ q[s[1]] = x
        /\ (\A b \in Items : b # x /\ b # s[1] => q[b] = h.prev[b]) /\ m[x] = NULL
    BY <1>3, <1>4, <2>1 DEF Links
  <2> HIDE DEF m, q
  <2>6. Spliced(h, g, a, s, n + 1, x)
    <3>1. SameItems(h, g) /\ g.child[a] = (IF (n + 1) = 1 THEN x ELSE h.child[a]) /\ \A b \in Items : b # a => g.child[b] = h.child[b]
      BY <1>1, <2>1, <2>4, <2>5
    <3>2. /\ g.next[x] = IF (n + 1) <= n THEN s[n + 1] ELSE NULL
          /\ (n + 1) > 1 => g.next[s[(n + 1) - 1]] = x
          /\ \A y \in Items : y # x /\ ((n + 1) > 1 => y # s[(n + 1) - 1]) => g.next[y] = h.next[y]
      BY <1>1, <2>1, <2>4, <2>5
    <3>3. /\ g.prev[x] = IF (n + 1) > 1 THEN s[(n + 1) - 1] ELSE IF n = 0 THEN x ELSE s[n]
          /\ (n + 1) <= n => g.prev[s[n + 1]] = x
          /\ (n + 1) = n + 1 /\ n > 0 => g.prev[s[1]] = x
          /\ \A y \in Items : y # x /\ ((n + 1) <= n => y # s[n + 1]) /\ ((n + 1) = n + 1 /\ n > 0 => y # s[1])
                         => g.prev[y] = h.prev[y]
      BY <1>1, <2>1, <2>4, <2>5
    <3> QED BY <3>1, <3>2, <3>3 DEF Spliced, n
  <2> QED BY <2>6 DEF s, n, g
<1> QED BY <1>5, <1>6

\* cJSON_InsertItemInArray puts it where it is told, or last.
LEMMA Inserts ==
  ASSUME NEW h, NEW K, NEW R, Forest(h, K, R), NEW a, Holder(h, a), NEW x \in R, NEW which \in Nat
  PROVE  \E p \in 1..(Len(K[a]) + 1) : Spliced(h, InsertItemInArray(h, a, which, x), a, K[a], p, x)
<1> DEFINE s == K[a]
           n == Len(s)
           g == InsertItemInArray(h, a, which, x)
<1>1. /\ a \in Items /\ n \in Nat /\ (\A i \in 1..n : s[i] \in Items /\ s[i] # NULL /\ s[i] \notin R)
      /\ Kids(h, a) = s /\ \A i, j \in 1..n : s[i] = s[j] => i = j
  BY Within
<1>2. /\ h.child[a] = IF n = 0 THEN NULL ELSE s[1]
      /\ \A i \in 1..n : h.prev[s[i]] = IF i = 1 THEN s[n] ELSE s[i - 1]
  <2>1. ListOf(h, a, K[a])
    BY Within
  <2> QED BY <2>1 DEF ListOf
<1>3. Fields(h) /\ x \in Items /\ h.next[x] = NULL
  BY DEF Forest, Owned, Fields, Loose
<1>4. /\ h.child \in Links /\ h.next \in Links
      /\ h.prev \in Links
  BY <1>3 DEF Fields, Links
<1>5. CASE ~(which < n)
  <2>1. g = AddItemToArray(h, a, x)
    BY <1>1, <1>5 DEF InsertItemInArray
  <2>2. n + 1 \in 1..(n + 1)
    <3> HIDE DEF n
    <3> QED BY <1>1
  <2> QED BY <2>1, <2>2, Appends
<1> HIDE DEF n, s
<1>6. CASE which < n
  <2> DEFINE p == which + 1
             before == IF p = 1 THEN s[n] ELSE s[p - 1]
  <2>1. p \in 1..n /\ p \in 1..(n + 1) /\ 1 \in 1..n /\ n \in 1..n /\ (p # 1 => p - 1 \in 1..n) /\ n # 0 /\ p # n + 1 /\ p <= n
        /\ (p > 1 <=> p # 1)
    BY <1>1, <1>6
  <2>2. h.prev[s[p]] = before /\ h.child[a] = s[1] /\ s[p] \in Items /\ s[p] # NULL /\ s[p] # x /\ (s[p] = s[1] <=> p = 1)
        /\ before \in Items /\ before # x
    BY <1>1, <1>2, <2>1
  <2> DEFINE c == [h.child EXCEPT ![a] = IF p = 1 THEN x ELSE s[1]]
             m == IF p = 1 THEN [h.next EXCEPT ![x] = s[p]] ELSE [h.next EXCEPT ![x] = s[p], ![before] = x]
             q == [h.prev EXCEPT ![x] = before, ![s[p]] = x]
  <2>3. g = Relink(h, c, m, q)
    <3>1. (IF which < Len(s) THEN s[which + 1] ELSE NULL) = s[p]
      BY <1>6 DEF n
    <3> HIDE DEF p, before
    <3>2. g = [h EXCEPT !.prev = [@ EXCEPT ![x] = before, ![s[p]] = x],
                 !.child[a] = IF s[p] = s[1] THEN x ELSE s[1],
                 !.next = IF s[p] = s[1] THEN [h.next EXCEPT ![x] = s[p]] ELSE [[h.next EXCEPT ![x] = s[p]] EXCEPT ![before] = x]]
      BY <1>1, <2>2, <3>1 DEF InsertItemInArray
    <3> QED BY <1>3, <2>2, <3>2 DEF Fields, Relink
  <2>4. /\ c \in Links /\ m \in Links
        /\ q \in Links
    <3> HIDE DEF p, before
    <3>1. s[1] \in Items
      BY <1>1, <2>1
    <3> QED BY <1>3, <1>4, <2>2, <3>1 DEF Links
  <2>5. SameItems(h, g) /\ g.child = c /\ g.next = m /\ g.prev = q
    <3> HIDE DEF c, m, q, g
    <3> QED BY <1>3, <2>3, <2>4, Relinked
  <2>6. c[a] = (IF p = 1 THEN x ELSE s[1]) /\ (\A b \in Items : b # a => c[b] = h.child[b])
        /\ m[x] = s[p] /\ (p # 1 => m[before] = x) /\ (\A b \in Items : b # x /\ (p # 1 => b # before) => m[b] = h.next[b])
        /\ q[x] = before /\ q[s[p]] = x /\ (\A b \in Items : b # x /\ b # s[p] => q[b] = h.prev[b])
    <3> HIDE DEF p, before
    <3> QED BY <1>1, <1>3, <1>4, <2>2 DEF Links
  <2> HIDE DEF c, m, q, g, p
  <2>7. Spliced(h, g, a, s, p, x)
    <3>1. SameItems(h, g) /\ g.child[a] = (IF p = 1 THEN x ELSE h.child[a]) /\ \A b \in Items : b # a => g.child[b] = h.child[b]
      BY <1>1, <2>1, <2>2, <2>5, <2>6
    <3>2. /\ g.next[x] = IF p <= n THEN s[p] ELSE NULL
          /\ p > 1 => g.next[s[p - 1]] = x
          /\ \A y \in Items : y # x /\ (p > 1 => y # s[p - 1]) => g.next[y] = h.next[y]
      BY <1>1, <2>1, <2>2, <2>5, <2>6
    <3>3. /\ g.prev[x] = IF p > 1 THEN s[p - 1] ELSE IF n = 0 THEN x ELSE s[n]
          /\ p <= n => g.prev[s[p]] = x
          /\ p = n + 1 /\ n > 0 => g.prev[s[1]] = x
          /\ \A y \in Items : y # x /\ (p <= n => y # s[p]) /\ (p = n + 1 /\ n > 0 => y # s[1])
                         => g.prev[y] = h.prev[y]
      BY <1>1, <2>1, <2>2, <2>5, <2>6
    <3> QED BY <3>1, <3>2, <3>3 DEF Spliced, n
  <2> QED BY <2>1, <2>7 DEF s, n, g
<1> QED BY <1>5, <1>6

\* g is h with the p-th item of a, whose list is s in h, taken out.
Unspliced(h, g, a, s, p) ==
  /\ SameItems(h, g)
  /\ g.child[a] = IF p = 1 THEN IF Len(s) > 1 THEN s[2] ELSE NULL ELSE h.child[a]
  /\ \A b \in Items : b # a => g.child[b] = h.child[b]
  /\ g.next[s[p]] = NULL
  /\ p > 1 => g.next[s[p - 1]] = IF p < Len(s) THEN s[p + 1] ELSE NULL
  /\ \A y \in Items : y # s[p] /\ (p > 1 => y # s[p - 1]) => g.next[y] = h.next[y]
  /\ p < Len(s) => g.prev[s[p + 1]] = IF p = 1 THEN s[Len(s)] ELSE s[p - 1]
  /\ p = Len(s) /\ p > 1 => g.prev[s[1]] = s[p - 1]
  /\ \A y \in Items : y # s[p] /\ (p < Len(s) => y # s[p + 1]) /\ (p = Len(s) /\ p > 1 => y # s[1])
                        => g.prev[y] = h.prev[y]

\* The pointers lead through the shorter list.
LEMMA UnsplicedList ==
  ASSUME NEW h, NEW g, NEW a, NEW s, Once(s), ListOf(h, a, s), NEW p \in 1..Len(s), Unspliced(h, g, a, s, p)
  PROVE  ListOf(g, a, Out(s, p))
<1> DEFINE n == Len(s)
           t == Out(s, p)
<1>1. n \in Nat /\ p \in 1..n /\ (\A i \in 1..n : s[i] \in Items) /\ \A i, j \in 1..n : s[i] = s[j] => i = j
  BY ListFits DEF Once
<1>2. /\ Len(t) = n - 1
      /\ \A i \in 1..(p - 1) : t[i] = s[i]
      /\ \A i \in p..(n - 1) : t[i] = s[i + 1]
  BY OutIs DEF Once
<1>3. /\ h.child[a] = IF n = 0 THEN NULL ELSE s[1]
      /\ \A i \in 1..n : h.next[s[i]] = IF i < n THEN s[i + 1] ELSE NULL
      /\ \A i \in 1..n : h.prev[s[i]] = IF i = 1 THEN s[n] ELSE s[i - 1]
  BY DEF ListOf
<1>4. /\ g.child[a] = IF p = 1 THEN IF n > 1 THEN s[2] ELSE NULL ELSE h.child[a]
      /\ p > 1 => g.next[s[p - 1]] = IF p < n THEN s[p + 1] ELSE NULL
      /\ \A y \in Items : y # s[p] /\ (p > 1 => y # s[p - 1]) => g.next[y] = h.next[y]
  BY DEF Unspliced
<1>5. /\ p < n => g.prev[s[p + 1]] = IF p = 1 THEN s[n] ELSE s[p - 1]
      /\ p = n /\ p > 1 => g.prev[s[1]] = s[p - 1]
      /\ \A y \in Items : y # s[p] /\ (p < n => y # s[p + 1]) /\ (p = n /\ p > 1 => y # s[1])
                            => g.prev[y] = h.prev[y]
  BY DEF Unspliced
<1> HIDE DEF n, t
<1>6. g.child[a] = IF n - 1 = 0 THEN NULL ELSE t[1]
  <2>1. CASE p = 1
    <3>1. CASE n = 1
      BY <1>4, <2>1, <3>1
    <3>2. CASE n # 1
      <4>1. n > 1 /\ 1 \in p..(n - 1) /\ n - 1 # 0 /\ 1 + 1 = 2
        BY <1>1, <2>1, <3>2
      <4>2. t[1] = s[2]
        BY <1>2, <4>1
      <4> QED BY <1>4, <2>1, <4>1, <4>2
    <3> QED BY <3>1, <3>2
  <2>2. CASE p # 1
    <3>1. 1 \in 1..(p - 1) /\ n # 0 /\ n - 1 # 0
      BY <1>1, <2>2
    <3> QED BY <1>2, <1>3, <1>4, <2>2, <3>1
  <2> QED BY <2>1, <2>2
<1>7. ASSUME NEW i \in 1..(n - 1) PROVE g.next[t[i]] = IF i < n - 1 THEN t[i + 1] ELSE NULL
  <2>1. CASE i < p
    <3>1. i \in 1..(p - 1) /\ i \in 1..n /\ t[i] = s[i] /\ s[i] \in Items /\ s[i] # s[p]
      BY <1>1, <1>2, <2>1
    <3>2. CASE i = p - 1
      <4>1. p > 1 /\ i + 1 = p /\ (p < n <=> i < n - 1) /\ (p < n => p \in p..(n - 1))
        BY <1>1, <3>1, <3>2
      <4>2. p < n => t[p] = s[p + 1]
        BY <1>2, <4>1
      <4>3. g.next[s[i]] = IF p < n THEN s[p + 1] ELSE NULL
        BY <1>4, <3>2, <4>1
      <4> QED BY <3>1, <4>1, <4>2, <4>3
    <3>3. CASE i # p - 1
      <4>1. i + 1 \in 1..(p - 1) /\ i < n /\ i < n - 1 /\ p - 1 \in 1..n
        BY <1>1, <3>1, <3>3
      <4>2. s[i] # s[p - 1]
        BY <1>1, <3>1, <3>3, <4>1
      <4>3. g.next[s[i]] = h.next[s[i]]
        BY <1>4, <3>1, <4>2
      <4>4. h.next[s[i]] = s[i + 1] /\ t[i + 1] = s[i + 1]
        BY <1>2, <1>3, <3>1, <4>1
      <4> QED BY <3>1, <4>1, <4>3, <4>4
    <3> QED BY <3>2, <3>3
  <2>2. CASE ~(i < p)
    <3>1. i \in p..(n - 1) /\ i + 1 \in 1..n /\ p - 1 # i + 1 /\ p # i + 1 /\ (p > 1 => p - 1 \in 1..n)
      BY <1>1, <2>2
    <3>2. t[i] = s[i + 1] /\ s[i + 1] \in Items /\ s[i + 1] # s[p] /\ (p > 1 => s[i + 1] # s[p - 1])
      BY <1>1, <1>2, <3>1
    <3>3. g.next[s[i + 1]] = h.next[s[i + 1]]
      BY <1>4, <3>2
    <3>4. h.next[s[i + 1]] = IF i + 1 < n THEN s[(i + 1) + 1] ELSE NULL
      BY <1>3, <3>1
    <3>5. (i + 1 < n <=> i < n - 1) /\ (i < n - 1 => i + 1 \in p..(n - 1))
      BY <1>1, <3>1
    <3>6. i < n - 1 => t[i + 1] = s[(i + 1) + 1]
      BY <1>2, <3>5
    <3> QED BY <3>2, <3>3, <3>4, <3>5, <3>6
  <2> QED BY <2>1, <2>2
<1>8. ASSUME NEW i \in 1..(n - 1) PROVE g.prev[t[i]] = IF i = 1 THEN t[n - 1] ELSE t[i - 1]
  <2>1. CASE i < p
    <3>1. i \in 1..(p - 1) /\ i \in 1..n /\ t[i] = s[i] /\ s[i] \in Items /\ s[i] # s[p] /\ 1 \in 1..n /\ p > 1
      BY <1>1, <1>2, <2>1
    <3>2. p < n => s[i] # s[p + 1]
      <4>1. p < n => p + 1 \in 1..n /\ p + 1 # i
        BY <1>1, <2>1
      <4> QED BY <1>1, <3>1, <4>1
    <3>3. CASE i = 1 /\ p = n
      <4>1. n - 1 \in 1..(p - 1) /\ p - 1 = n - 1
        BY <1>1, <3>1, <3>3
      <4> QED BY <1>2, <1>5, <3>1, <3>3, <4>1
    <3>4. CASE i = 1 /\ p # n
      <4>1. g.prev[s[i]] = h.prev[s[i]] /\ h.prev[s[i]] = s[n]
        BY <1>3, <1>5, <3>1, <3>2, <3>4
      <4>2. n - 1 \in p..(n - 1) /\ (n - 1) + 1 = n
        BY <1>1, <3>4
      <4>3. t[n - 1] = s[n]
        BY <1>2, <4>2
      <4> QED BY <3>1, <3>4, <4>1, <4>3
    <3>5. CASE i # 1
      <4>1. i - 1 \in 1..(p - 1)
        BY <1>1, <3>1, <3>5
      <4>2. s[i] # s[1]
        BY <1>1, <3>1, <3>5
      <4>3. g.prev[s[i]] = h.prev[s[i]] /\ h.prev[s[i]] = s[i - 1]
        BY <1>3, <1>5, <3>1, <3>2, <3>5, <4>2
      <4> QED BY <1>2, <3>1, <3>5, <4>1, <4>3
    <3> QED BY <3>3, <3>4, <3>5
  <2>2. CASE ~(i < p)
    <3>1. i \in p..(n - 1) /\ i + 1 \in 1..n /\ p # i + 1 /\ p < n /\ p # n /\ p + 1 \in 1..n
      BY <1>1, <2>2
    <3>2. t[i] = s[i + 1] /\ s[i + 1] \in Items /\ s[i + 1] # s[p]
      BY <1>1, <1>2, <3>1
    <3>3. CASE i = p
      <4>1. g.prev[t[i]] = IF p = 1 THEN s[n] ELSE s[p - 1]
        BY <1>5, <3>1, <3>2, <3>3
      <4>2. n - 1 \in p..(n - 1) /\ (n - 1) + 1 = n
        BY <1>1, <3>1
      <4>3. t[n - 1] = s[n]
        BY <1>2, <4>2
      <4>4. p # 1 => t[p - 1] = s[p - 1]
        <5>1. p # 1 => p - 1 \in 1..(p - 1)
          BY <1>1
        <5> QED BY <1>2, <5>1
      <4> QED BY <3>3, <4>1, <4>3, <4>4
    <3>4. CASE i # p
      <4>1. i # 1 /\ i + 1 # 1 /\ i + 1 # p + 1 /\ (i + 1) - 1 = i /\ i - 1 \in p..(n - 1) /\ (i - 1) + 1 = i
        BY <1>1, <3>1, <3>4
      <4>2. s[i + 1] # s[p + 1]
        BY <1>1, <3>1, <4>1
      <4>3. g.prev[s[i + 1]] = h.prev[s[i + 1]]
        BY <1>5, <3>1, <3>2, <4>2
      <4>4. h.prev[s[i + 1]] = s[i]
        BY <1>3, <3>1, <4>1
      <4>5. t[i - 1] = s[i]
        BY <1>2, <4>1
      <4> QED BY <3>2, <4>1, <4>3, <4>4, <4>5
    <3> QED BY <3>3, <3>4
  <2> QED BY <2>1, <2>2
<1> QED BY <1>2, <1>6, <1>7, <1>8 DEF ListOf, t

\* An item comes out of a list.
LEMMA Unhangs ==
  ASSUME NEW h, NEW K, NEW R, Forest(h, K, R), NEW a, Holder(h, a), NEW p \in 1..Len(K[a]),
         NEW g, Unspliced(h, g, a, K[a], p)
  PROVE  Forest(g, Without(K, a, p), R \union {K[a][p]})
<1> DEFINE L == Without(K, a, p)
           s == K[a]
           n == Len(s)
           x == s[p]
<1>1. /\ Lists(K) /\ Apart(K) /\ Grounded(K) /\ Owned(h, K, R) /\ Loose(h, R) /\ Listed(h, K)
      /\ h.live \subseteq Items
  BY DEF Forest, Fields
<1>2. a \in Items /\ Once(s) /\ ListOf(h, a, s)
  BY Within
<1>3. x \in Items /\ x \in h.live /\ x \notin R
  BY <1>2, OneList
<1>4. Lists(L) /\ Apart(L) /\ Gone(K, L, x)
  BY <1>1, <1>2, OutIn
<1>5. L[a] = Out(s, p) /\ \A b \in Items : b # a => L[b] = K[b]
  BY <1>1, <1>2 DEF Lists, Without
<1> HIDE DEF L
<1>6. Grounded(L)
  BY <1>1, <1>4, LessGrounded DEF Gone
<1>7. /\ Fields(g) /\ g.live = h.live /\ g.kind = h.kind /\ g.ref = h.ref
      /\ \A b \in Items : b # a => g.child[b] = h.child[b]
      /\ g.next[x] = NULL
      /\ \A y \in Items : y # x /\ (p > 1 => y # s[p - 1]) => g.next[y] = h.next[y]
      /\ \A y \in Items : y # x /\ (p < n => y # s[p + 1]) /\ (p = n /\ p > 1 => y # s[1])
                            => g.prev[y] = h.prev[y]
  BY DEF Unspliced, SameItems
<1>8. n \in Nat /\ p \in 1..n
  BY Within
<1>9. (p > 1 => p - 1 \in 1..n) /\ (p < n => p + 1 \in 1..n) /\ 1 \in 1..n
  <2> HIDE DEF n
  <2> QED BY <1>8
<1>10. \A i \in 1..n : In(K, a, s[i]) /\ s[i] \in h.live /\ s[i] \notin R /\ \A b \in Items : In(K, b, s[i]) => b = a
  BY <1>2, OneList
<1>11. Listed(g, L)
  <2> SUFFICES ASSUME NEW b \in Items
               PROVE  IF Holder(g, b) THEN ListOf(g, b, L[b])
                      ELSE Len(L[b]) = 0 /\ (g.ref[b] \/ g.child[b] = NULL)
    BY DEF Listed
  <2>1. Holder(g, b) <=> Holder(h, b)
    BY <1>7 DEF Holder
  <2>2. CASE b = a
    <3>1. ListOf(g, a, Out(s, p))
      BY <1>2, UnsplicedList
    <3> QED BY <1>5, <2>1, <2>2, <3>1
  <2>3. CASE b # a
    <3>1. L[b] = K[b] /\ g.child[b] = h.child[b] /\ g.ref = h.ref
      BY <1>5, <1>7, <2>3
    <3>2. CASE ~Holder(h, b)
      BY <1>1, <2>1, <3>1, <3>2 DEF Listed
    <3>3. CASE Holder(h, b)
      <4>1. ListOf(h, b, K[b])
        BY <1>1, <3>3 DEF Listed
      <4>2. ASSUME NEW i \in 1..Len(K[b])
            PROVE  g.next[K[b][i]] = h.next[K[b][i]] /\ g.prev[K[b][i]] = h.prev[K[b][i]]
        <5> DEFINE y == K[b][i]
        <5>1. y \in Items /\ In(K, b, y)
          BY OneList
        <5>2. \A j \in 1..n : y # s[j]
          BY <1>10, <2>3, <5>1
        <5> HIDE DEF y, n, s
        <5>3. y # x /\ (p > 1 => y # s[p - 1]) /\ (p < n => y # s[p + 1]) /\ y # s[1]
          BY <1>8, <1>9, <5>2
        <5> QED BY <1>7, <5>1, <5>3 DEF y
      <4>3. ListOf(g, b, K[b])
        BY <3>1, <4>1, <4>2, OtherList
      <4> QED BY <2>1, <3>1, <3>3, <4>3
    <3> QED BY <3>2, <3>3
  <2> QED BY <2>2, <2>3
<1>12. Owned(g, L, R \union {x})
  <2>1. R \union {x} \subseteq g.live
    BY <1>1, <1>3, <1>7 DEF Owned
  <2>2. ASSUME NEW y \in Items PROVE (\E b \in Items : In(L, b, y)) <=> y \in g.live \ (R \union {x})
    <3>1. (\E b \in Items : In(L, b, y)) <=> (\E b \in Items : In(K, b, y)) /\ y # x
      BY <1>4 DEF Gone
    <3>2. (\E b \in Items : In(K, b, y)) <=> y \in h.live \ R
      BY <1>1 DEF Owned
    <3> QED BY <1>7, <3>1, <3>2
  <2> QED BY <2>1, <2>2 DEF Owned
<1>13. Loose(g, R \union {x})
  <2> SUFFICES ASSUME NEW y \in Items
               PROVE  (y \in R \union {x} => g.next[y] = NULL) /\ (y \notin g.live => g.next[y] = NULL /\ ~g.ref[y])
    BY DEF Loose
  <2>1. (y \in R => h.next[y] = NULL) /\ (y \notin h.live => h.next[y] = NULL /\ ~h.ref[y])
    BY <1>1 DEF Loose
  <2>2. ASSUME y \in R \/ y \notin h.live PROVE g.next[y] = h.next[y]
    <3>1. y # x
      BY <1>3, <2>2
    <3>2. p > 1 => y # s[p - 1]
      BY <1>9, <1>10, <2>2
    <3> QED BY <1>7, <3>1, <3>2
  <2> QED BY <1>7, <2>1, <2>2
<1> QED BY <1>4, <1>6, <1>7, <1>11, <1>12, <1>13 DEF Forest, L

\* cJSON_DetachItemViaPointer takes an item out of its list.
LEMMA Detaches ==
  ASSUME NEW h, NEW K, NEW R, Forest(h, K, R), NEW a, Holder(h, a), NEW p \in 1..Len(K[a])
  PROVE  /\ Unspliced(h, DetachItemViaPointer(h, a, K[a][p]), a, K[a], p)
         /\ DetachItemViaPointer(h, a, K[a][p]).prev[K[a][p]] = NULL
<1> DEFINE s == K[a]
           n == Len(s)
           x == s[p]
           g == DetachItemViaPointer(h, a, x)
           before == IF p = 1 THEN s[n] ELSE s[p - 1]
           after == IF p < n THEN s[p + 1] ELSE NULL
<1>1. /\ a \in Items /\ n \in Nat /\ p \in 1..n /\ (\A i \in 1..n : s[i] \in Items /\ s[i] # NULL)
      /\ \A i, j \in 1..n : s[i] = s[j] => i = j
  BY Within
<1>2. /\ h.child[a] = IF n = 0 THEN NULL ELSE s[1]
      /\ \A i \in 1..n : h.next[s[i]] = IF i < n THEN s[i + 1] ELSE NULL
      /\ \A i \in 1..n : h.prev[s[i]] = IF i = 1 THEN s[n] ELSE s[i - 1]
  <2>1. ListOf(h, a, K[a])
    BY Within
  <2> QED BY <2>1 DEF ListOf
<1>3. Fields(h)
  BY DEF Forest
<1>4. h.child \in Links /\ h.next \in Links /\ h.prev \in Links
  BY <1>3 DEF Fields, Links
<1> HIDE DEF n, s
<1>5. 1 \in 1..n /\ n \in 1..n /\ n # 0 /\ (p # 1 => p - 1 \in 1..n /\ p - 1 # p) /\ (p < n => p + 1 \in 1..n /\ p + 1 # p)
      /\ (p > 1 <=> p # 1) /\ (p = 1 => (p < n <=> n > 1) /\ p + 1 = 2) /\ (~(p < n) <=> p = n)
  BY <1>1
<1>6. /\ h.prev[x] = before /\ h.next[x] = after /\ h.child[a] = s[1] /\ (x = s[1] <=> p = 1) /\ x \in Items
      /\ s[1] \in Items /\ s[1] # NULL
  BY <1>1, <1>2, <1>5
<1>7. /\ before \in Items /\ (p # 1 => before # x) /\ (p < n => after \in Items /\ after # NULL /\ after # x)
      /\ (~(p < n) => after = NULL)
  BY <1>1, <1>5
<1> HIDE DEF x, before, after, g
<1> DEFINE c == [h.child EXCEPT ![a] = IF p = 1 THEN after ELSE s[1]]
           m1 == IF p = 1 THEN h.next ELSE [h.next EXCEPT ![before] = after]
           q1 == IF p < n THEN [h.prev EXCEPT ![after] = before]
                 ELSE IF p # 1 THEN [h.prev EXCEPT ![s[1]] = before] ELSE h.prev
           m == [m1 EXCEPT ![x] = NULL]
           q == [q1 EXCEPT ![x] = NULL]
<1>8. m1 = (IF x = s[1] THEN h.next ELSE [h.next EXCEPT ![before] = after])
      /\ q1 = IF after # NULL THEN [h.prev EXCEPT ![after] = before]
              ELSE IF x # s[1] THEN [h.prev EXCEPT ![s[1]] = before] ELSE h.prev
  BY <1>6, <1>7
<1>9. g = Relink(h, c, m, q)
  <2> HIDE DEF m1, q1
  <2>1. g = [h EXCEPT !.child[a] = IF x = s[1] THEN after ELSE s[1],
                      !.next = [m1 EXCEPT ![x] = NULL], !.prev = [q1 EXCEPT ![x] = NULL]]
    BY <1>6, <1>8 DEF DetachItemViaPointer, g
  <2> QED BY <1>3, <1>6, <2>1 DEF Relink, Fields
<1>10. m1 \in Links /\ q1 \in Links
  BY <1>4, <1>6, <1>7 DEF Links
<1>11. c \in Links /\ m \in Links /\ q \in Links
  <2> HIDE DEF m1, q1
  <2> QED BY <1>4, <1>6, <1>7, <1>10 DEF Links
<1>12. SameItems(h, g) /\ g.child = c /\ g.next = m /\ g.prev = q
  <2> HIDE DEF c, m, q
  <2> QED BY <1>3, <1>9, <1>11, Relinked
<1>13. /\ c[a] = (IF p = 1 THEN after ELSE s[1]) /\ \A b \in Items : b # a => c[b] = h.child[b]
  BY <1>1, <1>4 DEF Links
<1>14. /\ (p # 1 => m1[before] = after) /\ \A b \in Items : (p # 1 => b # before) => m1[b] = h.next[b]
  BY <1>4, <1>7 DEF Links
<1>15. /\ (p < n => q1[after] = before) /\ (~(p < n) /\ p # 1 => q1[s[1]] = before)
       /\ \A b \in Items : (p < n => b # after) /\ (~(p < n) /\ p # 1 => b # s[1]) => q1[b] = h.prev[b]
  BY <1>4, <1>6, <1>7 DEF Links
<1>16. m[x] = NULL /\ q[x] = NULL /\ \A b \in Items : b # x => m[b] = m1[b] /\ q[b] = q1[b]
  <2> HIDE DEF m1, q1
  <2> QED BY <1>6, <1>10 DEF Links
<1> HIDE DEF c, m, q, m1, q1
<1>17. /\ SameItems(h, g)
       /\ g.child[a] = IF p = 1 THEN IF n > 1 THEN s[2] ELSE NULL ELSE h.child[a]
       /\ \A b \in Items : b # a => g.child[b] = h.child[b]
  BY <1>5, <1>6, <1>12, <1>13 DEF after
<1>18. /\ g.next[x] = NULL
       /\ p > 1 => g.next[s[p - 1]] = IF p < n THEN s[p + 1] ELSE NULL
       /\ \A y \in Items : y # x /\ (p > 1 => y # s[p - 1]) => g.next[y] = h.next[y]
  <2>1. (p > 1 => s[p - 1] = before) /\ after = IF p < n THEN s[p + 1] ELSE NULL
    BY <1>5 DEF before, after
  <2> QED BY <1>5, <1>7, <1>12, <1>14, <1>16, <2>1
<1>19. /\ p < n => g.prev[s[p + 1]] = IF p = 1 THEN s[n] ELSE s[p - 1]
       /\ p = n /\ p > 1 => g.prev[s[1]] = s[p - 1]
       /\ \A y \in Items : y # x /\ (p < n => y # s[p + 1]) /\ (p = n /\ p > 1 => y # s[1])
                             => g.prev[y] = h.prev[y]
  <2>1. before = (IF p = 1 THEN s[n] ELSE s[p - 1]) /\ (p < n => s[p + 1] = after)
    BY DEF before, after
  <2> QED BY <1>5, <1>6, <1>7, <1>12, <1>15, <1>16, <2>1
<1>20. Unspliced(h, g, a, s, p)
  BY <1>17, <1>18, <1>19 DEF Unspliced, x, n
<1> QED BY <1>12, <1>16, <1>20 DEF s, x, g

\* cJSON_ReplaceItemViaPointer puts the new item where the old one has been.
Relinks(h, a, old, x) ==
  [h EXCEPT
     !.child[a] = IF old = h.child[a] THEN x ELSE h.child[a],
     !.next = IF old # h.child[a] THEN [[@ EXCEPT ![x] = h.next[old], ![old] = NULL] EXCEPT ![h.prev[old]] = x]
              ELSE [@ EXCEPT ![x] = h.next[old], ![old] = NULL],
     !.prev = IF h.next[old] # NULL
              THEN [[@ EXCEPT ![x] = IF h.child[a] = old /\ h.prev[old] = old THEN x ELSE h.prev[old], ![old] = NULL]
                      EXCEPT ![h.next[old]] = x]
              ELSE IF old # h.child[a]
              THEN [[@ EXCEPT ![x] = IF h.child[a] = old /\ h.prev[old] = old THEN x ELSE h.prev[old], ![old] = NULL]
                      EXCEPT ![h.child[a]] = x]
              ELSE [@ EXCEPT ![x] = IF h.child[a] = old /\ h.prev[old] = old THEN x ELSE h.prev[old], ![old] = NULL]]

\* Then it is deleted.
LEMMA ReplaceIs ==
  ASSUME NEW h, NEW a, NEW old, NEW x
  PROVE  ReplaceItemViaPointer(h, a, old, x) = Delete(Relinks(h, a, old, x), old)
BY DEF ReplaceItemViaPointer, Relinks

\* That is the same as taking the old one out and putting the new one in.
LEMMA Replaces ==
  ASSUME NEW h, NEW K, NEW R, Forest(h, K, R), NEW a, Holder(h, a), NEW p \in 1..Len(K[a]), NEW x \in R
  PROVE  Spliced(DetachItemViaPointer(h, a, K[a][p]), Relinks(h, a, K[a][p], x), a, Out(K[a], p), p, x)
<1> DEFINE s == K[a]
           n == Len(s)
           t == Out(s, p)
           old == s[p]
           d == DetachItemViaPointer(h, a, old)
           g == Relinks(h, a, old, x)
           before == IF p = 1 THEN s[n] ELSE s[p - 1]
           after == IF p < n THEN s[p + 1] ELSE NULL
<1>1. /\ a \in Items /\ n \in Nat /\ p \in 1..n /\ (\A i \in 1..n : s[i] \in Items /\ s[i] # NULL /\ s[i] # x)
      /\ \A i, j \in 1..n : s[i] = s[j] => i = j
  BY Within
<1>2. /\ h.child[a] = IF n = 0 THEN NULL ELSE s[1]
      /\ \A i \in 1..n : h.next[s[i]] = IF i < n THEN s[i + 1] ELSE NULL
      /\ \A i \in 1..n : h.prev[s[i]] = IF i = 1 THEN s[n] ELSE s[i - 1]
  <2>1. ListOf(h, a, K[a])
    BY Within
  <2> QED BY <2>1 DEF ListOf
<1>3. Fields(h) /\ x \in Items
  BY DEF Forest, Owned, Fields
<1>4. h.child \in Links /\ h.next \in Links /\ h.prev \in Links
  BY <1>3 DEF Fields, Links
<1>20. Unspliced(h, d, a, s, p) /\ d.prev[old] = NULL
  BY Detaches
<1>21. /\ d.live = h.live /\ d.kind = h.kind /\ d.ref = h.ref /\ d.name = h.name
       /\ (p # 1 => d.child[a] = h.child[a])
       /\ (\A b \in Items : b # a => d.child[b] = h.child[b])
       /\ d.next[old] = NULL
       /\ \A y \in Items : y # old /\ (p > 1 => y # s[p - 1]) => d.next[y] = h.next[y]
       /\ \A y \in Items : y # old /\ (p < n => y # s[p + 1]) /\ (p = n /\ p > 1 => y # s[1])
                             => d.prev[y] = h.prev[y]
  BY <1>20 DEF Unspliced, SameItems
<1>22. /\ Len(t) = n - 1
       /\ \A i \in 1..(p - 1) : t[i] = s[i]
       /\ \A i \in p..(n - 1) : t[i] = s[i + 1]
  <2>1. s \in Seq(Items)
    BY Within
  <2> QED BY <2>1, OutIs
<1> HIDE DEF n, s, t, d
<1>5. 1 \in 1..n /\ n \in 1..n /\ n # 0 /\ (p # 1 => p - 1 \in 1..n /\ p - 1 # p) /\ (p < n => p + 1 \in 1..n /\ p + 1 # p)
      /\ (p > 1 <=> p # 1) /\ (p = 1 => (p < n <=> n > 1) /\ p + 1 = 2) /\ (~(p < n) <=> p = n)
      /\ (p <= n - 1 <=> p < n) /\ (p = (n - 1) + 1 <=> p = n) /\ (p = n /\ n - 1 > 0 <=> p = n /\ p > 1)
      /\ (p = 1 => (n - 1 = 0 <=> n = p))
  BY <1>1
<1>6. /\ h.prev[old] = before /\ h.next[old] = after /\ h.child[a] = s[1] /\ (old = s[1] <=> p = 1) /\ old \in Items
      /\ s[1] \in Items /\ s[1] # NULL /\ s[1] # x /\ old # x
  BY <1>1, <1>2, <1>5
<1>7. /\ before \in Items /\ before # x /\ (p # 1 => before # old) /\ (p = 1 => (before = old <=> n = p))
      /\ (p < n => after \in Items /\ after # NULL /\ after # old /\ after # x)
      /\ (~(p < n) => after = NULL)
  BY <1>1, <1>5
<1>23. /\ (p < n => t[p] = after)
       /\ (p # 1 => t[p - 1] = before)
       /\ (p = n /\ p > 1 => t[1] = s[1])
       /\ (p = 1 /\ n # p => t[n - 1] = before)
  <2>1. (p < n => p \in p..(n - 1)) /\ (p # 1 => p - 1 \in 1..(p - 1)) /\ (p = n /\ p > 1 => 1 \in 1..(p - 1))
        /\ (p = 1 /\ n # p => n - 1 \in p..(n - 1) /\ (n - 1) + 1 = n)
    BY <1>1
  <2> QED BY <1>22, <2>1
<1> HIDE DEF old, before, after, g
<1> DEFINE c == [h.child EXCEPT ![a] = IF p = 1 THEN x ELSE s[1]]
           m1 == [h.next EXCEPT ![x] = after, ![old] = NULL]
           m == IF p # 1 THEN [m1 EXCEPT ![before] = x] ELSE m1
           q1 == [h.prev EXCEPT ![x] = IF p = 1 /\ before = old THEN x ELSE before, ![old] = NULL]
           q == IF p < n THEN [q1 EXCEPT ![after] = x] ELSE IF p # 1 THEN [q1 EXCEPT ![s[1]] = x] ELSE q1
<1>9. g = Relink(h, c, m, q)
  <2>1. /\ m = (IF old # s[1] THEN [m1 EXCEPT ![before] = x] ELSE m1)
        /\ q = IF after # NULL THEN [q1 EXCEPT ![after] = x] ELSE IF old # s[1] THEN [q1 EXCEPT ![s[1]] = x] ELSE q1
        /\ c = [h.child EXCEPT ![a] = IF old = s[1] THEN x ELSE s[1]]
        /\ q1 = [h.prev EXCEPT ![x] = IF s[1] = old /\ before = old THEN x ELSE before, ![old] = NULL]
    <3> HIDE DEF m1
    <3> QED BY <1>6, <1>7
  <2> HIDE DEF m, q, c, q1
  <2>2. g = [h EXCEPT !.child = c, !.next = m, !.prev = q]
    <3>1. g = [h EXCEPT !.child[a] = IF old = s[1] THEN x ELSE s[1],
                        !.next = IF old # s[1] THEN [m1 EXCEPT ![before] = x] ELSE m1,
                        !.prev = IF after # NULL THEN [q1 EXCEPT ![after] = x]
                                 ELSE IF old # s[1] THEN [q1 EXCEPT ![s[1]] = x] ELSE q1]
      BY <1>6, <2>1 DEF Relinks, g
    <3> HIDE DEF m1
    <3> QED BY <1>3, <2>1, <3>1 DEF Fields
  <2> QED BY <2>2 DEF Relink
<1>10. m1 \in Links /\ q1 \in Links
  BY <1>3, <1>4, <1>6, <1>7 DEF Links
<1>11. c \in Links /\ m \in Links /\ q \in Links
  <2> HIDE DEF m1, q1
  <2> QED BY <1>3, <1>4, <1>6, <1>7, <1>10 DEF Links
<1>12. SameItems(h, g) /\ g.child = c /\ g.next = m /\ g.prev = q
  <2> HIDE DEF c, m, q
  <2> QED BY <1>3, <1>9, <1>11, Relinked
<1>13. /\ c[a] = (IF p = 1 THEN x ELSE s[1]) /\ \A b \in Items : b # a => c[b] = h.child[b]
  BY <1>1, <1>4 DEF Links
<1>14. m1[x] = after /\ m1[old] = NULL /\ \A b \in Items : b # x /\ b # old => m1[b] = h.next[b]
  BY <1>3, <1>4, <1>6 DEF Links
<1>15. q1[x] = (IF p = 1 /\ before = old THEN x ELSE before) /\ q1[old] = NULL
       /\ \A b \in Items : b # x /\ b # old => q1[b] = h.prev[b]
  BY <1>3, <1>4, <1>6 DEF Links
<1>16. /\ (p # 1 => m[before] = x) /\ \A b \in Items : (p # 1 => b # before) => m[b] = m1[b]
       /\ (p < n => q[after] = x) /\ (~(p < n) /\ p # 1 => q[s[1]] = x)
       /\ \A b \in Items : (p < n => b # after) /\ (~(p < n) /\ p # 1 => b # s[1]) => q[b] = q1[b]
  <2> HIDE DEF m1, q1
  <2> QED BY <1>6, <1>7, <1>10 DEF Links
<1> HIDE DEF c, m, q, m1, q1
<1>17. /\ SameItems(d, g)
       /\ g.child[a] = IF p = 1 THEN x ELSE d.child[a]
       /\ \A b \in Items : b # a => g.child[b] = d.child[b]
  <2>1. SameItems(d, g)
    BY <1>12, <1>21 DEF SameItems
  <2> QED BY <1>6, <1>12, <1>13, <1>21, <2>1
<1>18. /\ g.next[x] = IF p <= n - 1 THEN t[p] ELSE NULL
       /\ p > 1 => g.next[t[p - 1]] = x
       /\ \A y \in Items : y # x /\ (p > 1 => y # t[p - 1]) => g.next[y] = d.next[y]
  <2>1. g.next[x] = after
    BY <1>3, <1>7, <1>12, <1>14, <1>16
  <2>2. p # 1 => g.next[before] = x
    BY <1>12, <1>16
  <2>3. \A y \in Items : y # x /\ (p # 1 => y # before) => g.next[y] = d.next[y]
    <3>1. p # 1 => s[p - 1] = before
      BY DEF before
    <3> QED BY <1>5, <1>12, <1>14, <1>16, <1>21, <3>1
  <2> QED BY <1>5, <1>7, <1>23, <2>1, <2>2, <2>3
<1>19. /\ g.prev[x] = IF p > 1 THEN t[p - 1] ELSE IF n - 1 = 0 THEN x ELSE t[n - 1]
       /\ p <= n - 1 => g.prev[t[p]] = x
       /\ p = (n - 1) + 1 /\ n - 1 > 0 => g.prev[t[1]] = x
       /\ \A y \in Items : y # x /\ (p <= n - 1 => y # t[p]) /\ (p = (n - 1) + 1 /\ n - 1 > 0 => y # t[1])
                             => g.prev[y] = d.prev[y]
  <2>1. g.prev[x] = IF p = 1 /\ n = p THEN x ELSE before
    BY <1>3, <1>6, <1>7, <1>12, <1>15, <1>16
  <2>2. (p < n => g.prev[after] = x) /\ (p = n /\ p # 1 => g.prev[s[1]] = x)
    BY <1>5, <1>12, <1>16
  <2>3. \A y \in Items : y # x /\ (p < n => y # after) /\ (p = n /\ p # 1 => y # s[1]) => g.prev[y] = d.prev[y]
    <3>1. p < n => s[p + 1] = after
      BY DEF after
    <3>2. d.prev[old] = NULL
      BY <1>20
    <3> QED BY <1>5, <1>12, <1>15, <1>16, <1>21, <3>1, <3>2
  <2>4. g.prev[x] = IF p > 1 THEN t[p - 1] ELSE IF n - 1 = 0 THEN x ELSE t[n - 1]
    BY <1>5, <1>23, <2>1
  <2>5. (p <= n - 1 => g.prev[t[p]] = x) /\ (p = (n - 1) + 1 /\ n - 1 > 0 => g.prev[t[1]] = x)
    BY <1>5, <1>23, <2>2
  <2>6. \A y \in Items : y # x /\ (p <= n - 1 => y # t[p]) /\ (p = (n - 1) + 1 /\ n - 1 > 0 => y # t[1])
                             => g.prev[y] = d.prev[y]
    BY <1>5, <1>23, <2>3
  <2> QED BY <2>4, <2>5, <2>6
<1>24. Spliced(d, g, a, t, p, x)
  BY <1>17, <1>18, <1>19, <1>22 DEF Spliced
<1> QED BY <1>24 DEF s, t, old, d, g

Cleared(K, S) == [b \in Items |-> IF b \in S THEN << >> ELSE K[b]]

\* What cJSON_Delete frees of a root: the root and what is below it.
LEMMA Freed ==
  ASSUME NEW h, NEW K, NEW R, Forest(h, K, R), NEW x \in R
  PROVE  /\ x \in Items /\ x \in Chain(h, x) /\ Chain(h, x) \subseteq h.live /\ Chain(h, x) \intersect R = {x}
         /\ Downward(K, Chain(h, x))
         /\ \A b \in Items \ Chain(h, x) : \A y : In(K, b, y) => y \notin Chain(h, x)
<1> DEFINE C == Chain(h, x)
<1>1. Apart(K) /\ Owned(h, K, R) /\ Loose(h, R) /\ h.live \subseteq Items
  BY DEF Forest, Fields
<1>2. x \in Items /\ x \in h.live /\ h.next[x] = NULL
  BY <1>1 DEF Owned, Loose
<1>3. /\ x \in C /\ C \subseteq Items /\ Downward(K, C)
      /\ \A y \in C : y = x \/ \E b \in C : In(K, b, y)
  BY <1>2, BelowRoot
<1> HIDE DEF C
<1>4. \A y \in C : y # x => y \in h.live \ R
  <2> SUFFICES ASSUME NEW y \in C, y # x PROVE y \in h.live \ R
    OBVIOUS
  <2>1. \E b \in Items : In(K, b, y)
    BY <1>3
  <2> QED BY <1>1, <1>3, <2>1 DEF Owned
<1>5. ASSUME NEW b \in Items \ C, NEW y, In(K, b, y) PROVE y \notin C
  <2> SUFFICES ASSUME y \in C PROVE FALSE
    OBVIOUS
  <2>1. y # x
    BY <1>1, <1>2, <1>5 DEF Owned
  <2>2. PICK c \in C : In(K, c, y)
    BY <1>3, <2>1
  <2>3. PICK i \in 1..Len(K[b]) : K[b][i] = y
    BY <1>5 DEF In
  <2>4. PICK j \in 1..Len(K[c]) : K[c][j] = y
    BY <2>2 DEF In
  <2>5. b \in Items /\ c \in Items /\ K[b][i] = K[c][j]
    BY <1>3, <2>3, <2>4
  <2>6. b = c
    BY <1>1, <2>5 DEF Apart
  <2> QED BY <2>6
<1> QED BY <1>2, <1>3, <1>4, <1>5 DEF C

\* g is h without the items of S.
Erased(h, g, S) ==
  /\ Fields(g) /\ g.live = h.live \ S
  /\ \A b \in Items : b \notin S =>
       /\ g.kind[b] = h.kind[b] /\ g.ref[b] = h.ref[b] /\ g.name[b] = h.name[b]
       /\ g.next[b] = h.next[b] /\ g.prev[b] = h.prev[b] /\ g.child[b] = h.child[b]
  /\ \A b \in Items : b \in S => g.ref[b] = FALSE /\ g.next[b] = NULL /\ g.child[b] = NULL

\* So it is after Erase.
LEMMA Erases ==
  ASSUME NEW h, Fields(h), NEW S
  PROVE  Erased(h, Erase(h, S), S)
<1>1. /\ h.live \in SUBSET Items /\ h.kind \in [Items -> Kind] /\ h.ref \in [Items -> BOOLEAN]
      /\ h.name \in [Items -> Names \union {NoName}] /\ h.next \in [Items -> Items \union {NULL}]
      /\ h.prev \in [Items -> Items \union {NULL}] /\ h.child \in [Items -> Items \union {NULL}]
  BY DEF Fields
<1>2. Fields(Erase(h, S))
  <2>1. h.live \ S \in SUBSET Items
    BY <1>1
  <2>2. [x \in Items |-> IF x \in S THEN "value" ELSE h.kind[x]] \in [Items -> Kind]
    BY <1>1 DEF Kind
  <2>3. [x \in Items |-> x \notin S /\ h.ref[x]] \in [Items -> BOOLEAN]
    BY <1>1
  <2>4. [x \in Items |-> IF x \in S THEN NoName ELSE h.name[x]] \in [Items -> Names \union {NoName}]
    BY <1>1
  <2>5. /\ [x \in Items |-> IF x \in S THEN NULL ELSE h.next[x]] \in [Items -> Items \union {NULL}]
        /\ [x \in Items |-> IF x \in S THEN NULL ELSE h.prev[x]] \in [Items -> Items \union {NULL}]
        /\ [x \in Items |-> IF x \in S THEN NULL ELSE h.child[x]] \in [Items -> Items \union {NULL}]
    BY <1>1
  <2> QED BY <2>1, <2>2, <2>3, <2>4, <2>5 DEF Fields, Erase
<1>3. /\ Erase(h, S).live = h.live \ S
      /\ \A b \in Items : b \notin S =>
           /\ Erase(h, S).kind[b] = h.kind[b] /\ Erase(h, S).name[b] = h.name[b]
           /\ Erase(h, S).next[b] = h.next[b] /\ Erase(h, S).prev[b] = h.prev[b]
           /\ Erase(h, S).child[b] = h.child[b]
      /\ \A b \in Items : b \in S => Erase(h, S).next[b] = NULL /\ Erase(h, S).child[b] = NULL
  BY DEF Erase
<1>4. \A b \in Items : Erase(h, S).ref[b] = (b \notin S /\ h.ref[b])
  BY DEF Erase
<1>5. \A b \in Items : (b \notin S => Erase(h, S).ref[b] = h.ref[b]) /\ (b \in S => Erase(h, S).ref[b] = FALSE)
  BY <1>1, <1>4
<1> QED BY <1>2, <1>3, <1>5 DEF Erased

\* cJSON_Delete takes a root and what is below it, and nothing else.
LEMMA Deletes ==
  ASSUME NEW h, NEW K, NEW R, Forest(h, K, R), NEW x \in R
  PROVE  Forest(Delete(h, x), Cleared(K, Chain(h, x)), R \ {x})
<1> DEFINE C == Chain(h, x)
           L == Cleared(K, C)
           g == Delete(h, x)
<1>1. /\ Lists(K) /\ Apart(K) /\ Grounded(K) /\ Owned(h, K, R) /\ Loose(h, R) /\ Listed(h, K) /\ Fields(h)
      /\ h.live \subseteq Items
  BY DEF Forest, Fields
<1>2. /\ x \in Items /\ x \in C /\ C \subseteq h.live /\ C \intersect R = {x} /\ Downward(K, C)
      /\ \A b \in Items \ C : \A y : In(K, b, y) => y \notin C
  BY Freed
<1>3. /\ Fields(g) /\ g.live = h.live \ C
      /\ \A b \in Items : b \notin C =>
           /\ g.kind[b] = h.kind[b] /\ g.ref[b] = h.ref[b]
           /\ g.next[b] = h.next[b] /\ g.prev[b] = h.prev[b] /\ g.child[b] = h.child[b]
      /\ \A b \in Items : b \in C => g.ref[b] = FALSE /\ g.next[b] = NULL /\ g.child[b] = NULL
  <2>1. g = Erase(h, C)
    BY DEF Delete
  <2> HIDE DEF C, g
  <2>2. Erased(h, Erase(h, C), C)
    BY <1>1, Erases
  <2> QED BY <2>1, <2>2 DEF Erased
<1>4. \A b \in Items : L[b] = IF b \in C THEN << >> ELSE K[b]
  BY DEF Cleared
<1>5. Lists(L)
  <2>1. << >> \in Seq(Items)
    OBVIOUS
  <2> QED BY <1>1, <2>1 DEF Lists, Cleared
<1> HIDE DEF L, C, g
<1>6. \A b \in Items : \A y : In(L, b, y) <=> b \notin C /\ In(K, b, y)
  <2> SUFFICES ASSUME NEW b \in Items PROVE \A y : In(L, b, y) <=> b \notin C /\ In(K, b, y)
    OBVIOUS
  <2>1. CASE b \in C
    <3>1. L[b] = << >>
      BY <1>4, <2>1
    <3>2. 1..Len(L[b]) = {}
      BY <3>1
    <3> QED BY <2>1, <3>2 DEF In
  <2>2. CASE b \notin C
    BY <1>4, <2>2 DEF In
  <2> QED BY <2>1, <2>2
<1>7. Apart(L)
  <2> SUFFICES ASSUME NEW b \in Items, NEW c \in Items, NEW i \in 1..Len(L[b]), NEW j \in 1..Len(L[c]), L[b][i] = L[c][j]
               PROVE  b = c /\ i = j
    BY DEF Apart
  <2>1. In(L, b, L[b][i]) /\ In(L, c, L[c][j])
    BY DEF In
  <2>2. L[b] = K[b] /\ L[c] = K[c]
    BY <1>4, <1>6, <2>1
  <2> QED BY <1>1, <2>2 DEF Apart
<1>8. Grounded(L)
  <2>1. \A b, y \in Items : In(L, b, y) => In(K, b, y)
    BY <1>6
  <2> QED BY <1>1, <2>1, LessGrounded
<1>9. Listed(g, L)
  <2> SUFFICES ASSUME NEW b \in Items
               PROVE  IF Holder(g, b) THEN ListOf(g, b, L[b])
                      ELSE Len(L[b]) = 0 /\ (g.ref[b] \/ g.child[b] = NULL)
    BY DEF Listed
  <2>1. CASE b \in C
    <3>1. ~Holder(g, b)
      BY <1>3, <2>1 DEF Holder
    <3>2. Len(L[b]) = 0
      BY <1>4, <2>1
    <3> QED BY <1>3, <2>1, <3>1, <3>2
  <2>2. CASE b \notin C
    <3>1. Holder(g, b) <=> Holder(h, b)
      BY <1>3, <2>2 DEF Holder
    <3>2. L[b] = K[b]
      BY <1>4, <2>2
    <3>3. CASE ~Holder(h, b)
      BY <1>1, <1>3, <2>2, <3>1, <3>2, <3>3 DEF Listed
    <3>4. CASE Holder(h, b)
      <4>1. ListOf(h, b, K[b])
        BY <1>1, <3>4 DEF Listed
      <4>2. ASSUME NEW i \in 1..Len(K[b])
            PROVE  g.next[K[b][i]] = h.next[K[b][i]] /\ g.prev[K[b][i]] = h.prev[K[b][i]]
        <5>1. K[b][i] \in Items /\ In(K, b, K[b][i])
          BY OneList
        <5>2. K[b][i] \notin C
          BY <1>2, <2>2, <5>1
        <5> QED BY <1>3, <5>1, <5>2
      <4>3. ListOf(g, b, K[b])
        BY <1>3, <2>2, <4>1, <4>2, OtherList
      <4> QED BY <3>1, <3>2, <3>4, <4>3
    <3> QED BY <3>3, <3>4
  <2> QED BY <2>1, <2>2
<1>10. Owned(g, L, R \ {x})
  <2>1. R \ {x} \subseteq g.live
    BY <1>1, <1>2, <1>3 DEF Owned
  <2>2. ASSUME NEW y \in Items PROVE (\E b \in Items : In(L, b, y)) <=> y \in g.live \ (R \ {x})
    <3>1. (\E b \in Items : In(K, b, y)) <=> y \in h.live \ R
      BY <1>1 DEF Owned
    <3>2. (\E b \in Items : In(L, b, y)) <=> (\E b \in Items : In(K, b, y)) /\ y \notin C
      BY <1>2, <1>6 DEF Downward
    <3> QED BY <1>2, <1>3, <3>1, <3>2
  <2> QED BY <2>1, <2>2 DEF Owned
<1>11. Loose(g, R \ {x})
  <2> SUFFICES ASSUME NEW y \in Items
               PROVE  (y \in R \ {x} => g.next[y] = NULL) /\ (y \notin g.live => g.next[y] = NULL /\ ~g.ref[y])
    BY DEF Loose
  <2>1. CASE y \in C
    BY <1>3, <2>1
  <2>2. CASE y \notin C
    BY <1>1, <1>3, <2>2 DEF Loose
  <2> QED BY <2>1, <2>2
<1> QED BY <1>3, <1>5, <1>7, <1>8, <1>9, <1>10, <1>11 DEF Forest, L, g, C

\* g is h and an item more, which is in no list.
Newly(h, g, r) ==
  /\ Fields(g) /\ r \in Items \ h.live /\ g.live = h.live \union {r}
  /\ \A b \in Items : b # r =>
       /\ g.kind[b] = h.kind[b] /\ g.ref[b] = h.ref[b] /\ g.name[b] = h.name[b]
       /\ g.next[b] = h.next[b] /\ g.prev[b] = h.prev[b] /\ g.child[b] = h.child[b]
  /\ g.next[r] = NULL /\ (g.ref[r] \/ g.child[r] = NULL)

\* It is one more root, and nothing is below it.
LEMMA Comes ==
  ASSUME NEW h, NEW K, NEW R, Forest(h, K, R), NEW g, NEW r, Newly(h, g, r)
  PROVE  Forest(g, K, R \union {r}) /\ Downward(K, {r}) /\ Len(K[r]) = 0
<1>1. /\ Lists(K) /\ Apart(K) /\ Grounded(K) /\ Owned(h, K, R) /\ Loose(h, R) /\ Listed(h, K)
      /\ h.live \subseteq Items
  BY DEF Forest, Fields
<1>2. /\ Fields(g) /\ r \in Items /\ r \notin h.live /\ g.live = h.live \union {r}
      /\ \A b \in Items : b # r =>
           /\ g.kind[b] = h.kind[b] /\ g.ref[b] = h.ref[b] /\ g.name[b] = h.name[b]
           /\ g.next[b] = h.next[b] /\ g.prev[b] = h.prev[b] /\ g.child[b] = h.child[b]
      /\ g.next[r] = NULL /\ (g.ref[r] \/ g.child[r] = NULL)
  BY DEF Newly
<1>3. Len(K[r]) = 0
  BY <1>1, <1>2 DEF Listed, Holder
<1>4. Downward(K, {r})
  <2>1. 1..Len(K[r]) = {}
    BY <1>3
  <2> QED BY <2>1 DEF Downward, In
<1>5. Listed(g, K)
  <2> SUFFICES ASSUME NEW b \in Items
               PROVE  IF Holder(g, b) THEN ListOf(g, b, K[b])
                      ELSE Len(K[b]) = 0 /\ (g.ref[b] \/ g.child[b] = NULL)
    BY DEF Listed
  <2>1. CASE b = r
    <3>1. ~g.ref[r] => g.child[r] = NULL
      BY <1>2
    <3>2. 1..Len(K[r]) = {}
      BY <1>3
    <3> QED BY <1>3, <2>1, <3>1, <3>2 DEF ListOf, Holder
  <2>2. CASE b # r
    <3>1. Holder(g, b) <=> Holder(h, b)
      BY <1>2, <2>2 DEF Holder
    <3>2. CASE ~Holder(h, b)
      BY <1>1, <1>2, <2>2, <3>1, <3>2 DEF Listed
    <3>3. CASE Holder(h, b)
      <4>1. ListOf(h, b, K[b])
        BY <1>1, <3>3 DEF Listed
      <4>2. ASSUME NEW i \in 1..Len(K[b])
            PROVE  g.next[K[b][i]] = h.next[K[b][i]] /\ g.prev[K[b][i]] = h.prev[K[b][i]]
        <5>1. K[b][i] \in Items /\ K[b][i] \in h.live
          BY OneList
        <5> QED BY <1>2, <5>1
      <4>3. ListOf(g, b, K[b])
        BY <1>2, <2>2, <4>1, <4>2, OtherList
      <4> QED BY <3>1, <3>3, <4>3
    <3> QED BY <3>2, <3>3
  <2> QED BY <2>1, <2>2
<1>6. Owned(g, K, R \union {r})
  BY <1>1, <1>2 DEF Owned
<1>7. Loose(g, R \union {r})
  <2> SUFFICES ASSUME NEW y \in Items
               PROVE  (y \in R \union {r} => g.next[y] = NULL) /\ (y \notin g.live => g.next[y] = NULL /\ ~g.ref[y])
    BY DEF Loose
  <2>1. CASE y = r
    BY <1>2, <2>1
  <2>2. CASE y # r
    BY <1>1, <1>2, <2>2 DEF Loose
  <2> QED BY <2>1, <2>2
<1> QED BY <1>1, <1>2, <1>3, <1>4, <1>5, <1>6, <1>7 DEF Forest

\* cJSON_New_Item.
LEMMA NewIs ==
  ASSUME NEW h, NEW K, NEW R, Forest(h, K, R), Free(h) # {}, NEW k \in Kind
  PROVE  /\ Newly(h, NewItem(h, k), Fresh(h))
         /\ NewItem(h, k).kind[Fresh(h)] = k /\ ~NewItem(h, k).ref[Fresh(h)]
<1> DEFINE r == Fresh(h)
           g == NewItem(h, k)
<1>1. Fields(h) /\ Loose(h, R) /\ Listed(h, K) /\ h.live \subseteq Items
  BY DEF Forest, Fields
<1>2. r \in Items /\ r \notin h.live
  BY DEF Fresh, Free
<1>3. h.next[r] = NULL /\ ~h.ref[r] /\ h.child[r] = NULL
  BY <1>1, <1>2 DEF Loose, Listed, Holder
<1> HIDE DEF r
<1>4. g = [h EXCEPT !.live = h.live \union {r}, !.kind = [h.kind EXCEPT ![r] = k]]
  BY <1>1 DEF NewItem, Fields, r
<1>5. Fields(g) /\ g.live = h.live \union {r} /\ g.kind = [h.kind EXCEPT ![r] = k] /\ g.ref = h.ref /\ g.name = h.name
      /\ g.next = h.next /\ g.prev = h.prev /\ g.child = h.child
  <2> HIDE DEF g
  <2>1. h.kind \in [Items -> Kind] /\ [h.kind EXCEPT ![r] = k] \in [Items -> Kind] /\ h.live \union {r} \in SUBSET Items
    BY <1>1, <1>2 DEF Fields
  <2> QED BY <1>1, <1>4, <2>1 DEF Fields
<1> HIDE DEF g
<1>6. h.kind \in [Items -> Kind]
  BY <1>1 DEF Fields
<1>7. g.kind[r] = k /\ \A b \in Items : b # r => g.kind[b] = h.kind[b]
  BY <1>2, <1>5, <1>6
<1> QED BY <1>2, <1>3, <1>5, <1>7 DEF Newly, r, g

\* create_reference.
LEMMA ReferenceIs ==
  ASSUME NEW h, NEW K, NEW R, Forest(h, K, R), Free(h) # {}, NEW x \in Items
  PROVE  Newly(h, CreateReference(h, x), Fresh(h)) /\ CreateReference(h, x).ref[Fresh(h)]
<1> DEFINE r == Fresh(h)
           k == h.kind[x]
           f == NewItem(h, k)
           g == CreateReference(h, x)
<1>1. Fields(h) /\ k \in Kind
  BY DEF Forest, Fields
<1>2. Newly(h, f, r) /\ f.kind[r] = k
  BY <1>1, NewIs
<1>3. g = [f EXCEPT !.ref[r] = TRUE, !.child[r] = h.child[x]]
  BY DEF CreateReference
<1> HIDE DEF r, k, f, g
<1>4. /\ Fields(f) /\ r \in Items /\ r \notin h.live /\ f.live = h.live \union {r}
      /\ \A b \in Items : b # r =>
           /\ f.kind[b] = h.kind[b] /\ f.ref[b] = h.ref[b] /\ f.name[b] = h.name[b]
           /\ f.next[b] = h.next[b] /\ f.prev[b] = h.prev[b] /\ f.child[b] = h.child[b]
      /\ f.next[r] = NULL
  BY <1>2 DEF Newly
<1> DEFINE rr == [f.ref EXCEPT ![r] = TRUE]
           cc == [f.child EXCEPT ![r] = h.child[x]]
<1>5. f.ref \in [Items -> BOOLEAN] /\ f.child \in [Items -> Items \union {NULL}] /\ h.child[x] \in Items \union {NULL}
  BY <1>1, <1>4 DEF Fields
<1>6. /\ rr \in [Items -> BOOLEAN] /\ rr[r] /\ (\A b \in Items : b # r => rr[b] = f.ref[b])
      /\ cc \in [Items -> Items \union {NULL}] /\ \A b \in Items : b # r => cc[b] = f.child[b]
  BY <1>4, <1>5
<1>7. g = [f EXCEPT !.ref = rr, !.child = cc]
  BY <1>3, <1>4 DEF Fields
<1> HIDE DEF rr, cc
<1>8. Fields(g) /\ g.live = f.live /\ g.kind = f.kind /\ g.name = f.name /\ g.next = f.next /\ g.prev = f.prev
      /\ g.ref = rr /\ g.child = cc
  BY <1>4, <1>6, <1>7 DEF Fields
<1>9. Newly(h, g, r)
  BY <1>4, <1>6, <1>8 DEF Newly
<1> QED BY <1>6, <1>8, <1>9 DEF g, r

\* g is h with a name for x.
Renamed(h, g, x, n) ==
  /\ g.live = h.live /\ g.kind = h.kind /\ g.ref = h.ref
  /\ g.name[x] = n /\ \A b \in Items : b # x => g.name[b] = h.name[b]

\* Names make no difference to the forest.
LEMMA Renames ==
  ASSUME NEW h, NEW K, NEW R, Forest(h, K, R), NEW x \in Items, NEW n \in Names \union {NoName},
         NEW g, g = [h EXCEPT !.name[x] = n]
  PROVE  Forest(g, K, R) /\ Renamed(h, g, x, n)
<1>1. Fields(h)
  BY DEF Forest
<1>2. h.name \in [Items -> Names \union {NoName}]
  BY <1>1 DEF Fields
<1> DEFINE nn == [h.name EXCEPT ![x] = n]
<1>3. nn \in [Items -> Names \union {NoName}] /\ nn[x] = n /\ \A b \in Items : b # x => nn[b] = h.name[b]
  BY <1>2
<1>4. g = [h EXCEPT !.name = nn]
  BY <1>1 DEF Fields
<1> HIDE DEF nn
<1>5. Fields(g) /\ g.name = nn /\ g.live = h.live /\ g.kind = h.kind /\ g.ref = h.ref /\ g.next = h.next /\ g.prev = h.prev
      /\ g.child = h.child
  BY <1>1, <1>3, <1>4 DEF Fields
<1>6. /\ Lists(K) /\ Apart(K) /\ Grounded(K) /\ Owned(h, K, R) /\ Loose(h, R) /\ Listed(h, K)
  BY DEF Forest
<1>7. Owned(g, K, R) /\ Loose(g, R)
  BY <1>5, <1>6 DEF Owned, Loose
<1>8. Listed(g, K)
  BY <1>5, <1>6 DEF Listed, Holder, ListOf
<1> QED BY <1>3, <1>5, <1>6, <1>7, <1>8 DEF Forest, Renamed

------------------------------------------------------------------------------
(* The search by name.                                                     *)

\* It finds a member, or a member without a name stands before all that have it.
LEMMA SearchIs ==
  ASSUME NEW h, NEW o, NEW n, NEW s \in Seq(Items), Kids(h, o) = s
  PROVE  \/ \E i \in 1..Len(s) : GetObjectItem(h, o, n) = s[i]
         \/ /\ GetObjectItem(h, o, n) = NULL
            /\ \A i \in 1..Len(s) : h.name[s[i]] = n => \E j \in 1..i : h.name[s[j]] = NoName
<1> DEFINE l == Len(s)
           J == {i \in 1..l : h.name[s[i]] \in {n, NoName}}
           m == Min(J)
           stop == IF J # {} THEN m ELSE 0
<1>1. l \in Nat
  BY LenProperties
<1>2. SelectInSeq(s, LAMBDA x : h.name[x] \in {n, NoName}) = stop
  BY DEF SelectInSeq
<1>3. GetObjectItem(h, o, n) = IF stop = 0 \/ h.name[s[stop]] = NoName THEN NULL ELSE s[stop]
  BY <1>2 DEF GetObjectItem
<1>4. J \subseteq Nat /\ \A i \in J : i \in 1..l /\ i # 0
  BY <1>1
<1>5. ASSUME J # {} PROVE m \in J /\ \A i \in J : m <= i
  <2>1. \E i \in J : \A j \in J : i <= j
    BY <1>4, <1>5, Least
  <2> HIDE DEF J
  <2> QED BY <2>1 DEF Min
<1> HIDE DEF l, m
<1>6. CASE J = {}
  <2>1. GetObjectItem(h, o, n) = NULL
    BY <1>3, <1>6
  <2>2. \A i \in 1..l : h.name[s[i]] # n
    BY <1>6
  <2> QED BY <2>1, <2>2 DEF l
<1>7. CASE J # {}
  <2>1. stop = m /\ m \in 1..l /\ m # 0 /\ \A i \in J : m <= i
    BY <1>4, <1>5, <1>7
  <2>2. CASE h.name[s[m]] # NoName
    <3>1. GetObjectItem(h, o, n) = s[m]
      BY <1>3, <2>1, <2>2
    <3> QED BY <2>1, <3>1 DEF l
  <2>3. CASE h.name[s[m]] = NoName
    <3>1. GetObjectItem(h, o, n) = NULL
      BY <1>3, <2>1, <2>3
    <3>2. ASSUME NEW i \in 1..l, h.name[s[i]] = n PROVE \E j \in 1..i : h.name[s[j]] = NoName
      <4>1. i \in J
        BY <3>2
      <4>2. m \in 1..i
        BY <1>1, <2>1, <4>1
      <4> QED BY <2>3, <4>2
    <3> QED BY <3>1, <3>2 DEF l
  <2> QED BY <2>2, <2>3
<1> QED BY <1>6, <1>7

\* Members of an object without a name are in N.
Named(h, K, N) ==
  \A o \in Items : \A y : Holder(h, o) /\ h.kind[o] = "object" /\ In(K, o, y) => h.name[y] # NoName \/ y \in N

State(h, K, R, N) == Forest(h, K, R) /\ Named(h, K, N)

\* Nothing below x is a.
Below(K, a, x) == \E C : x \in C /\ a \notin C /\ Downward(K, C)

\* x may be hung into a.
Fits(h, K, R, N, a, x) ==
  /\ Holder(h, a) /\ x \in R /\ (h.kind[a] = "object" => h.name[x] # NoName \/ x \in N)
  /\ Below(K, a, x)

\* What a call does not touch.
Alike(h, g) == g.live = h.live /\ g.kind = h.kind /\ g.ref = h.ref /\ g.name = h.name

Kept(h, g) == g.live = h.live /\ g.ref = h.ref
RefsKept(h, g, S) == \A b \in S : g.ref[b] = h.ref[b]

\* An item comes in.
LEMMA StatePut ==
  ASSUME NEW h, NEW K, NEW R, NEW N, State(h, K, R, N), NEW a, NEW x, Fits(h, K, R, N, a, x),
         NEW p \in 1..(Len(K[a]) + 1), NEW g, Spliced(h, g, a, K[a], p, x)
  PROVE  State(g, With(K, a, p, x), R \ {x}, N) /\ Alike(h, g)
<1> DEFINE L == With(K, a, p, x)
<1>1. Forest(h, K, R) /\ Named(h, K, N)
  BY DEF State
<1>2. PICK C : x \in C /\ a \notin C /\ Downward(K, C)
  BY DEF Fits, Below
<1>3. Holder(h, a) /\ x \in R /\ (h.kind[a] = "object" => h.name[x] # NoName \/ x \in N)
  BY DEF Fits
<1>4. Forest(g, L, R \ {x})
  BY <1>1, <1>2, <1>3, Hangs
<1>5. Alike(h, g)
  BY DEF Spliced, SameItems, Alike
<1>6. Hung(K, L, a, x)
  <2>1. Lists(K) /\ Apart(K) /\ a \in Items /\ x \in Items /\ Nowhere(K, x)
    BY <1>1, <1>3 DEF Forest, Owned, Holder, Fields, Nowhere
  <2> QED BY <2>1, PutIn
<1> HIDE DEF L
<1>7. Named(g, L, N)
  BY <1>1, <1>3, <1>5, <1>6 DEF Named, Hung, Alike, Holder
<1> QED BY <1>4, <1>5, <1>7 DEF State, L

\* An item goes out.
LEMMA StateOut ==
  ASSUME NEW h, NEW K, NEW R, NEW N, State(h, K, R, N), NEW a, Holder(h, a),
         NEW p \in 1..Len(K[a]), NEW g, Unspliced(h, g, a, K[a], p)
  PROVE  State(g, Without(K, a, p), R \union {K[a][p]}, N) /\ Alike(h, g) /\ Gone(K, Without(K, a, p), K[a][p])
<1> DEFINE L == Without(K, a, p)
           x == K[a][p]
<1>1. Forest(h, K, R) /\ Named(h, K, N)
  BY DEF State
<1>2. Forest(g, L, R \union {x})
  BY <1>1, Unhangs
<1>3. Alike(h, g)
  BY DEF Unspliced, SameItems, Alike
<1>4. Gone(K, L, x)
  <2>1. Lists(K) /\ Apart(K) /\ a \in Items
    BY <1>1 DEF Forest, Holder, Fields
  <2> QED BY <2>1, OutIn
<1> HIDE DEF L, x
<1>5. Named(g, L, N)
  BY <1>1, <1>3, <1>4 DEF Named, Gone, Alike, Holder
<1> QED BY <1>2, <1>3, <1>4, <1>5 DEF State, L, x

\* A root is deleted.
LEMMA StateDelete ==
  ASSUME NEW h, NEW K, NEW R, NEW N, State(h, K, R, N), NEW x \in R
  PROVE  /\ State(Delete(h, x), Cleared(K, Chain(h, x)), R \ {x}, N)
         /\ Erased(h, Delete(h, x), Chain(h, x)) /\ Chain(h, x) \intersect R = {x}
<1> DEFINE C == Chain(h, x)
           L == Cleared(K, C)
           g == Delete(h, x)
<1>1. Forest(h, K, R) /\ Named(h, K, N) /\ Fields(h)
  BY DEF State, Forest
<1>2. Forest(g, L, R \ {x})
  BY <1>1, Deletes
<1>3. Erased(h, g, C)
  BY <1>1, Erases DEF Delete
<1>4. C \intersect R = {x} /\ \A b \in Items \ C : \A y : In(K, b, y) => y \notin C
  BY <1>1, Freed
<1>5. \A b \in Items : L[b] = IF b \in C THEN << >> ELSE K[b]
  BY DEF Cleared
<1>6. \A b \in Items : \A y : In(L, b, y) => y \in Items
  BY <1>2, EachList DEF Forest, In
<1> HIDE DEF C, L, g
<1>7. Named(g, L, N)
  <2> SUFFICES ASSUME NEW o \in Items, NEW y, Holder(g, o), g.kind[o] = "object", In(L, o, y)
               PROVE  g.name[y] # NoName \/ y \in N
    BY DEF Named
  <2>1. g.live = h.live \ C
    BY <1>3 DEF Erased
  <2>2. o \notin C
    BY <2>1 DEF Holder
  <2>3. L[o] = K[o] /\ In(K, o, y)
    BY <1>5, <2>2 DEF In
  <2>4. y \notin C /\ y \in Items
    BY <1>4, <1>6, <2>2, <2>3
  <2>5. g.name[y] = h.name[y] /\ Holder(h, o) /\ h.kind[o] = "object"
    BY <1>3, <2>1, <2>2, <2>4 DEF Erased, Holder
  <2> QED BY <1>1, <2>3, <2>5 DEF Named
<1> QED BY <1>2, <1>3, <1>4, <1>7 DEF State, C, L, g

\* A new item comes.
LEMMA StateNew ==
  ASSUME NEW h, NEW K, NEW R, NEW N, State(h, K, R, N), NEW g, NEW r, Newly(h, g, r)
  PROVE  State(g, K, R \union {r}, N) /\ Downward(K, {r}) /\ Len(K[r]) = 0
<1>1. Forest(h, K, R) /\ Named(h, K, N)
  BY DEF State
<1>2. Forest(g, K, R \union {r}) /\ Downward(K, {r}) /\ Len(K[r]) = 0
  BY <1>1, Comes
<1>3. /\ r \in Items /\ r \notin h.live /\ g.live = h.live \union {r}
      /\ \A b \in Items : b # r => g.kind[b] = h.kind[b] /\ g.ref[b] = h.ref[b] /\ g.name[b] = h.name[b]
  BY DEF Newly
<1>4. \A b \in Items : \A y : In(K, b, y) => y \in Items /\ y \in h.live
  BY <1>1, OneList DEF In
<1>5. \A y : ~In(K, r, y)
  <2>1. 1..Len(K[r]) = {}
    BY <1>2
  <2> QED BY <2>1 DEF In
<1>6. Named(g, K, N)
  <2> SUFFICES ASSUME NEW o \in Items, NEW y, Holder(g, o), g.kind[o] = "object", In(K, o, y)
               PROVE  g.name[y] # NoName \/ y \in N
    BY DEF Named
  <2>1. o # r /\ y \in Items /\ y # r
    BY <1>3, <1>4, <1>5
  <2>2. g.name[y] = h.name[y] /\ Holder(h, o) /\ h.kind[o] = "object"
    BY <1>3, <2>1 DEF Holder
  <2> QED BY <1>1, <2>2 DEF Named
<1> QED BY <1>2, <1>6 DEF State

Rename(h, x, n) == [h EXCEPT !.name[x] = n]

\* A root gets a name.
LEMMA StateRename ==
  ASSUME NEW h, NEW K, NEW R, NEW N, State(h, K, R, N), NEW x \in R, NEW n, n \in Names \/ n = NoName
  PROVE  State(Rename(h, x, n), K, R, N) /\ Renamed(h, Rename(h, x, n), x, n)
<1> DEFINE g == Rename(h, x, n)
<1>1. Forest(h, K, R) /\ Named(h, K, N)
  BY DEF State
<1>2. x \in Items /\ \A b \in Items : ~In(K, b, x)
  BY <1>1 DEF Forest, Fields, Owned
<1>3. Forest(g, K, R) /\ Renamed(h, g, x, n)
  <2>1. g = [h EXCEPT !.name[x] = n] /\ n \in Names \union {NoName}
    BY DEF Rename
  <2> HIDE DEF g
  <2> QED BY <1>1, <1>2, <2>1, Renames, Zenon
<1> HIDE DEF g
<1>4. \A b \in Items : \A y : In(K, b, y) => y \in Items /\ y # x
  BY <1>1, <1>2, OneList DEF In
<1>5. Named(g, K, N)
  BY <1>1, <1>3, <1>4 DEF Named, Holder, Renamed
<1> QED BY <1>3, <1>5 DEF State, g

\* What is freed needs no name any more.
LEMMA StateLive ==
  ASSUME NEW h, NEW K, NEW R, NEW N, State(h, K, R, N)
  PROVE  State(h, K, R, N \intersect h.live)
<1>1. Forest(h, K, R) /\ Named(h, K, N)
  BY DEF State
<1>2. \A b \in Items : \A y : In(K, b, y) => y \in h.live
  BY <1>1, OneList DEF In
<1>3. Named(h, K, N \intersect h.live)
  BY <1>1, <1>2 DEF Named
<1> QED BY <1>1, <1>3 DEF State

\* add_item_to_array.
LEMMA StateAdd ==
  ASSUME NEW h, NEW K, NEW R, NEW N, State(h, K, R, N), NEW a, NEW x, Fits(h, K, R, N, a, x)
  PROVE  /\ State(AddItemToArray(h, a, x), With(K, a, Len(K[a]) + 1, x), R \ {x}, N)
         /\ Alike(h, AddItemToArray(h, a, x))
<1>1. Forest(h, K, R) /\ Holder(h, a) /\ x \in R
  BY DEF State, Fits
<1>2. Spliced(h, AddItemToArray(h, a, x), a, K[a], Len(K[a]) + 1, x)
  BY <1>1, Appends
<1>3. Len(K[a]) + 1 \in 1..(Len(K[a]) + 1)
  <2>1. Len(K[a]) \in Nat
    BY <1>1, Within
  <2> QED BY <2>1
<1> QED BY <1>2, <1>3, StatePut

\* cJSON_AddItemToObject.
LEMMA StateAddNamed ==
  ASSUME NEW h, NEW K, NEW R, NEW N, State(h, K, R, N), NEW a, Holder(h, a), NEW x \in R, Below(K, a, x),
         NEW n \in Names
  PROVE  /\ State(AddItemToObject(h, a, n, x), With(K, a, Len(K[a]) + 1, x), R \ {x}, N)
         /\ Kept(h, AddItemToObject(h, a, n, x))
<1> DEFINE f == Rename(h, x, n)
<1>1. n # NoName
  BY CJsonAssumption DEF NoName
<1>2. State(f, K, R, N) /\ Renamed(h, f, x, n)
  BY <1>1, StateRename
<1>3. AddItemToObject(h, a, n, x) = AddItemToArray(f, a, x)
  BY DEF AddItemToObject, Rename
<1> HIDE DEF f
<1>4. Fits(f, K, R, N, a, x)
  BY <1>1, <1>2 DEF Fits, Holder, Renamed
<1>5. State(AddItemToArray(f, a, x), With(K, a, Len(K[a]) + 1, x), R \ {x}, N) /\ Alike(f, AddItemToArray(f, a, x))
  BY <1>2, <1>4, StateAdd
<1> QED BY <1>2, <1>3, <1>5 DEF Alike, Renamed, Kept

\* Roots need no name.
LEMMA StateRoot ==
  ASSUME NEW h, NEW K, NEW R, NEW N, State(h, K, R, N), NEW x \in R
  PROVE  State(h, K, R, N \ {x}) /\ State(h, K, R, N \union {x})
<1>1. Forest(h, K, R) /\ Named(h, K, N)
  BY DEF State
<1>2. \A b \in Items : ~In(K, b, x)
  BY <1>1 DEF Forest, Fields, Owned
<1>3. Named(h, K, N \ {x}) /\ Named(h, K, N \union {x})
  BY <1>1, <1>2 DEF Named
<1> QED BY <1>1, <1>3 DEF State

\* cJSON_ReplaceItemViaPointer.
LEMMA StateReplace ==
  ASSUME NEW h, NEW K, NEW R, NEW N, State(h, K, R, N), NEW a, NEW x, Fits(h, K, R, N, a, x),
         NEW p \in 1..Len(K[a]), NEW g, g = ReplaceItemViaPointer(h, a, K[a][p], x)
  PROVE  \E L : State(g, L, R \ {x}, N) /\ RefsKept(h, g, R \ {x})
<1> DEFINE old == K[a][p]
           d == DetachItemViaPointer(h, a, old)
           L1 == Without(K, a, p)
           f == Relinks(h, a, old, x)
<1>1. Forest(h, K, R) /\ Holder(h, a) /\ x \in R /\ Below(K, a, x) /\ (h.kind[a] = "object" => h.name[x] # NoName \/ x \in N)
  BY DEF State, Fits
<1>2. a \in Items /\ Len(K[a]) \in Nat /\ old \in Items /\ old \notin R /\ K[a] \in Seq(Items) /\ R \subseteq Items
  BY <1>1, Within DEF Forest, Owned, Fields
<1>3. Unspliced(h, d, a, K[a], p)
  BY <1>1, Detaches
<1>4. State(d, L1, R \union {old}, N) /\ Alike(h, d) /\ Gone(K, L1, old)
  BY <1>1, <1>3, StateOut
<1>5. Spliced(d, f, a, Out(K[a], p), p, x)
  BY <1>1, Replaces
<1>6. L1[a] = Out(K[a], p) /\ Len(Out(K[a], p)) = Len(K[a]) - 1
  BY <1>1, <1>2, OutIs DEF Without, Forest, Lists
<1>7. p \in 1..(Len(L1[a]) + 1)
  <2>1. Len(L1[a]) + 1 = Len(K[a])
    BY <1>2, <1>6
  <2> QED BY <2>1
<1>8. g = Delete(f, old)
  BY ReplaceIs
<1> HIDE DEF d, L1, f, old
<1>9. Fits(d, L1, R \union {old}, N, a, x)
  <2>1. PICK C : x \in C /\ a \notin C /\ Downward(K, C)
    BY <1>1 DEF Below
  <2> DEFINE D == C \intersect Items
  <2>2. x \in D /\ a \notin D /\ Downward(L1, D)
    <3>1. \A b \in Items : \A y : In(L1, b, y) => In(K, b, y) /\ y \in Items
      <4>1. Lists(L1)
        BY <1>4 DEF State, Forest
      <4>2. \A b \in Items : \A i \in 1..Len(L1[b]) : L1[b][i] \in Items
        BY <4>1, EachList
      <4>3. \A b \in Items : \A y : In(L1, b, y) => y \in Items
        BY <4>2 DEF In
      <4> QED BY <1>4, <4>3 DEF Gone
    <3> QED BY <1>1, <1>2, <2>1, <3>1 DEF Downward
  <2>3. Below(L1, a, x)
    BY <2>2 DEF Below
  <2> QED BY <1>1, <1>4, <2>3 DEF Fits, Alike, Holder
<1> DEFINE L2 == With(L1, a, p, x)
           R2 == (R \union {old}) \ {x}
<1>10. State(f, L2, R2, N) /\ Alike(d, f)
  <2>1. Spliced(d, f, a, L1[a], p, x)
    BY <1>5, <1>6
  <2> QED BY <1>4, <1>7, <1>9, <2>1, StatePut
<1>11. old \in R2 /\ R2 \ {old} = R \ {x}
  BY <1>1, <1>2
<1> DEFINE C2 == Chain(f, old)
<1> HIDE DEF L2, R2, C2
<1>12. /\ State(Delete(f, old), Cleared(L2, C2), R2 \ {old}, N)
       /\ Erased(f, Delete(f, old), C2) /\ C2 \intersect R2 = {old}
  <2>1. State(f, L2, R2, N) /\ old \in R2
    BY <1>10, <1>11
  <2>2. /\ State(Delete(f, old), Cleared(L2, Chain(f, old)), R2 \ {old}, N)
        /\ Erased(f, Delete(f, old), Chain(f, old)) /\ Chain(f, old) \intersect R2 = {old}
    BY <2>1, StateDelete
  <2> QED BY <2>2 DEF C2
<1>13. RefsKept(h, g, R \ {x})
  <2> SUFFICES ASSUME NEW b \in R \ {x} PROVE g.ref[b] = h.ref[b]
    BY DEF RefsKept
  <2>1. b \in R2 /\ b # old /\ b \in Items /\ b \notin C2
    BY <1>2, <1>11, <1>12
  <2>2. g.ref[b] = f.ref[b]
    BY <1>8, <1>12, <2>1 DEF Erased
  <2> QED BY <1>4, <1>10, <2>2 DEF Alike
<1> QED BY <1>8, <1>11, <1>12, <1>13

------------------------------------------------------------------------------
(* The calls.                                                              *)

\* The client's roots are in its hands, or dropped.
Sound(h, K, hd, dr, nl) ==
  /\ State(h, K, hd \union dr, nl)
  /\ hd \intersect dr = {} /\ nl \subseteq h.live
  /\ \A x \in dr : h.ref[x]

CJsonInv == \E K : Sound(heap, K, held, dropped, nameless)

\* A call that leaves the forest g and the roots of holds.
LEMMA Leaves ==
  ASSUME NEW g, NEW L, NEW hd, NEW N, State(g, L, hd \union dropped, N), hd \intersect dropped = {},
         \A x \in dropped : g.ref[x],
         heap' = g, held' = hd, nameless' = N \intersect g.live, dropped' = dropped
  PROVE  CJsonInv'
<1>1. State(g, L, hd \union dropped, N \intersect g.live)
  BY StateLive
<1>2. N \intersect g.live \subseteq g.live
  OBVIOUS
<1>3. Sound(g, L, hd, dropped, N \intersect g.live)
  BY <1>1, <1>2 DEF Sound
<1>4. Sound(heap', L, held', dropped', nameless')
  BY <1>3
<1> QED BY <1>4 DEF CJsonInv

\* What the invariant says of the items at hand.
LEMMA AtHand ==
  ASSUME NEW K, Sound(heap, K, held, dropped, nameless)
  PROVE  /\ State(heap, K, held \union dropped, nameless) /\ Forest(heap, K, held \union dropped) /\ Fields(heap)
         /\ held \intersect dropped = {} /\ nameless \subseteq heap.live /\ heap.live \subseteq Items
         /\ held \union dropped \subseteq heap.live
         /\ \A x \in dropped : heap.ref[x]
         /\ \A a \in Containers : Holder(heap, a) /\ a \in Items
BY DEF Sound, State, Forest, Fields, Owned, Containers, Holder

\* Room for one is a free item.
LEMMA RoomFree ==
  ASSUME NEW k, Room(<<k>>)
  PROVE  Free(heap) # {}
<1>1. Cardinality(Free(heap)) >= Len(<<k>>) /\ Len(<<k>>) = 1
  BY DEF Room
<1>2. Cardinality({}) = 0
  BY FS_EmptySet
<1> QED BY <1>1, <1>2

\* What a new item changes leaves the references.
LEMMA NewlyKeeps ==
  ASSUME NEW h, NEW g, NEW r, Newly(h, g, r)
  PROVE  /\ r \in Items /\ r \notin h.live /\ g.live = h.live \union {r}
         /\ \A b \in h.live : b \in Items => g.ref[b] = h.ref[b] /\ g.kind[b] = h.kind[b]
BY DEF Newly

\* A root that the client may hang below a.
LEMMA MayHang ==
  ASSUME NEW K, Sound(heap, K, held, dropped, nameless), NEW a \in Containers, NEW x \in held, MayHold(a, x)
  PROVE  /\ Holder(heap, a) /\ x \in held \union dropped /\ Below(K, a, x)
         /\ (held \union dropped) \ {x} = (held \ {x}) \union dropped
<1>1. Forest(heap, K, held \union dropped) /\ Holder(heap, a) /\ held \intersect dropped = {} /\ x \in held \union dropped
  BY AtHand
<1>2. x \in Chain(heap, x) /\ Downward(K, Chain(heap, x))
  BY <1>1, Freed
<1>3. Below(K, a, x)
  BY <1>2 DEF Below, MayHold
<1> QED BY <1>1, <1>3

\* An array or object, or a value, is made.
LEMMA StepCreate ==
  ASSUME CJsonInv, NEW k \in Kind, Create(k)
  PROVE  CJsonInv'
<1>1. PICK K : Sound(heap, K, held, dropped, nameless)
  BY DEF CJsonInv
<1> DEFINE g == NewItem(heap, k)
           r == Fresh(heap)
<1>2. /\ State(heap, K, held \union dropped, nameless) /\ Forest(heap, K, held \union dropped)
      /\ held \intersect dropped = {} /\ heap.live \subseteq Items /\ held \union dropped \subseteq heap.live
      /\ \A x \in dropped : heap.ref[x]
  BY <1>1, AtHand
<1>3. Newly(heap, g, r)
  BY <1>2, RoomFree, NewIs DEF Create
<1> HIDE DEF g, r
<1>4. State(g, K, (held \union dropped) \union {r}, nameless)
  BY <1>2, <1>3, StateNew
<1>5. (held \union dropped) \union {r} = (held \union {r}) \union dropped
  OBVIOUS
<1>6. r \notin dropped /\ \A x \in dropped : g.ref[x]
  BY <1>2, <1>3, NewlyKeeps
<1>7. heap' = g /\ held' = held \union {r} /\ nameless' = nameless \intersect g.live /\ dropped' = dropped
  BY DEF Create, Set, g, r
<1>8. State(g, K, (held \union {r}) \union dropped, nameless) /\ (held \union {r}) \intersect dropped = {}
  BY <1>2, <1>4, <1>5, <1>6
<1> QED BY <1>6, <1>7, <1>8, Leaves

\* An item is put into an array.
LEMMA StepAddToArray ==
  ASSUME CJsonInv, NEW a \in Arrays, NEW x \in held, AddToArray(a, x)
  PROVE  CJsonInv'
<1>1. PICK K : Sound(heap, K, held, dropped, nameless)
  BY DEF CJsonInv
<1> DEFINE g == AddItemToArray(heap, a, x)
           L == With(K, a, Len(K[a]) + 1, x)
<1>2. /\ State(heap, K, held \union dropped, nameless) /\ held \intersect dropped = {} /\ \A y \in dropped : heap.ref[y]
  BY <1>1, AtHand
<1>3. a \in Containers /\ heap.kind[a] # "object"
  BY DEF Arrays
<1>4. /\ Holder(heap, a) /\ x \in held \union dropped /\ Below(K, a, x)
      /\ (held \union dropped) \ {x} = (held \ {x}) \union dropped
  BY <1>1, <1>3, MayHang DEF AddToArray
<1>5. Fits(heap, K, held \union dropped, nameless, a, x)
  BY <1>3, <1>4 DEF Fits
<1>6. State(g, L, (held \union dropped) \ {x}, nameless) /\ Alike(heap, g)
  BY <1>2, <1>5, StateAdd
<1>7. heap' = g /\ held' = held \ {x} /\ nameless' = nameless \intersect g.live /\ dropped' = dropped
  BY DEF AddToArray, Set
<1> HIDE DEF g, L
<1>8. State(g, L, (held \ {x}) \union dropped, nameless) /\ (held \ {x}) \intersect dropped = {} /\ \A y \in dropped : g.ref[y]
  BY <1>2, <1>4, <1>6 DEF Alike
<1> QED BY <1>7, <1>8, Leaves

\* It is put where the client says.
LEMMA StepInsert ==
  ASSUME CJsonInv, NEW a \in Arrays, NEW x \in held, NEW which \in Nat, Insert(a, which, x)
  PROVE  CJsonInv'
<1>1. PICK K : Sound(heap, K, held, dropped, nameless)
  BY DEF CJsonInv
<1> DEFINE g == InsertItemInArray(heap, a, which, x)
<1>2. /\ State(heap, K, held \union dropped, nameless) /\ Forest(heap, K, held \union dropped)
      /\ held \intersect dropped = {} /\ \A y \in dropped : heap.ref[y]
  BY <1>1, AtHand
<1>3. a \in Containers /\ heap.kind[a] # "object"
  BY DEF Arrays
<1>4. /\ Holder(heap, a) /\ x \in held \union dropped /\ Below(K, a, x)
      /\ (held \union dropped) \ {x} = (held \ {x}) \union dropped
  BY <1>1, <1>3, MayHang DEF Insert
<1>5. Fits(heap, K, held \union dropped, nameless, a, x)
  BY <1>3, <1>4 DEF Fits
<1>6. PICK p \in 1..(Len(K[a]) + 1) : Spliced(heap, g, a, K[a], p, x)
  BY <1>2, <1>4, Inserts
<1> DEFINE L == With(K, a, p, x)
<1>7. heap' = g /\ held' = held \ {x} /\ nameless' = nameless \intersect g.live /\ dropped' = dropped
  BY DEF Insert, Set
<1> HIDE DEF g
<1>8. State(g, L, (held \union dropped) \ {x}, nameless) /\ Alike(heap, g)
  BY <1>2, <1>5, <1>6, StatePut
<1> HIDE DEF L
<1>9. State(g, L, (held \ {x}) \union dropped, nameless) /\ (held \ {x}) \intersect dropped = {} /\ \A y \in dropped : g.ref[y]
  BY <1>2, <1>4, <1>8 DEF Alike
<1> QED BY <1>7, <1>9, Leaves

\* An item is put into an object.
LEMMA StepAddToObject ==
  ASSUME CJsonInv, NEW o \in Objects, NEW n \in Names, NEW x \in held, AddToObject(o, n, x)
  PROVE  CJsonInv'
<1>1. PICK K : Sound(heap, K, held, dropped, nameless)
  BY DEF CJsonInv
<1> DEFINE g == AddItemToObject(heap, o, n, x)
           L == With(K, o, Len(K[o]) + 1, x)
           N == nameless \ {x}
<1>2. /\ State(heap, K, held \union dropped, nameless) /\ held \intersect dropped = {} /\ nameless \subseteq heap.live
      /\ \A y \in dropped : heap.ref[y]
  BY <1>1, AtHand
<1>3. o \in Containers
  BY DEF Objects
<1>4. /\ Holder(heap, o) /\ x \in held \union dropped /\ Below(K, o, x)
      /\ (held \union dropped) \ {x} = (held \ {x}) \union dropped
  BY <1>1, <1>3, MayHang DEF AddToObject
<1>5. State(heap, K, held \union dropped, N)
  BY <1>2, <1>4, StateRoot
<1> HIDE DEF N
<1>6. State(g, L, (held \union dropped) \ {x}, N) /\ Kept(heap, g)
  BY <1>4, <1>5, StateAddNamed
<1>7. heap' = g /\ held' = held \ {x} /\ nameless' = N /\ dropped' = dropped
  BY DEF AddToObject, N
<1> HIDE DEF g, L
<1>8. State(g, L, (held \ {x}) \union dropped, N) /\ (held \ {x}) \intersect dropped = {} /\ \A y \in dropped : g.ref[y]
  BY <1>2, <1>4, <1>6 DEF Kept
<1>9. nameless' = N \intersect g.live
  <2>1. N = N \intersect g.live
    BY <1>2, <1>6 DEF N, Kept
  <2> QED BY <1>7, <2>1, Zenon
<1> QED BY <1>7, <1>8, <1>9, Leaves

\* A new item may be hung into any container.
LEMMA FreshHangs ==
  ASSUME NEW K, Sound(heap, K, held, dropped, nameless), NEW f, NEW r, Newly(heap, f, r), NEW a \in Containers
  PROVE  /\ State(f, K, (held \union dropped) \union {r}, nameless)
         /\ Holder(f, a) /\ f.kind[a] = heap.kind[a] /\ Below(K, a, r)
         /\ ((held \union dropped) \union {r}) \ {r} = held \union dropped
         /\ \A x \in dropped : f.ref[x]
<1>1. /\ State(heap, K, held \union dropped, nameless) /\ heap.live \subseteq Items
      /\ held \union dropped \subseteq heap.live
      /\ (\A x \in dropped : heap.ref[x]) /\ Holder(heap, a) /\ a \in Items
  BY AtHand
<1>2. /\ r \in Items /\ r \notin heap.live /\ f.live = heap.live \union {r}
      /\ \A b \in heap.live : b \in Items => f.ref[b] = heap.ref[b] /\ f.kind[b] = heap.kind[b]
  BY NewlyKeeps
<1>3. State(f, K, (held \union dropped) \union {r}, nameless) /\ Downward(K, {r})
  BY <1>1, StateNew
<1>4. Holder(f, a) /\ f.kind[a] = heap.kind[a] /\ a # r
  BY <1>1, <1>2 DEF Holder
<1>5. Below(K, a, r)
  <2>1. r \in {r} /\ a \notin {r}
    BY <1>4
  <2> QED BY <1>3, <2>1 DEF Below
<1>6. ((held \union dropped) \union {r}) \ {r} = held \union dropped
  BY <1>1, <1>2
<1>7. \A x \in dropped : f.ref[x]
  BY <1>1, <1>2
<1> QED BY <1>3, <1>4, <1>5, <1>6, <1>7

\* An item is made and put into an object.
LEMMA StepAddNewToObject ==
  ASSUME CJsonInv, NEW o \in Objects, NEW n \in Names, NEW k \in Kind, AddNewToObject(o, n, k)
  PROVE  CJsonInv'
<1>1. PICK K : Sound(heap, K, held, dropped, nameless)
  BY DEF CJsonInv
<1> DEFINE f == NewItem(heap, k)
           r == Fresh(heap)
           g == AddItemToObject(f, o, n, r)
           L == With(K, o, Len(K[o]) + 1, r)
           R == held \union dropped
           S == R \union {r}
<1>2. Forest(heap, K, R) /\ held \intersect dropped = {}
  BY <1>1, AtHand
<1>3. Newly(heap, f, r)
  BY <1>2, RoomFree, NewIs DEF AddNewToObject
<1>4. heap' = g /\ held' = held /\ nameless' = nameless \intersect g.live /\ dropped' = dropped
  BY DEF AddNewToObject, Set
<1>5. o \in Containers
  BY DEF Objects
<1> HIDE DEF f, r
<1>6. State(f, K, S, nameless) /\ Holder(f, o) /\ Below(K, o, r) /\ S \ {r} = R /\ r \in S
      /\ \A x \in dropped : f.ref[x]
  BY <1>1, <1>3, <1>5, FreshHangs
<1> HIDE DEF S
<1>7. State(g, L, S \ {r}, nameless) /\ Kept(f, g)
  BY <1>6, StateAddNamed
<1> HIDE DEF g, L
<1>8. State(g, L, R, nameless) /\ \A x \in dropped : g.ref[x]
  BY <1>6, <1>7 DEF Kept
<1> QED BY <1>2, <1>4, <1>8, Leaves

\* A reference is put into an array.
LEMMA StepAddReferenceToArray ==
  ASSUME CJsonInv, NEW a \in Arrays, NEW x \in heap.live \ dropped, AddReferenceToArray(a, x)
  PROVE  CJsonInv'
<1>1. PICK K : Sound(heap, K, held, dropped, nameless)
  BY DEF CJsonInv
<1> DEFINE f == CreateReference(heap, x)
           r == Fresh(heap)
           g == AddItemToArray(f, a, r)
           L == With(K, a, Len(K[a]) + 1, r)
           R == held \union dropped
           S == R \union {r}
<1>2. Forest(heap, K, R) /\ held \intersect dropped = {} /\ x \in Items
  BY <1>1, AtHand
<1>3. Newly(heap, f, r)
  BY <1>2, RoomFree, ReferenceIs DEF AddReferenceToArray, MayRefer
<1>4. heap' = g /\ held' = held /\ nameless' = nameless \intersect g.live /\ dropped' = dropped
  BY DEF AddReferenceToArray, Set
<1>5. a \in Containers /\ heap.kind[a] # "object"
  BY DEF Arrays
<1> HIDE DEF f, r
<1>6. State(f, K, S, nameless) /\ Holder(f, a) /\ f.kind[a] # "object" /\ Below(K, a, r) /\ S \ {r} = R /\ r \in S
      /\ \A y \in dropped : f.ref[y]
  BY <1>1, <1>3, <1>5, FreshHangs
<1> HIDE DEF S
<1>7. Fits(f, K, S, nameless, a, r)
  BY <1>6 DEF Fits
<1>8. State(g, L, S \ {r}, nameless) /\ Alike(f, g)
  BY <1>6, <1>7, StateAdd
<1> HIDE DEF g, L
<1>9. State(g, L, R, nameless) /\ \A y \in dropped : g.ref[y]
  BY <1>6, <1>8 DEF Alike
<1> QED BY <1>2, <1>4, <1>9, Leaves

\* A reference is put into an object, or dropped.
LEMMA StepAddReferenceToObject ==
  ASSUME CJsonInv, NEW o \in Objects, NEW n \in Names, NEW x \in heap.live \ dropped, AddReferenceToObject(o, n, x)
  PROVE  CJsonInv'
<1>1. PICK K : Sound(heap, K, held, dropped, nameless)
  BY DEF CJsonInv
<1> DEFINE f == CreateReference(heap, x)
           r == Fresh(heap)
           g == AddItemToObject(f, o, n, r)
           L == With(K, o, Len(K[o]) + 1, r)
           R == held \union dropped
           S == R \union {r}
<1>2. Forest(heap, K, R) /\ held \intersect dropped = {} /\ x \in Items /\ nameless \subseteq heap.live /\ R \subseteq heap.live
  BY <1>1, AtHand
<1>3. Newly(heap, f, r) /\ f.ref[r]
  BY <1>2, RoomFree, ReferenceIs DEF AddReferenceToObject, MayRefer
<1>4. o \in Containers
  BY DEF Objects
<1>5. \/ heap' = g /\ held' = held /\ nameless' = nameless \intersect g.live /\ dropped' = dropped
      \/ heap' = f /\ dropped' = dropped \union {r} /\ held' = held /\ nameless' = nameless
  BY DEF AddReferenceToObject, Set
<1> HIDE DEF f, r
<1>6. State(f, K, S, nameless) /\ Holder(f, o) /\ Below(K, o, r) /\ S \ {r} = R /\ r \in S
      /\ \A y \in dropped : f.ref[y]
  BY <1>1, <1>3, <1>4, FreshHangs
<1>7. CASE heap' = g /\ held' = held /\ nameless' = nameless \intersect g.live /\ dropped' = dropped
  <2> HIDE DEF S
  <2>1. State(g, L, S \ {r}, nameless) /\ Kept(f, g)
    BY <1>6, StateAddNamed
  <2> HIDE DEF g, L
  <2>2. State(g, L, R, nameless) /\ \A y \in dropped : g.ref[y]
    BY <1>6, <2>1 DEF Kept
  <2> QED BY <1>2, <1>7, <2>2, Leaves
<1>8. CASE heap' = f /\ dropped' = dropped \union {r} /\ held' = held /\ nameless' = nameless
  <2>1. r \notin heap.live /\ f.live = heap.live \union {r}
    BY <1>3 DEF Newly
  <2>2. held \union (dropped \union {r}) = S
    OBVIOUS
  <2>3. /\ held \intersect (dropped \union {r}) = {} /\ nameless \subseteq f.live
        /\ \A y \in dropped \union {r} : f.ref[y]
    BY <1>2, <1>3, <1>6, <2>1
  <2> HIDE DEF S
  <2>4. Sound(f, K, held, dropped \union {r}, nameless)
    BY <1>6, <2>2, <2>3 DEF Sound
  <2>5. Sound(heap', K, held', dropped', nameless')
    BY <1>8, <2>4
  <2> QED BY <2>5 DEF CJsonInv
<1> QED BY <1>5, <1>7, <1>8

\* Where an item of a container is.
LEMMA Position ==
  ASSUME NEW K, Sound(heap, K, held, dropped, nameless), NEW a \in Containers, NEW x, x \in ToSet(Kids(heap, a))
  PROVE  \E p \in 1..Len(K[a]) : x = K[a][p]
<1>1. Forest(heap, K, held \union dropped) /\ Holder(heap, a)
  BY AtHand
<1>2. Kids(heap, a) = K[a] /\ K[a] \in Seq(Items)
  BY <1>1, Within
<1>3. DOMAIN K[a] = 1..Len(K[a])
  BY <1>2
<1> QED BY <1>2, <1>3 DEF ToSet

\* An item is taken out.
LEMMA StepDetach ==
  ASSUME CJsonInv, NEW a \in Containers, NEW x \in heap.live, Detach(a, x)
  PROVE  CJsonInv'
<1>1. PICK K : Sound(heap, K, held, dropped, nameless)
  BY DEF CJsonInv
<1>2. PICK p \in 1..Len(K[a]) : x = K[a][p]
  BY <1>1, Position DEF Detach
<1> DEFINE g == DetachItemViaPointer(heap, a, x)
           L == Without(K, a, p)
           R == held \union dropped
<1>3. State(heap, K, R, nameless) /\ Forest(heap, K, R) /\ held \intersect dropped = {} /\ (\A y \in dropped : heap.ref[y]) /\ Holder(heap, a)
      /\ a \in Items
  BY <1>1, AtHand
<1>4. Unspliced(heap, g, a, K[a], p)
  BY <1>2, <1>3, Detaches
<1>5. x \notin R
  BY <1>2, <1>3, OneList
<1>6. heap' = g /\ held' = held \union {x} /\ nameless' = nameless \intersect g.live /\ dropped' = dropped
  BY DEF Detach, Set
<1> HIDE DEF g
<1>7. State(g, L, R \union {x}, nameless) /\ Alike(heap, g)
  BY <1>2, <1>3, <1>4, StateOut
<1> HIDE DEF L
<1>8. R \union {x} = (held \union {x}) \union dropped /\ (held \union {x}) \intersect dropped = {} /\ \A y \in dropped : g.ref[y]
  BY <1>3, <1>5, <1>7 DEF Alike
<1>9. State(g, L, (held \union {x}) \union dropped, nameless)
  BY <1>7, <1>8
<1> QED BY <1>6, <1>8, <1>9, Leaves

\* An item is taken out and deleted.
LEMMA StepDeleteItem ==
  ASSUME CJsonInv, NEW a \in Containers, NEW x \in heap.live, DeleteItem(a, x)
  PROVE  CJsonInv'
<1>1. PICK K : Sound(heap, K, held, dropped, nameless)
  BY DEF CJsonInv
<1>2. PICK p \in 1..Len(K[a]) : x = K[a][p]
  BY <1>1, Position DEF DeleteItem
<1> DEFINE f == DetachItemViaPointer(heap, a, x)
           g == Delete(f, x)
           C == Chain(f, x)
           L == Without(K, a, p)
           R == held \union dropped
           S == R \union {x}
<1>3. State(heap, K, R, nameless) /\ Forest(heap, K, R) /\ held \intersect dropped = {} /\ (\A y \in dropped : heap.ref[y]) /\ Holder(heap, a)
      /\ a \in Items /\ heap.live \subseteq Items /\ R \subseteq heap.live
  BY <1>1, AtHand
<1>4. Unspliced(heap, f, a, K[a], p)
  BY <1>2, <1>3, Detaches
<1>5. x \notin R
  BY <1>2, <1>3, OneList
<1>6. heap' = g /\ held' = held /\ nameless' = nameless \intersect g.live /\ dropped' = dropped
  BY DEF DeleteItem, Set
<1> HIDE DEF f
<1>7. State(f, L, S, nameless) /\ Alike(heap, f) /\ x \in S /\ S \ {x} = R
  BY <1>2, <1>3, <1>4, <1>5, StateOut
<1> HIDE DEF L, S
<1>8. State(g, Cleared(L, C), S \ {x}, nameless) /\ Erased(f, g, C) /\ C \intersect S = {x}
  BY <1>7, StateDelete
<1> HIDE DEF g, C
<1>9. State(g, Cleared(L, C), R, nameless) /\ \A y \in dropped : g.ref[y]
  BY <1>3, <1>7, <1>8 DEF Alike, Erased, S
<1> QED BY <1>3, <1>6, <1>9, Leaves

\* The client deletes what it holds.
LEMMA StepDeleteHeld ==
  ASSUME CJsonInv, NEW x \in held, DeleteHeld(x)
  PROVE  CJsonInv'
<1>1. PICK K : Sound(heap, K, held, dropped, nameless)
  BY DEF CJsonInv
<1> DEFINE g == Delete(heap, x)
           C == Chain(heap, x)
           R == held \union dropped
<1>3. State(heap, K, R, nameless) /\ held \intersect dropped = {} /\ (\A y \in dropped : heap.ref[y])
      /\ heap.live \subseteq Items /\ R \subseteq heap.live
  BY <1>1, AtHand
<1>4. heap' = g /\ held' = held \ {x} /\ nameless' = nameless \intersect g.live /\ dropped' = dropped
  BY DEF DeleteHeld, Set
<1>5. State(g, Cleared(K, C), R \ {x}, nameless) /\ Erased(heap, g, C) /\ C \intersect R = {x}
  <2>1. x \in R
    OBVIOUS
  <2> HIDE DEF R
  <2> QED BY <1>3, <2>1, StateDelete
<1> HIDE DEF g, C
<1>6. R \ {x} = (held \ {x}) \union dropped /\ (held \ {x}) \intersect dropped = {} /\ \A y \in dropped : g.ref[y]
  BY <1>3, <1>5 DEF Erased
<1>7. State(g, Cleared(K, C), (held \ {x}) \union dropped, nameless)
  BY <1>5, <1>6
<1> QED BY <1>4, <1>6, <1>7, Leaves

\* An item of an array gives its place to another and is deleted.
LEMMA StepReplaceInArray ==
  ASSUME CJsonInv, NEW a \in Arrays, NEW x \in held, NEW old \in heap.live, ReplaceInArray(a, old, x)
  PROVE  CJsonInv'
<1>1. PICK K : Sound(heap, K, held, dropped, nameless)
  BY DEF CJsonInv
<1> DEFINE g == ReplaceItemViaPointer(heap, a, old, x)
           R == held \union dropped
<1>2. State(heap, K, R, nameless) /\ held \intersect dropped = {} /\ \A y \in dropped : heap.ref[y]
  BY <1>1, AtHand
<1>3. a \in Containers /\ heap.kind[a] # "object"
  BY DEF Arrays
<1>4. PICK p \in 1..Len(K[a]) : old = K[a][p]
  BY <1>1, <1>3, Position DEF ReplaceInArray
<1>5. Holder(heap, a) /\ x \in R /\ Below(K, a, x) /\ R \ {x} = (held \ {x}) \union dropped
  BY <1>1, <1>3, MayHang DEF ReplaceInArray
<1>6. Fits(heap, K, R, nameless, a, x)
  BY <1>3, <1>5 DEF Fits
<1>7. heap' = g /\ held' = held \ {x} /\ nameless' = nameless \intersect g.live /\ dropped' = dropped
  BY DEF ReplaceInArray, Set
<1>8. PICK L : State(g, L, R \ {x}, nameless) /\ RefsKept(heap, g, R \ {x})
  <2> HIDE DEF R
  <2>1. g = ReplaceItemViaPointer(heap, a, K[a][p], x)
    BY <1>4
  <2> HIDE DEF g
  <2> QED BY <1>2, <1>6, <2>1, StateReplace
<1> HIDE DEF g
<1>9. State(g, L, (held \ {x}) \union dropped, nameless) /\ (held \ {x}) \intersect dropped = {} /\ \A y \in dropped : g.ref[y]
  BY <1>2, <1>5, <1>8 DEF RefsKept
<1> QED BY <1>7, <1>9, Leaves

\* A member of an object gives its place to another, which takes its name.
LEMMA StepReplaceInObject ==
  ASSUME CJsonInv, NEW o \in Objects, NEW n \in Names, NEW x \in held, ReplaceInObject(o, n, x)
  PROVE  CJsonInv'
<1>1. PICK K : Sound(heap, K, held, dropped, nameless)
  BY DEF CJsonInv
<1>2. PICK copied \in {n, NoName} :
        LET h == [heap EXCEPT !.name[x] = copied]
            old == GetObjectItem(heap, o, n)
        IN  /\ IF old = NULL THEN heap' = h /\ held' = held
               ELSE heap' = ReplaceItemViaPointer(h, o, old, x) /\ held' = held \ {x}
            /\ nameless' = (IF copied = NoName THEN nameless \union {x} ELSE nameless \ {x})
                             \intersect heap'.live
  BY DEF ReplaceInObject
<1> DEFINE h == Rename(heap, x, copied)
           old == GetObjectItem(heap, o, n)
           g == ReplaceItemViaPointer(h, o, old, x)
           N == IF copied = NoName THEN nameless \union {x} ELSE nameless \ {x}
           R == held \union dropped
<1>3. /\ (old = NULL => heap' = h /\ held' = held)
      /\ (old # NULL => heap' = g /\ held' = held \ {x})
      /\ nameless' = N \intersect heap'.live /\ dropped' = dropped
  BY <1>2 DEF ReplaceInObject, Rename
<1>4. State(heap, K, R, nameless) /\ Forest(heap, K, R) /\ held \intersect dropped = {} /\ \A y \in dropped : heap.ref[y]
  BY <1>1, AtHand
<1>5. o \in Containers /\ MayHold(o, x)
  BY DEF Objects, ReplaceInObject
<1>6. Holder(heap, o) /\ x \in R /\ Below(K, o, x) /\ R \ {x} = (held \ {x}) \union dropped
  BY <1>1, <1>5, MayHang
<1>7. State(heap, K, R, N)
  <2> HIDE DEF R
  <2> QED BY <1>4, <1>6, StateRoot
<1>8. (copied \in Names \/ copied = NoName) /\ (copied = NoName => x \in N)
  OBVIOUS
<1> HIDE DEF N, h, g
<1>9. State(h, K, R, N) /\ Renamed(heap, h, x, copied)
  <2> HIDE DEF R
  <2> QED BY <1>6, <1>7, <1>8, StateRename DEF h
<1>10. \A y \in dropped : h.ref[y]
  BY <1>4, <1>9 DEF Renamed
<1>11. CASE old = NULL
  <2>1. heap' = h /\ held' = held /\ nameless' = N \intersect h.live /\ dropped' = dropped
    BY <1>3, <1>11
  <2> QED BY <1>4, <1>9, <1>10, <2>1, Leaves
<1>12. CASE old # NULL
  <2>1. \E p \in 1..Len(K[o]) : old = K[o][p]
    <3>1. Kids(heap, o) = K[o] /\ K[o] \in Seq(Items)
      BY <1>4, <1>6, Within
    <3> QED BY <1>12, <3>1, SearchIs
  <2>2. PICK p \in 1..Len(K[o]) : old = K[o][p]
    BY <2>1
  <2> HIDE DEF old
  <2>3. Fits(h, K, R, N, o, x)
    BY <1>6, <1>8, <1>9 DEF Fits, Renamed, Holder
  <2>4. PICK L : State(g, L, R \ {x}, N) /\ RefsKept(h, g, R \ {x})
    <3> HIDE DEF R
    <3>1. g = ReplaceItemViaPointer(h, o, K[o][p], x)
      BY <2>2 DEF g
    <3> QED BY <1>9, <2>3, <3>1, StateReplace
  <2>5. State(g, L, (held \ {x}) \union dropped, N) /\ (held \ {x}) \intersect dropped = {} /\ \A y \in dropped : g.ref[y]
    BY <1>4, <1>6, <1>10, <2>4 DEF RefsKept
  <2>6. heap' = g /\ held' = held \ {x} /\ nameless' = N \intersect g.live /\ dropped' = dropped
    BY <1>3, <1>12
  <2> QED BY <2>5, <2>6, Leaves
<1> QED BY <1>11, <1>12

\* What is free after one of the free items has been taken.
LEMMA FreeLess ==
  ASSUME NEW h, Fields(h), NEW g, NEW r, Newly(h, g, r)
  PROVE  /\ IsFiniteSet(Free(h)) /\ IsFiniteSet(Free(g))
         /\ Cardinality(Free(g)) \in Nat /\ Cardinality(Free(h)) = Cardinality(Free(g)) + 1
<1>1. r \in Items /\ r \notin h.live /\ g.live = h.live \union {r}
  BY DEF Newly
<1>2. Free(g) = Free(h) \ {r} /\ r \in Free(h) /\ Free(h) \subseteq Items
  BY <1>1 DEF Free
<1>3. IsFiniteSet(Free(h))
  BY <1>2, FS_Subset, CJsonAssumption
<1>4. IsFiniteSet(Free(g)) /\ Cardinality(Free(g)) = Cardinality(Free(h)) - 1
  BY <1>2, <1>3, FS_RemoveElement
<1>5. Cardinality(Free(g)) \in Nat /\ Cardinality(Free(h)) \in Nat
  BY <1>3, <1>4, FS_CardinalityType
<1> QED BY <1>3, <1>4, <1>5

\* Some are free as long as some are to be taken.
LEMMA SomeFree ==
  ASSUME NEW h, Cardinality(Free(h)) # 0
  PROVE  Free(h) # {}
BY FS_EmptySet

\* x and y are all that is in a.
Pair(h, a, x, y) == [h EXCEPT !.child[a] = x, !.next[x] = y, !.prev = [@ EXCEPT ![x] = y, ![y] = x]]

\* Two new items added to a new array are what cJSON_CreateIntArray links.
LEMMA TwoAdded ==
  ASSUME NEW h, Fields(h), NEW a \in Items, NEW x \in Items, NEW y \in Items, x # y, h.child[a] = NULL
  PROVE  AddItemToArray(AddItemToArray(h, a, x), a, y) = Pair(h, a, x, y)
<1>1. h.child \in Links /\ h.next \in Links /\ h.prev \in Links /\ x # NULL
  BY CJsonAssumption DEF Fields, Links
<1> DEFINE c == [h.child EXCEPT ![a] = x]
           m == [h.next EXCEPT ![x] = NULL]
           q == [h.prev EXCEPT ![x] = x]
           f == AddItemToArray(h, a, x)
           g == AddItemToArray(f, a, y)
<1>2. f = Relink(h, c, m, q)
  BY DEF AddItemToArray, Relink, Fields
<1>3. c \in Links /\ m \in Links /\ q \in Links
  BY <1>1 DEF Links
<1>4. c[a] = x /\ q[x] = x
  BY <1>1 DEF Links
<1> HIDE DEF c, m, q, f
<1>5. SameItems(h, f) /\ f.child = c /\ f.next = m /\ f.prev = q
  BY <1>2, <1>3, Relinked
<1>6. g = [f EXCEPT !.next[x] = y, !.prev = [@ EXCEPT ![y] = x, ![x] = y]]
  BY <1>1, <1>4, <1>5 DEF AddItemToArray
<1>7. [m EXCEPT ![x] = y] = [h.next EXCEPT ![x] = y] /\ [q EXCEPT ![y] = x, ![x] = y] = [h.prev EXCEPT ![x] = y, ![y] = x]
  BY <1>1 DEF m, q, Links
<1> HIDE DEF g
<1>8. g = [f EXCEPT !.next = [h.next EXCEPT ![x] = y], !.prev = [h.prev EXCEPT ![x] = y, ![y] = x]]
  BY <1>5, <1>6, <1>7 DEF SameItems, Fields
<1>9. g = Relink(h, c, [h.next EXCEPT ![x] = y], [h.prev EXCEPT ![x] = y, ![y] = x])
  <2> DEFINE mm == [h.next EXCEPT ![x] = y]
             qq == [h.prev EXCEPT ![x] = y, ![y] = x]
  <2> HIDE DEF mm, qq
  <2>1. g = [f EXCEPT !.next = mm, !.prev = qq]
    BY <1>8 DEF mm, qq
  <2>2. f = [h EXCEPT !.child = c, !.next = m, !.prev = q]
    BY <1>2 DEF Relink
  <2>3. g = [h EXCEPT !.child = c, !.next = mm, !.prev = qq]
    BY <2>1, <2>2 DEF Fields
  <2> QED BY <2>3 DEF mm, qq, Relink
<1> QED BY <1>9 DEF Relink, Fields, c, g, f, Pair

\* Two new items come into a new array.
LEMMA TwoHung ==
  ASSUME NEW h, NEW K, NEW R, NEW N, State(h, K, R, N),
         NEW h1, NEW a, Newly(h, h1, a), h1.kind[a] = "array", ~h1.ref[a],
         NEW h2, NEW x, Newly(h1, h2, x), NEW h3, NEW y, Newly(h2, h3, y),
         NEW g, g = Pair(h3, a, x, y)
  PROVE  (\E L : State(g, L, R \union {a}, N)) /\ a \notin h.live /\ \A b \in h.live : g.ref[b] = h.ref[b]
<1> DEFINE R1 == R \union {a}
           R2 == R1 \union {x}
           R3 == R2 \union {y}
<1>1. R \subseteq h.live /\ h.live \subseteq Items
  BY DEF State, Forest, Fields, Owned
<1>2. State(h1, K, R1, N)
  BY StateNew
<1> HIDE DEF R1
<1>3. State(h2, K, R2, N) /\ Downward(K, {x})
  BY <1>2, StateNew
<1> HIDE DEF R2
<1>4. State(h3, K, R3, N)
  BY <1>3, StateNew
<1>20. Len(K[y]) = 0
  BY <1>3, StateNew
<1> HIDE DEF R3
<1>5. /\ a \in Items /\ a \notin h.live /\ h1.live = h.live \union {a} /\ h1.child[a] = NULL
      /\ \A b \in Items : b # a => h1.ref[b] = h.ref[b]
  BY DEF Newly
<1>6. /\ x \in Items /\ x \notin h1.live /\ h2.live = h1.live \union {x}
      /\ \A b \in Items : b # x => h2.ref[b] = h1.ref[b] /\ h2.kind[b] = h1.kind[b] /\ h2.child[b] = h1.child[b]
  BY DEF Newly
<1>7. /\ y \in Items /\ y \notin h2.live /\ h3.live = h2.live \union {y} /\ Fields(h3)
      /\ \A b \in Items : b # y => h3.ref[b] = h2.ref[b] /\ h3.kind[b] = h2.kind[b] /\ h3.child[b] = h2.child[b]
  BY DEF Newly
<1>8. a # x /\ a # y /\ x # y
  BY <1>5, <1>6, <1>7
<1>9. a \in h3.live /\ h3.kind[a] = "array" /\ ~h3.ref[a] /\ h3.child[a] = NULL
  BY <1>5, <1>6, <1>7, <1>8
<1>10. a \notin R /\ x \notin R1 /\ y \notin R2 /\ x \in R3 /\ y \in R3 \ {x} /\ (R3 \ {x}) \ {y} = R1
  BY <1>1, <1>5, <1>6, <1>7, <1>8 DEF R1, R2, R3
<1>11. \A b \in h.live : h3.ref[b] = h.ref[b]
  BY <1>1, <1>5, <1>6, <1>7
<1> DEFINE f == AddItemToArray(h3, a, x)
           L1 == With(K, a, Len(K[a]) + 1, x)
           Q == R3 \ {x}
<1>12. Fits(h3, K, R3, N, a, x)
  <2>1. x \in {x} /\ a \notin {x}
    BY <1>8
  <2>2. Below(K, a, x)
    BY <1>3, <2>1 DEF Below
  <2> QED BY <1>9, <1>10, <2>2 DEF Fits, Holder
<1>13. State(f, L1, Q, N) /\ Alike(h3, f)
  BY <1>4, <1>12, StateAdd
<1>14. L1[y] = K[y]
  BY <1>4, <1>5, <1>7, <1>8 DEF State, Forest, Lists, With
<1>15. g = AddItemToArray(f, a, y)
  <2>1. AddItemToArray(AddItemToArray(h3, a, x), a, y) = Pair(h3, a, x, y)
    BY <1>5, <1>6, <1>7, <1>8, <1>9, TwoAdded
  <2> QED BY <2>1
<1> HIDE DEF f, L1
<1>16. Fits(f, L1, Q, N, a, y)
  <2>1. y \in {y} /\ a \notin {y}
    BY <1>8
  <2>2. 1..Len(L1[y]) = {}
    BY <1>20, <1>14
  <2>3. Downward(L1, {y})
    BY <2>2 DEF Downward, In
  <2>4. Below(L1, a, y)
    BY <2>1, <2>3 DEF Below
  <2> QED BY <1>9, <1>10, <1>13, <2>4 DEF Fits, Holder, Alike
<1> HIDE DEF Q
<1>17. State(g, With(L1, a, Len(L1[a]) + 1, y), Q \ {y}, N) /\ Alike(f, g)
  <2>1. /\ State(AddItemToArray(f, a, y), With(L1, a, Len(L1[a]) + 1, y), Q \ {y}, N)
        /\ Alike(f, AddItemToArray(f, a, y))
    BY <1>13, <1>16, StateAdd
  <2> QED BY <1>15, <2>1
<1>18. State(g, With(L1, a, Len(L1[a]) + 1, y), R1, N)
  BY <1>10, <1>17 DEF Q
<1>19. \A b \in h.live : g.ref[b] = h.ref[b]
  BY <1>11, <1>13, <1>17 DEF Alike
<1> QED BY <1>5, <1>18, <1>19 DEF R1

\* An array of two numbers is made.
LEMMA StepCreateArrayOfTwo ==
  ASSUME CJsonInv, CreateArrayOfTwo
  PROVE  CJsonInv'
<1>1. PICK K : Sound(heap, K, held, dropped, nameless)
  BY DEF CJsonInv
<1> DEFINE a == Fresh(heap)
           h1 == NewItem(heap, "array")
           h2 == NewItem(h1, "value")
           h3 == NewItem(h2, "value")
           x == Fresh(h1)
           y == Fresh(h2)
           g == Pair(h3, a, x, y)
           R == held \union dropped
<1>2. State(heap, K, R, nameless) /\ held \intersect dropped = {} /\ (\A b \in dropped : heap.ref[b])
      /\ R \subseteq heap.live /\ Forest(heap, K, R) /\ Fields(heap)
  BY <1>1, AtHand
<1>3. /\ Room(<<"array", "value", "value">>) /\ dropped' = dropped
      /\ heap' = g /\ held' = held \union {a} /\ nameless' = nameless \intersect g.live
  BY DEF CreateArrayOfTwo, Set, Pair
<1>4. Cardinality(Free(heap)) >= 3
  BY <1>3 DEF Room
<1> HIDE DEF R
<1>5. Newly(heap, h1, a) /\ h1.kind[a] = "array" /\ ~h1.ref[a]
  <2>1. Free(heap) # {}
    BY <1>4, SomeFree
  <2>2. "array" \in Kind
    BY DEF Kind
  <2> QED BY <1>2, <2>1, <2>2, NewIs
<1>6. Cardinality(Free(h1)) >= 2 /\ Fields(h1) /\ Forest(h1, K, R \union {a})
  <2>1. Cardinality(Free(h1)) \in Nat /\ Cardinality(Free(heap)) = Cardinality(Free(h1)) + 1
    BY <1>2, <1>5, FreeLess
  <2>2. Forest(h1, K, R \union {a})
    BY <1>2, <1>5, Comes
  <2> QED BY <1>4, <2>1, <2>2 DEF Forest
<1>7. Newly(h1, h2, x)
  <2>1. Free(h1) # {}
    BY <1>6, SomeFree
  <2>2. "value" \in Kind
    BY DEF Kind
  <2> QED BY <1>6, <2>1, <2>2, NewIs
<1>8. Cardinality(Free(h2)) >= 1 /\ Forest(h2, K, (R \union {a}) \union {x})
  <2>1. Cardinality(Free(h2)) \in Nat /\ Cardinality(Free(h1)) = Cardinality(Free(h2)) + 1
    BY <1>6, <1>7, FreeLess
  <2>2. Forest(h2, K, (R \union {a}) \union {x})
    BY <1>6, <1>7, Comes
  <2> QED BY <1>6, <2>1, <2>2
<1>9. Newly(h2, h3, y)
  <2>1. Free(h2) # {}
    BY <1>8, SomeFree
  <2>2. "value" \in Kind
    BY DEF Kind
  <2> QED BY <1>8, <2>1, <2>2, NewIs
<1> HIDE DEF a, h1, h2, h3, x, y
<1>10. (\E L : State(g, L, R \union {a}, nameless)) /\ a \notin heap.live /\ \A b \in heap.live : g.ref[b] = heap.ref[b]
  BY <1>2, <1>5, <1>7, <1>9, TwoHung
<1> HIDE DEF g
<1>11. PICK L : State(g, L, R \union {a}, nameless)
  BY <1>10
<1>12. /\ R \union {a} = (held \union {a}) \union dropped /\ (held \union {a}) \intersect dropped = {}
       /\ \A b \in dropped : g.ref[b]
  BY <1>2, <1>10 DEF R
<1>13. State(g, L, (held \union {a}) \union dropped, nameless)
  BY <1>11, <1>12
<1> QED BY <1>3, <1>12, <1>13, Leaves

------------------------------------------------------------------------------
(* The copy of a tree.                                                     *)

\* The items of T are x and all that is below it.
Tree(h, K, x, T) ==
  /\ x \in T /\ T \subseteq h.live /\ Downward(K, T)
  /\ \A y \in T : ~h.ref[y] /\ ~In(K, y, x) /\ (y # x => \E b \in T : In(K, b, y))

\* f leads from items to free ones, from no two to the same.
Renaming(h, f, T) == f \in [T -> Items \ h.live] /\ \A y, z \in T : f[y] = f[z] => y = z

Image(T, f) == {f[z] : z \in T}

\* In g the items of T have copies, which refer to each other.
Copied(h, g, x, T, f) ==
  /\ Fields(g) /\ g.live = h.live \union {f[y] : y \in T} /\ g.ref = h.ref
  /\ \A b \in Items : b \notin {f[y] : y \in T} =>
       /\ g.kind[b] = h.kind[b] /\ g.name[b] = h.name[b]
       /\ g.next[b] = h.next[b] /\ g.prev[b] = h.prev[b] /\ g.child[b] = h.child[b]
  /\ \A y \in T :
       /\ g.kind[f[y]] = h.kind[y] /\ g.name[f[y]] = h.name[y]
       /\ g.next[f[y]] = IF y # x /\ h.next[y] \in T \ {x} THEN f[h.next[y]] ELSE NULL
       /\ g.prev[f[y]] = IF y # x /\ h.prev[y] \in T \ {x} THEN f[h.prev[y]] ELSE NULL
       /\ g.child[f[y]] = IF h.child[y] \in T \ {x} THEN f[h.child[y]] ELSE NULL

\* The lists of the copies are those of the items.
Doubled(K, L, T, f) ==
  /\ \A b \in Items : b \notin {f[y] : y \in T} => L[b] = K[b]
  /\ \A z \in T : L[f[z]] = [i \in 1..Len(K[z]) |-> f[K[z][i]]]

\* There are such lists, and what is in them.
LEMMA Doubles ==
  ASSUME NEW h, NEW K, NEW R, Forest(h, K, R), NEW x, NEW T, Tree(h, K, x, T), NEW f, Renaming(h, f, T)
  PROVE  \E L : Lists(L) /\ Doubled(K, L, T, f)
<1> DEFINE new == {f[y] : y \in T}
           orig(b) == CHOOSE z \in T : f[z] = b
           L == [b \in Items |-> IF b \in new THEN [i \in 1..Len(K[orig(b)]) |-> f[K[orig(b)][i]]] ELSE K[b]]
<1>1. /\ Lists(K) /\ T \subseteq Items /\ f \in [T -> Items \ h.live] /\ Downward(K, T)
      /\ \A y, z \in T : f[y] = f[z] => y = z
  BY DEF Forest, Fields, Tree, Renaming
<1>2. \A z \in T : orig(f[z]) = z /\ f[z] \in Items /\ f[z] \in new
  BY <1>1
<1>3. \A b \in new : orig(b) \in T
  OBVIOUS
<1> HIDE DEF orig
<1>4. ASSUME NEW z \in T PROVE [i \in 1..Len(K[z]) |-> f[K[z][i]]] \in Seq(Items)
  <2>1. Len(K[z]) \in Nat
    BY <1>1, EachList
  <2>2. \A i \in 1..Len(K[z]) : K[z][i] \in T
    BY <1>1 DEF Downward, In
  <2>3. \A i \in 1..Len(K[z]) : f[K[z][i]] \in Items
    BY <1>1, <2>2
  <2> DEFINE n == Len(K[z])
             G == [i \in 1..n |-> f[K[z][i]]]
  <2>4. G \in [1..n -> Items] /\ n \in Nat
    BY <2>1, <2>3
  <2> HIDE DEF n, G
  <2>5. G \in Seq(Items)
    BY <2>4
  <2> QED BY <2>5 DEF n, G
<1>5. Lists(L)
  <2>1. \A b \in Items : b \in new => [i \in 1..Len(K[orig(b)]) |-> f[K[orig(b)][i]]] \in Seq(Items)
    BY <1>3, <1>4
  <2>2. \A b \in Items : K[b] \in Seq(Items)
    BY <1>1 DEF Lists
  <2> HIDE DEF new
  <2> QED BY <2>1, <2>2 DEF Lists
<1>6. Doubled(K, L, T, f)
  <2>1. \A b \in Items : b \notin new => L[b] = K[b]
    OBVIOUS
  <2>2. \A z \in T : L[f[z]] = [i \in 1..Len(K[z]) |-> f[K[z][i]]]
    <3> HIDE DEF new
    <3> QED BY <1>2
  <2> QED BY <2>1, <2>2 DEF Doubled
<1> HIDE DEF L
<1> QED BY <1>5, <1>6

\* The items in the lists of the copies are what Doubled says of them.
Mirrors(K, L, x, T, f) ==
  /\ \A b \in Items : b \notin {f[y] : y \in T} => \A y : In(L, b, y) <=> In(K, b, y)
  /\ \A z \in T : \A y : In(L, f[z], y) <=> \E w \in T \ {x} : y = f[w] /\ In(K, z, w)

\* What is in the lists of the copies.
LEMMA InDoubled ==
  ASSUME NEW h, NEW K, NEW R, Forest(h, K, R), NEW x, NEW T, Tree(h, K, x, T), NEW f, Renaming(h, f, T),
         NEW L, Lists(L), Doubled(K, L, T, f)
  PROVE  /\ Mirrors(K, L, x, T, f)
         /\ \A z \in T : /\ Len(L[f[z]]) = Len(K[z])
                         /\ \A i \in 1..Len(K[z]) : L[f[z]][i] = f[K[z][i]] /\ K[z][i] \in T \ {x}
<1>1. /\ Lists(K) /\ T \subseteq Items /\ Downward(K, T) /\ \A z \in T : ~In(K, z, x)
  BY DEF Forest, Fields, Tree
<1>2. /\ \A b \in Items : b \notin {f[y] : y \in T} => L[b] = K[b]
      /\ \A z \in T : L[f[z]] = [i \in 1..Len(K[z]) |-> f[K[z][i]]]
  BY DEF Doubled
<1>3. \A b \in Items : b \notin {f[y] : y \in T} => \A y : In(L, b, y) <=> In(K, b, y)
  BY <1>2 DEF In
<1>4. ASSUME NEW z \in T
      PROVE  /\ Len(L[f[z]]) = Len(K[z])
             /\ \A i \in 1..Len(K[z]) : L[f[z]][i] = f[K[z][i]] /\ K[z][i] \in T \ {x}
  <2>1. Len(K[z]) \in Nat /\ f[z] \in Items
    BY <1>1, EachList DEF Renaming
  <2>2. L[f[z]] \in Seq(Items)
    BY <2>1, EachList
  <2> DEFINE n == Len(K[z])
             s == L[f[z]]
  <2>3. s = [i \in 1..n |-> f[K[z][i]]] /\ n \in Nat /\ s \in Seq(Items)
    BY <1>2, <2>1, <2>2
  <2> HIDE DEF n, s
  <2>4. Len(s) = n /\ \A i \in 1..n : s[i] = f[K[z][i]]
    BY <2>3
  <2>5. \A i \in 1..n : K[z][i] \in T \ {x}
    BY <1>1 DEF Downward, In, n
  <2> QED BY <2>4, <2>5 DEF n, s
<1>5. ASSUME NEW z \in T
      PROVE  \A y : In(L, f[z], y) <=> \E w \in T \ {x} : y = f[w] /\ In(K, z, w)
  <2> SUFFICES ASSUME NEW y PROVE In(L, f[z], y) <=> \E w \in T \ {x} : y = f[w] /\ In(K, z, w)
    OBVIOUS
  <2>1. ASSUME In(L, f[z], y) PROVE \E w \in T \ {x} : y = f[w] /\ In(K, z, w)
    <3>1. PICK i \in 1..Len(K[z]) : L[f[z]][i] = y
      BY <1>4, <2>1 DEF In
    <3>2. K[z][i] \in T \ {x} /\ y = f[K[z][i]] /\ In(K, z, K[z][i])
      BY <1>4, <3>1 DEF In
    <3> QED BY <3>2
  <2>2. ASSUME NEW w \in T \ {x}, y = f[w], In(K, z, w) PROVE In(L, f[z], y)
    <3>1. PICK i \in 1..Len(K[z]) : K[z][i] = w
      BY <2>2 DEF In
    <3>2. L[f[z]][i] = y /\ i \in 1..Len(L[f[z]])
      BY <1>4, <2>2, <3>1
    <3> QED BY <3>2 DEF In
  <2> QED BY <2>1, <2>2
<1>6. Mirrors(K, L, x, T, f)
  BY <1>3, <1>5 DEF Mirrors
<1> QED BY <1>4, <1>6

\* No item is in two lists.
LEMMA ApartDoubled ==
  ASSUME NEW h, NEW K, NEW R, Forest(h, K, R), NEW x, NEW T, Tree(h, K, x, T), NEW f, Renaming(h, f, T),
         NEW L, Lists(L), Doubled(K, L, T, f)
  PROVE  Apart(L)
<1> DEFINE new == {f[y] : y \in T}
<1>1. /\ Apart(K) /\ T \subseteq Items /\ h.live \subseteq Items /\ \A z \in T : f[z] \in Items /\ f[z] \notin h.live
      /\ \A y, z \in T : f[y] = f[z] => y = z
  BY DEF Forest, Fields, Tree, Renaming
<1>2. /\ \A b \in Items : b \notin new => L[b] = K[b]
      /\ \A z \in T : /\ Len(L[f[z]]) = Len(K[z])
                      /\ \A i \in 1..Len(K[z]) : L[f[z]][i] = f[K[z][i]] /\ K[z][i] \in T
  <2>1. \A b \in Items : b \notin new => L[b] = K[b]
    BY DEF Doubled
  <2>2. \A z \in T : /\ Len(L[f[z]]) = Len(K[z])
                     /\ \A i \in 1..Len(K[z]) : L[f[z]][i] = f[K[z][i]] /\ K[z][i] \in T \ {x}
    BY InDoubled
  <2> QED BY <2>1, <2>2
<1>3. \A b \in new : \E z \in T : b = f[z]
  OBVIOUS
<1> HIDE DEF new
<1> SUFFICES ASSUME NEW b \in Items, NEW c \in Items, NEW i \in 1..Len(L[b]), NEW j \in 1..Len(L[c]), L[b][i] = L[c][j]
             PROVE  b = c /\ i = j
  BY DEF Apart
<1>4. ASSUME NEW d \in Items, d \notin new, NEW k \in 1..Len(L[d]) PROVE L[d][k] \in h.live
  <2>1. L[d] = K[d]
    BY <1>2, <1>4
  <2> QED BY <2>1, <1>4, OneList
<1>5. ASSUME NEW d \in new, NEW k \in 1..Len(L[d]) PROVE L[d][k] \notin h.live
  <2>1. PICK z \in T : d = f[z]
    BY <1>3
  <2>2. k \in 1..Len(K[z])
    BY <1>2, <1>5, <2>1
  <2>3. L[d][k] = f[K[z][k]] /\ K[z][k] \in T
    BY <1>2, <2>1, <2>2
  <2> QED BY <1>1, <2>3
<1>6. CASE b \notin new /\ c \notin new
  <2>1. L[b] = K[b] /\ L[c] = K[c]
    BY <1>2, <1>6
  <2> QED BY <1>1, <2>1 DEF Apart
<1>7. CASE b \in new /\ c \in new
  <2>1. PICK y \in T : b = f[y]
    BY <1>3, <1>7
  <2>2. PICK z \in T : c = f[z]
    BY <1>3, <1>7
  <2>3. i \in 1..Len(K[y]) /\ j \in 1..Len(K[z])
    BY <1>2, <2>1, <2>2
  <2>4. L[b][i] = f[K[y][i]] /\ K[y][i] \in T /\ L[c][j] = f[K[z][j]] /\ K[z][j] \in T
    BY <1>2, <2>1, <2>2, <2>3
  <2>5. K[y][i] = K[z][j]
    BY <1>1, <2>4
  <2>6. y = z /\ i = j
    BY <1>1, <2>3, <2>5 DEF Apart
  <2> QED BY <2>1, <2>2, <2>6
<1>8. CASE (b \in new /\ c \notin new) \/ (b \notin new /\ c \in new)
  BY <1>4, <1>5, <1>8
<1> QED BY <1>6, <1>7, <1>8

\* Copies are below no copy of what they are not below.
LEMMA GroundedDoubled ==
  ASSUME NEW h, NEW K, NEW R, Forest(h, K, R), NEW x, NEW T, Tree(h, K, x, T), NEW f, Renaming(h, f, T),
         NEW L, Mirrors(K, L, x, T, f)
  PROVE  Grounded(L)
<1> DEFINE new == {f[y] : y \in T}
<1>1. /\ Grounded(K) /\ T \subseteq Items /\ h.live \subseteq Items /\ \A z \in T : f[z] \in Items /\ f[z] \notin h.live
      /\ \A y, z \in T : f[y] = f[z] => y = z
  BY DEF Forest, Fields, Tree, Renaming
<1>2. /\ \A b \in Items : b \notin new => \A y : In(L, b, y) <=> In(K, b, y)
      /\ \A z \in T : \A y : In(L, f[z], y) <=> \E w \in T \ {x} : y = f[w] /\ In(K, z, w)
  BY DEF Mirrors
<1> SUFFICES ASSUME NEW S \in SUBSET Items, \A y \in S : \E b \in S : In(L, b, y)
             PROVE  S = {}
  BY DEF Grounded
<1>3. S \ new = {}
  <2> DEFINE P == S \ new
  <2>1. ASSUME NEW y \in P PROVE \E b \in P : In(K, b, y)
    <3>1. PICK b \in S : In(L, b, y)
      OBVIOUS
    <3>2. CASE b \in new
      <4>1. PICK z \in T : b = f[z]
        BY <3>2
      <4>2. PICK w \in T \ {x} : y = f[w]
        BY <1>2, <3>1, <4>1
      <4> QED BY <4>2
    <3>3. CASE b \notin new
      BY <1>2, <3>1, <3>3
    <3> QED BY <3>2, <3>3
  <2>2. P \in SUBSET Items
    OBVIOUS
  <2> HIDE DEF P
  <2>3. P = {}
    BY <1>1, <2>1, <2>2 DEF Grounded
  <2> QED BY <2>3 DEF P
<1>4. {w \in T : f[w] \in S} = {}
  <2> DEFINE P == {w \in T : f[w] \in S}
  <2>1. ASSUME NEW w \in P PROVE \E z \in P : In(K, z, w)
    <3>1. PICK b \in S : In(L, b, f[w])
      OBVIOUS
    <3>2. PICK z \in T : b = f[z]
      BY <1>3
    <3>3. PICK v \in T \ {x} : f[w] = f[v] /\ In(K, z, v)
      BY <1>2, <3>1, <3>2
    <3>4. w = v
      BY <1>1, <3>3
    <3> QED BY <3>2, <3>3, <3>4
  <2>2. P \in SUBSET Items
    BY <1>1
  <2> HIDE DEF P
  <2>3. P = {}
    BY <1>1, <2>1, <2>2 DEF Grounded
  <2> QED BY <2>3 DEF P
<1> QED BY <1>3, <1>4

\* The roots are those before and the copy of x.
LEMMA OwnedDoubled ==
  ASSUME NEW h, NEW K, NEW R, Forest(h, K, R), NEW x, NEW T, Tree(h, K, x, T), NEW f, Renaming(h, f, T),
         NEW L, Mirrors(K, L, x, T, f), NEW g, Copied(h, g, x, T, f)
  PROVE  Owned(g, L, R \union {f[x]})
<1> DEFINE new == {f[y] : y \in T}
<1>1. /\ Owned(h, K, R) /\ T \subseteq Items /\ h.live \subseteq Items /\ x \in T
      /\ \A z \in T : f[z] \in Items /\ f[z] \notin h.live
      /\ \A y, z \in T : f[y] = f[z] => y = z
      /\ \A y \in T : y # x => \E b \in T : In(K, b, y)
  BY DEF Forest, Fields, Tree, Renaming
<1>2. /\ \A b \in Items : b \notin new => \A y : In(L, b, y) <=> In(K, b, y)
      /\ \A z \in T : \A y : In(L, f[z], y) <=> \E w \in T \ {x} : y = f[w] /\ In(K, z, w)
  BY DEF Mirrors
<1>3. g.live = h.live \union new
  BY DEF Copied
<1>4. R \subseteq h.live /\ \A y \in Items : (\E b \in Items : In(K, b, y)) <=> y \in h.live \ R
  BY <1>1 DEF Owned
<1>5. R \union {f[x]} \subseteq g.live
  BY <1>1, <1>3, <1>4
<1>6. ASSUME NEW y \in Items, y \in new
      PROVE  (\E b \in Items : In(L, b, y)) <=> y \in g.live \ (R \union {f[x]})
  <2>1. PICK w \in T : y = f[w]
    BY <1>6
  <2>2. y \notin h.live /\ y \notin R /\ y \in g.live
    BY <1>1, <1>3, <1>4, <2>1
  <2>3. CASE w = x
    <3>1. ASSUME NEW b \in Items, In(L, b, y) PROVE FALSE
      <4>1. CASE b \in new
        <5>1. PICK z \in T : b = f[z]
          BY <4>1
        <5>2. PICK v \in T \ {x} : y = f[v]
          BY <1>2, <3>1, <5>1
        <5> QED BY <1>1, <2>1, <2>3, <5>2
      <4>2. CASE b \notin new
        <5>1. In(K, b, y)
          BY <1>2, <3>1, <4>2
        <5> QED BY <1>4, <2>2, <5>1
      <4> QED BY <4>1, <4>2
    <3> QED BY <2>1, <2>3, <3>1
  <2>4. CASE w # x
    <3>1. PICK z \in T : In(K, z, w)
      BY <1>1, <2>4
    <3>2. In(L, f[z], y) /\ f[z] \in Items
      BY <1>1, <1>2, <2>1, <2>4, <3>1
    <3>3. y # f[x]
      BY <1>1, <2>1, <2>4
    <3> QED BY <2>2, <3>2, <3>3
  <2> QED BY <2>3, <2>4
<1>7. ASSUME NEW y \in Items, y \notin new
      PROVE  (\E b \in Items : In(L, b, y)) <=> y \in g.live \ (R \union {f[x]})
  <2>1. ASSUME NEW b \in Items, In(L, b, y) PROVE In(K, b, y)
    <3>1. CASE b \in new
      <4>1. PICK z \in T : b = f[z]
        BY <3>1
      <4>2. PICK v \in T \ {x} : y = f[v]
        BY <1>2, <2>1, <4>1
      <4> QED BY <1>7, <4>2
    <3>2. CASE b \notin new
      BY <1>2, <2>1, <3>2
    <3> QED BY <3>1, <3>2
  <2>2. ASSUME NEW b \in Items, In(K, b, y) PROVE In(L, b, y)
    <3>1. b \in h.live
      <4>1. PICK i \in 1..Len(K[b]) : K[b][i] = y
        BY <2>2 DEF In
      <4>2. Len(K[b]) # 0
        <5>1. Len(K[b]) \in Nat
          BY EachList DEF Forest
        <5> QED BY <4>1, <5>1
      <4> QED BY <4>2 DEF Forest, Listed, Holder
    <3>2. b \notin new
      BY <1>1, <3>1
    <3> QED BY <1>2, <2>2, <3>2
  <2>3. (\E b \in Items : In(L, b, y)) <=> (\E b \in Items : In(K, b, y))
    BY <2>1, <2>2
  <2>4. y # f[x]
    BY <1>1, <1>7
  <2> QED BY <1>3, <1>4, <1>7, <2>3, <2>4
<1> QED BY <1>5, <1>6, <1>7 DEF Owned

\* The copies of a list are linked as the list is.
LEMMA ListDoubled ==
  ASSUME NEW h, NEW x, NEW T, NULL \notin T, NEW f, NEW g, Copied(h, g, x, T, f),
         NEW z \in T, NEW s, Len(s) \in Nat, \A i \in 1..Len(s) : s[i] \in T \ {x}, ListOf(h, z, s),
         NEW t, Len(t) = Len(s), \A i \in 1..Len(s) : t[i] = f[s[i]]
  PROVE  ListOf(g, f[z], t)
<1> DEFINE n == Len(s)
<1>1. /\ n \in Nat /\ Len(t) = n /\ (\A i \in 1..n : s[i] \in T \ {x} /\ t[i] = f[s[i]])
      /\ h.child[z] = IF n = 0 THEN NULL ELSE s[1]
      /\ \A i \in 1..n : /\ h.next[s[i]] = IF i < n THEN s[i + 1] ELSE NULL
                         /\ h.prev[s[i]] = IF i = 1 THEN s[n] ELSE s[i - 1]
  BY DEF ListOf
<1>2. \A y \in T :
       /\ g.next[f[y]] = IF y # x /\ h.next[y] \in T \ {x} THEN f[h.next[y]] ELSE NULL
       /\ g.prev[f[y]] = IF y # x /\ h.prev[y] \in T \ {x} THEN f[h.prev[y]] ELSE NULL
       /\ g.child[f[y]] = IF h.child[y] \in T \ {x} THEN f[h.child[y]] ELSE NULL
  BY DEF Copied
<1> HIDE DEF n
<1>3. g.child[f[z]] = IF n = 0 THEN NULL ELSE t[1]
  <2>1. CASE n = 0
    BY <1>1, <1>2, <2>1
  <2>2. CASE n # 0
    <3>1. 1 \in 1..n
      BY <1>1, <2>2
    <3>2. h.child[z] = s[1] /\ s[1] \in T \ {x} /\ t[1] = f[s[1]]
      BY <1>1, <2>2, <3>1
    <3> QED BY <1>2, <2>2, <3>2
  <2> QED BY <2>1, <2>2
<1>4. ASSUME NEW i \in 1..n
      PROVE  /\ g.next[t[i]] = IF i < n THEN t[i + 1] ELSE NULL
             /\ g.prev[t[i]] = IF i = 1 THEN t[n] ELSE t[i - 1]
  <2>1. s[i] \in T /\ s[i] # x /\ t[i] = f[s[i]]
    BY <1>1
  <2>2. g.next[t[i]] = IF i < n THEN t[i + 1] ELSE NULL
    <3>1. CASE i < n
      <4>1. i + 1 \in 1..n
        BY <1>1, <3>1
      <4>2. h.next[s[i]] = s[i + 1] /\ s[i + 1] \in T \ {x} /\ t[i + 1] = f[s[i + 1]]
        BY <1>1, <3>1, <4>1
      <4> QED BY <1>2, <2>1, <3>1, <4>2
    <3>2. CASE ~(i < n)
      BY <1>1, <1>2, <2>1, <3>2
    <3> QED BY <3>1, <3>2
  <2>3. g.prev[t[i]] = IF i = 1 THEN t[n] ELSE t[i - 1]
    <3>1. CASE i = 1
      <4>1. n \in 1..n
        BY <1>1, <3>1
      <4>2. h.prev[s[i]] = s[n] /\ s[n] \in T \ {x} /\ t[n] = f[s[n]]
        BY <1>1, <3>1, <4>1
      <4> QED BY <1>2, <2>1, <3>1, <4>2
    <3>2. CASE i # 1
      <4>1. i - 1 \in 1..n
        BY <1>1, <3>2
      <4>2. h.prev[s[i]] = s[i - 1] /\ s[i - 1] \in T \ {x} /\ t[i - 1] = f[s[i - 1]]
        BY <1>1, <3>2, <4>1
      <4> QED BY <1>2, <2>1, <3>2, <4>2
    <3> QED BY <3>1, <3>2
  <2> QED BY <2>2, <2>3
<1> QED BY <1>1, <1>3, <1>4 DEF ListOf

\* So every item has its list.
LEMMA ListedDoubled ==
  ASSUME NEW h, NEW K, NEW R, Forest(h, K, R), NEW x, NEW T, Tree(h, K, x, T), NEW f, Renaming(h, f, T),
         NEW L, Lists(L), Doubled(K, L, T, f), NEW g, Copied(h, g, x, T, f)
  PROVE  Listed(g, L)
<1> DEFINE new == {f[y] : y \in T}
<1>1. /\ Listed(h, K) /\ Loose(h, R) /\ T \subseteq Items /\ h.live \subseteq Items /\ T \subseteq h.live /\ NULL \notin T
      /\ \A z \in T : f[z] \in Items /\ f[z] \notin h.live /\ ~h.ref[z]
  BY CJsonAssumption DEF Forest, Fields, Tree, Renaming
<1>2. /\ g.live = h.live \union new /\ g.ref = h.ref
      /\ \A b \in Items : b \notin new =>
           /\ g.kind[b] = h.kind[b] /\ g.next[b] = h.next[b] /\ g.prev[b] = h.prev[b] /\ g.child[b] = h.child[b]
      /\ \A y \in T : /\ g.kind[f[y]] = h.kind[y]
                      /\ g.child[f[y]] = IF h.child[y] \in T \ {x} THEN f[h.child[y]] ELSE NULL
  BY DEF Copied
<1>3. \A b \in Items : b \notin new => L[b] = K[b]
  BY DEF Doubled
<1>4. \A z \in T : /\ Len(L[f[z]]) = Len(K[z])
                   /\ \A i \in 1..Len(K[z]) : L[f[z]][i] = f[K[z][i]] /\ K[z][i] \in T \ {x}
  BY InDoubled
<1>5. \A b \in new : \E z \in T : b = f[z]
  OBVIOUS
<1>6. \A z \in T : f[z] \in new
  OBVIOUS
<1> HIDE DEF new
<1> SUFFICES ASSUME NEW b \in Items
             PROVE  IF Holder(g, b) THEN ListOf(g, b, L[b])
                    ELSE Len(L[b]) = 0 /\ (g.ref[b] \/ g.child[b] = NULL)
  BY DEF Listed
<1>7. CASE b \in new
  <2>1. PICK z \in T : b = f[z]
    BY <1>5, <1>7
  <2>2. ~h.ref[b] /\ z \in h.live /\ ~h.ref[z]
    BY <1>1, <2>1 DEF Loose
  <2>3. Holder(g, b) <=> Holder(h, z)
    BY <1>2, <1>7, <2>1, <2>2 DEF Holder
  <2>4. CASE ~Holder(h, z)
    <3>1. Len(K[z]) = 0 /\ h.child[z] = NULL
      BY <1>1, <2>2, <2>4 DEF Listed
    <3>2. Len(L[b]) = 0 /\ g.child[b] = NULL
      BY <1>1, <1>2, <1>4, <2>1, <3>1
    <3> QED BY <2>3, <2>4, <3>2
  <2>5. CASE Holder(h, z)
    <3>1. ListOf(h, z, K[z]) /\ Len(K[z]) \in Nat
      BY <1>1, <2>5, EachList DEF Listed, Forest
    <3>2. ListOf(g, f[z], L[f[z]])
      <4> DEFINE s == K[z]
                 t == L[f[z]]
      <4>1. Len(s) \in Nat /\ (\A i \in 1..Len(s) : s[i] \in T \ {x}) /\ ListOf(h, z, s)
            /\ Len(t) = Len(s) /\ \A i \in 1..Len(s) : t[i] = f[s[i]]
        BY <1>4, <3>1
      <4> HIDE DEF s, t
      <4>2. ListOf(g, f[z], t)
        BY <1>1, <4>1, ListDoubled
      <4> QED BY <4>2 DEF t
    <3> QED BY <2>1, <2>3, <2>5, <3>2
  <2> QED BY <2>4, <2>5
<1>8. CASE b \notin new
  <2>1. Holder(g, b) <=> Holder(h, b)
    BY <1>2, <1>8 DEF Holder
  <2>2. L[b] = K[b]
    BY <1>3, <1>8
  <2>3. CASE ~Holder(h, b)
    BY <1>1, <1>2, <1>8, <2>1, <2>2, <2>3 DEF Listed
  <2>4. CASE Holder(h, b)
    <3>1. ListOf(h, b, K[b])
      BY <1>1, <2>4 DEF Listed
    <3>2. ASSUME NEW i \in 1..Len(K[b])
          PROVE  g.next[K[b][i]] = h.next[K[b][i]] /\ g.prev[K[b][i]] = h.prev[K[b][i]]
      <4>1. K[b][i] \in Items /\ K[b][i] \in h.live
        BY OneList
      <4>2. K[b][i] \notin new
        BY <1>1, <1>5, <4>1
      <4> QED BY <1>2, <4>1, <4>2
    <3>3. ListOf(g, b, K[b])
      BY <1>2, <1>8, <3>1, <3>2, OtherList
    <3> QED BY <2>1, <2>2, <2>4, <3>3
  <2> QED BY <2>3, <2>4
<1> QED BY <1>7, <1>8

\* The copy of a tree makes the forest larger by it.
LEMMA StateCopy ==
  ASSUME NEW h, NEW K, NEW R, NEW N, State(h, K, R, N), NEW x, NEW T, Tree(h, K, x, T),
         NEW f, Renaming(h, f, T), NEW g, Copied(h, g, x, T, f)
  PROVE  \E L : State(g, L, R \union {f[x]}, N \union Image(N \intersect T, f))
<1>1. Forest(h, K, R) /\ Named(h, K, N)
  BY DEF State
<1>2. PICK L : Lists(L) /\ Doubled(K, L, T, f)
  BY <1>1, Doubles
<1>3. Mirrors(K, L, x, T, f)
  BY <1>1, <1>2, InDoubled
<1>4. Apart(L)
  BY <1>1, <1>2, ApartDoubled
<1>5. Grounded(L)
  BY <1>1, <1>3, GroundedDoubled
<1>6. Listed(g, L)
  BY <1>1, <1>2, ListedDoubled
<1>7. Owned(g, L, R \union {f[x]})
  BY <1>1, <1>3, OwnedDoubled
<1> DEFINE new == {f[y] : y \in T}
<1>8. /\ R \subseteq h.live /\ h.live \subseteq Items /\ x \in T /\ T \subseteq h.live /\ Loose(h, R)
      /\ \A z \in T : f[z] \in Items /\ f[z] \notin h.live
  BY <1>1 DEF Forest, Fields, Tree, Renaming, Owned
<1>9. /\ Fields(g) /\ g.live = h.live \union new /\ g.ref = h.ref
      /\ \A b \in Items : b \notin new => g.next[b] = h.next[b] /\ g.name[b] = h.name[b] /\ g.kind[b] = h.kind[b]
      /\ \A y \in T : g.name[f[y]] = h.name[y] /\ g.kind[f[y]] = h.kind[y]
      /\ g.next[f[x]] = NULL
  BY <1>8 DEF Copied
<1>10. \A b \in new : \E z \in T : b = f[z]
  OBVIOUS
<1>11. f[x] \in new
  BY <1>8
<1> HIDE DEF new
<1>12. Loose(g, R \union {f[x]})
  <2> SUFFICES ASSUME NEW y \in Items
               PROVE  (y \in R \union {f[x]} => g.next[y] = NULL) /\ (y \notin g.live => g.next[y] = NULL /\ ~g.ref[y])
    BY DEF Loose
  <2>1. y \in R => y \notin new
    BY <1>8, <1>10
  <2> QED BY <1>8, <1>9, <2>1 DEF Loose
<1> DEFINE M == N \union Image(N \intersect T, f)
<1>13. Named(g, L, M)
  <2> SUFFICES ASSUME NEW o \in Items, NEW y, Holder(g, o), g.kind[o] = "object", In(L, o, y)
               PROVE  g.name[y] # NoName \/ y \in M
    BY DEF Named
  <2>1. CASE o \in new
    <3>1. PICK z \in T : o = f[z]
      BY <1>10, <2>1
    <3>2. PICK w \in T \ {x} : y = f[w] /\ In(K, z, w)
      BY <1>3, <3>1 DEF Mirrors
    <3>3. z \in Items /\ z \in h.live /\ ~h.ref[z] /\ h.kind[z] = "object"
      BY <1>8, <1>9, <3>1 DEF Tree
    <3>4. h.name[w] # NoName \/ w \in N
      BY <1>1, <3>2, <3>3 DEF Named, Holder
    <3>5. g.name[y] = h.name[w]
      BY <1>9, <3>2
    <3> QED BY <3>2, <3>4, <3>5 DEF Image
  <2>2. CASE o \notin new
    <3>1. Holder(h, o) /\ h.kind[o] = "object"
      BY <1>9, <2>2 DEF Holder
    <3>2. In(K, o, y)
      BY <1>3, <2>2 DEF Mirrors, new
    <3>3. y \in h.live /\ y \in Items
      <4>1. PICK i \in 1..Len(K[o]) : K[o][i] = y
        BY <3>2 DEF In
      <4> QED BY <1>1, <4>1, OneList
    <3>4. y \notin new
      BY <1>8, <1>10, <3>3
    <3>5. h.name[y] # NoName \/ y \in N
      BY <1>1, <3>1, <3>2 DEF Named
    <3> QED BY <1>9, <3>3, <3>4, <3>5
  <2> QED BY <2>1, <2>2
<1>14. Forest(g, L, R \union {f[x]})
  BY <1>2, <1>4, <1>5, <1>6, <1>7, <1>9, <1>12 DEF Forest
<1> HIDE DEF M
<1>15. State(g, L, R \union {f[x]}, M)
  BY <1>13, <1>14 DEF State
<1> QED BY <1>15 DEF M

\* An item and what cJSON_Duplicate reaches from it.
TreeOf(h, x) == {x} \union UNION {Chain(h, y) : y \in {h.child[x]} \ {NULL}}

\* It is the item and all that is below.
LEMMA TreeIs ==
  ASSUME NEW h, NEW K, NEW R, Forest(h, K, R), NEW x \in h.live, \A y \in TreeOf(h, x) : ~h.ref[y]
  PROVE  Tree(h, K, x, TreeOf(h, x))
<1> DEFINE T == TreeOf(h, x)
<1>1. /\ Listed(h, K) /\ Grounded(K) /\ Owned(h, K, R) /\ h.live \subseteq Items /\ Fields(h)
      /\ \A y \in T : ~h.ref[y]
  BY DEF Forest, Fields
<1>2. x \in Items /\ x \in T /\ h.child[x] \in Items \union {NULL}
  BY <1>1 DEF TreeOf, Fields
<1>3. T \subseteq Items /\ Downward(K, T) /\ \A y \in T : y # x => \E b \in T : In(K, b, y)
  <2>1. CASE h.child[x] = NULL
    <3>1. T = {x}
      BY <2>1 DEF TreeOf
    <3>2. Len(K[x]) = 0
      <4>1. CASE Holder(h, x)
        <5>1. Len(K[x]) \in Nat /\ ListOf(h, x, K[x]) /\ \A i \in 1..Len(K[x]) : K[x][i] # NULL
          BY <1>1, <4>1, Within
        <5>2. Len(K[x]) # 0 => 1 \in 1..Len(K[x])
          BY <5>1
        <5> QED BY <2>1, <5>1, <5>2 DEF ListOf
      <4>2. CASE ~Holder(h, x)
        BY <1>1, <1>2, <4>2 DEF Listed
      <4> QED BY <4>1, <4>2
    <3>3. 1..Len(K[x]) = {}
      BY <3>2
    <3> QED BY <1>2, <3>1, <3>3 DEF Downward, In
  <2>2. CASE h.child[x] # NULL
    <3> DEFINE c == h.child[x]
               C == Chain(h, c)
    <3>1. c \in Items /\ T = {x} \union C
      BY <1>2, <2>2 DEF TreeOf
    <3>2. /\ c \in C /\ C \subseteq Items /\ Closed(h, C)
          /\ \A S : c \in S /\ Closed(h, S) => C \subseteq S
      BY <1>1, <3>1, ChainIs
    <3>3. Holder(h, x)
      BY <1>1, <1>2, <2>2 DEF Listed
    <3>4. Len(K[x]) \in Nat /\ Len(K[x]) # 0 /\ K[x][1] = c /\ In(K, x, c)
      <4>1. Len(K[x]) \in Nat /\ ListOf(h, x, K[x])
        BY <3>3, Within
      <4>2. Len(K[x]) # 0 /\ K[x][1] = c
        BY <2>2, <4>1 DEF ListOf
      <4>3. 1 \in 1..Len(K[x])
        BY <4>1, <4>2
      <4> QED BY <4>1, <4>2, <4>3 DEF In
    <3> HIDE DEF T, C, c
    <3>5. \A y : In(K, x, y) => y \in C
      <4>1. Len(K[x]) > 0 => K[x][1] \in C
        BY <3>2, <3>4
      <4> QED BY <1>2, <3>2, <4>1, ListClosed
    <3>6. \A a \in C : \A y : In(K, a, y) => y \in C
      BY <3>2, ClosedBelow
    <3> DEFINE P == {y \in C : \E b \in T : In(K, b, y)}
    <3>7. Closed(h, P)
      <4> SUFFICES ASSUME NEW y \in P
                   PROVE  h.next[y] \in P \union {NULL} /\ (~h.ref[y] => h.child[y] \in P \union {NULL})
        BY DEF Closed
      <4>1. y \in C /\ y \in Items /\ h.next[y] \in C \union {NULL} /\ (~h.ref[y] => h.child[y] \in C \union {NULL})
        BY <3>2 DEF Closed
      <4>2. h.next[y] \in P \union {NULL}
        <5>1. PICK b \in T : In(K, b, y)
          OBVIOUS
        <5>2. PICK i \in 1..Len(K[b]) : K[b][i] = y
          BY <5>1 DEF In
        <5>3. b \in Items /\ Len(K[b]) \in Nat
          BY <1>2, <3>1, <3>2, EachList DEF Forest
        <5>4. h.next[y] = IF i < Len(K[b]) THEN K[b][i + 1] ELSE NULL
          BY <5>2, <5>3 DEF Forest, Listed, ListOf
        <5>5. i < Len(K[b]) => i + 1 \in 1..Len(K[b])
          BY <5>2, <5>3
        <5>6. h.next[y] # NULL => In(K, b, h.next[y])
          BY <5>4, <5>5 DEF In
        <5> QED BY <4>1, <5>6
      <4>3. ASSUME ~h.ref[y] PROVE h.child[y] \in P \union {NULL}
        <5>1. CASE Holder(h, y)
          <6>1. Len(K[y]) \in Nat /\ h.child[y] = IF Len(K[y]) = 0 THEN NULL ELSE K[y][1]
            BY <4>1, <5>1, EachList DEF Forest, Listed, ListOf
          <6>2. h.child[y] # NULL => In(K, y, h.child[y])
            <7>1. Len(K[y]) # 0 => 1 \in 1..Len(K[y])
              BY <6>1
            <7> QED BY <6>1, <7>1 DEF In
          <6> QED BY <3>1, <4>1, <4>3, <6>2
        <5>2. CASE ~Holder(h, y)
          BY <4>1, <4>3, <5>2 DEF Forest, Listed
        <5> QED BY <5>1, <5>2
      <4> QED BY <4>2, <4>3
    <3>8. C \subseteq P
      <4>1. c \in P
        BY <1>2, <3>2, <3>4
      <4> HIDE DEF P
      <4> QED BY <3>2, <3>7, <4>1
    <3> QED BY <1>2, <3>1, <3>2, <3>5, <3>6, <3>8 DEF Downward
  <2> QED BY <2>1, <2>2
<1> HIDE DEF T
<1>4. \A y \in T : ~In(K, y, x)
  <2> SUFFICES ASSUME NEW b \in T, In(K, b, x) PROVE FALSE
    OBVIOUS
  <2>1. T \in SUBSET Items /\ \A y \in T : \E a \in T : In(K, a, y)
    BY <1>3
  <2>2. T = {}
    BY <1>1, <2>1 DEF Grounded
  <2> QED BY <2>2
<1>5. T \subseteq h.live
  <2> SUFFICES ASSUME NEW y \in T, y # x PROVE y \in h.live
    OBVIOUS
  <2>1. \E b \in Items : In(K, b, y)
    BY <1>3
  <2> QED BY <1>1, <1>3, <2>1 DEF Owned
<1>6. \A y \in T : ~h.ref[y] /\ ~In(K, y, x) /\ (y # x => \E b \in T : In(K, b, y))
  BY <1>1, <1>3, <1>4
<1> QED BY <1>2, <1>3, <1>5, <1>6 DEF Tree, T

\* There is an injection into a set that is no smaller.
LEMMA InjectionExists ==
  ASSUME NEW S, NEW T, IsFiniteSet(S), IsFiniteSet(T), Cardinality(S) <= Cardinality(T)
  PROVE  \E g \in [S -> T] : IsInjective(g)
<1> DEFINE m == Cardinality(S)
           n == Cardinality(T)
<1>1. m \in Nat /\ n \in Nat /\ m <= n /\ ExistsBijection(1..m, S) /\ ExistsBijection(1..n, T)
  BY FS_CardinalityType
<1> HIDE DEF m, n
<1>2. ExistsBijection(S, 1..m)
  BY <1>1, Fun_ExistsBijSymmetric
<1>3. ExistsInjection(S, 1..m) /\ ExistsInjection(1..n, T)
  BY <1>1, <1>2 DEF ExistsBijection, ExistsInjection, Bijection
<1>4. ExistsInjection(1..m, 1..n)
  <2> DEFINE g == [i \in 1..m |-> i]
  <2>1. g \in [1..m -> 1..n]
    BY <1>1
  <2>2. g \in Injection(1..m, 1..n)
    BY <2>1 DEF Injection, IsInjective
  <2> QED BY <2>2 DEF ExistsInjection
<1>5. ExistsInjection(S, T)
  <2>1. ExistsInjection(S, 1..n)
    BY <1>3, <1>4, Fun_ExistsInjTransitive
  <2> QED BY <1>3, <2>1, Fun_ExistsInjTransitive
<1> QED BY <1>5 DEF ExistsInjection, Injection

\* A field of the copies, and a pointer of theirs.
Same(T, f, field) == [y \in Items |-> IF y \in Image(T, f) THEN field[CHOOSE z \in T : f[z] = y] ELSE field[y]]
Pointer(T, f, x, field) ==
  [y \in Items |-> IF y \notin Image(T, f) THEN field[y]
                   ELSE IF Same(T, f, field)[y] \in T \ {x} THEN f[Same(T, f, field)[y]] ELSE NULL]

\* s is field with what T has there for the copies too, or copies of it.
Extended(s, field, V, T, f) ==
  /\ s \in [Items -> V]
  /\ \A b \in Items : b \notin Image(T, f) => s[b] = field[b]
  /\ \A z \in T : f[z] \in Items /\ f[z] \in Image(T, f) /\ s[f[z]] = field[z]

Led(s, field, T, f, x) ==
  /\ s \in [Items -> Items \union {NULL}]
  /\ \A b \in Items : b \notin Image(T, f) => s[b] = field[b]
  /\ \A z \in T : s[f[z]] = IF field[z] \in T \ {x} THEN f[field[z]] ELSE NULL

\* The copies have what the items have.
LEMMA SameIs ==
  ASSUME NEW h, Fields(h), NEW T, T \subseteq Items, NEW f, Renaming(h, f, T), NEW V, NEW field \in [Items -> V]
  PROVE  Extended(Same(T, f, field), field, V, T, f)
<1> DEFINE new == Image(T, f)
           orig(y) == CHOOSE z \in T : f[z] = y
<1>1. f \in [T -> Items \ h.live] /\ \A y, z \in T : f[y] = f[z] => y = z
  BY DEF Renaming
<1>2. \A z \in T : orig(f[z]) = z /\ f[z] \in Items /\ f[z] \in new
  BY <1>1 DEF Image
<1>3. \A b \in new : orig(b) \in T
  BY DEF Image
<1>4. Same(T, f, field) = [y \in Items |-> IF y \in new THEN field[orig(y)] ELSE field[y]]
  BY DEF Same
<1> HIDE DEF new, orig
<1>5. Same(T, f, field) \in [Items -> V]
  BY <1>3, <1>4
<1>6. \A b \in Items : b \notin new => Same(T, f, field)[b] = field[b]
  BY <1>4
<1>7. \A z \in T : Same(T, f, field)[f[z]] = field[z]
  BY <1>2, <1>4
<1> QED BY <1>2, <1>5, <1>6, <1>7 DEF new, Extended

\* Their pointers lead to copies.
LEMMA PointerIs ==
  ASSUME NEW h, Fields(h), NEW T, T \subseteq Items, NEW f, Renaming(h, f, T), NEW x,
         NEW field \in [Items -> Items \union {NULL}]
  PROVE  Led(Pointer(T, f, x, field), field, T, f, x)
<1> DEFINE new == Image(T, f)
           s == Same(T, f, field)
           V == Items \union {NULL}
<1>1. f \in [T -> Items \ h.live]
  BY DEF Renaming
<1>2. /\ \A b \in Items : b \notin new => s[b] = field[b]
      /\ \A z \in T : f[z] \in Items /\ f[z] \in new /\ s[f[z]] = field[z]
  <2>1. field \in [Items -> V]
    OBVIOUS
  <2> HIDE DEF V
  <2>2. Extended(Same(T, f, field), field, V, T, f)
    BY <2>1, SameIs
  <2> QED BY <2>2 DEF Extended
<1>3. Pointer(T, f, x, field) = [y \in Items |-> IF y \notin new THEN field[y] ELSE IF s[y] \in T \ {x} THEN f[s[y]] ELSE NULL]
  BY DEF Pointer
<1> HIDE DEF new, s
<1>4. Pointer(T, f, x, field) \in [Items -> Items \union {NULL}]
  BY <1>1, <1>3
<1>5. \A b \in Items : b \notin new => Pointer(T, f, x, field)[b] = field[b]
  BY <1>3
<1>6. \A z \in T : Pointer(T, f, x, field)[f[z]] = IF field[z] \in T \ {x} THEN f[field[z]] ELSE NULL
  BY <1>2, <1>3
<1> QED BY <1>4, <1>5, <1>6 DEF new, Led

\* The heap with the copies of T.
WithCopies(h, x, T, f) ==
  [h EXCEPT !.live = @ \union Image(T, f), !.kind = Same(T, f, @), !.name = Same(T, f, @),
            !.next = [Pointer(T, f, x, @) EXCEPT ![f[x]] = NULL],
            !.prev = [Pointer(T, f, x, @) EXCEPT ![f[x]] = NULL],
            !.child = Pointer(T, f, x, @)]

\* What cJSON_Duplicate makes of the heap.
LEMMA DuplicateIs ==
  ASSUME NEW h, NEW K, NEW R, Forest(h, K, R), NEW x, NEW T, Tree(h, K, x, T), NEW f, Renaming(h, f, T),
         NEW g, g = WithCopies(h, x, T, f)
  PROVE  Copied(h, g, x, T, f)
<1> DEFINE kk == Same(T, f, h.kind)
           aa == Same(T, f, h.name)
           nn == [Pointer(T, f, x, h.next) EXCEPT ![f[x]] = NULL]
           pp == [Pointer(T, f, x, h.prev) EXCEPT ![f[x]] = NULL]
           cc == Pointer(T, f, x, h.child)
           V == Items \union {NULL}
           W == Names \union {NoName}
           new == Image(T, f)
<1>1. /\ h.kind \in [Items -> Kind] /\ h.name \in [Items -> W]
      /\ h.next \in [Items -> V] /\ h.prev \in [Items -> V] /\ h.child \in [Items -> V]
      /\ Fields(h) /\ h.live \subseteq Items
  BY DEF Forest, Fields
<1>2. /\ T \subseteq Items /\ x \in T /\ f \in [T -> Items \ h.live] /\ \A y, z \in T : f[y] = f[z] => y = z
  BY <1>1 DEF Tree, Renaming
<1>3. \A z \in T : f[z] \in Items /\ f[z] \in new
  BY <1>2 DEF Image
<1>4. new \subseteq Items
  BY <1>2 DEF Image
<1>5. /\ kk \in [Items -> Kind] /\ (\A b \in Items : b \notin new => kk[b] = h.kind[b])
      /\ \A z \in T : kk[f[z]] = h.kind[z]
  <2> HIDE DEF W, V
  <2>1. Extended(Same(T, f, h.kind), h.kind, Kind, T, f)
    BY <1>1, <1>2, SameIs
  <2> QED BY <2>1 DEF Extended
<1>6. /\ aa \in [Items -> W] /\ (\A b \in Items : b \notin new => aa[b] = h.name[b])
      /\ \A z \in T : aa[f[z]] = h.name[z]
  <2> HIDE DEF W, V
  <2>1. Extended(Same(T, f, h.name), h.name, W, T, f)
    BY <1>1, <1>2, SameIs
  <2> QED BY <2>1 DEF Extended
<1>7. /\ cc \in [Items -> V] /\ (\A b \in Items : b \notin new => cc[b] = h.child[b])
      /\ \A z \in T : cc[f[z]] = IF h.child[z] \in T \ {x} THEN f[h.child[z]] ELSE NULL
  <2>1. Led(Pointer(T, f, x, h.child), h.child, T, f, x)
    BY <1>1, <1>2, PointerIs
  <2> QED BY <2>1 DEF Led
<1>8. ASSUME NEW field \in [Items -> V]
      PROVE  /\ [Pointer(T, f, x, field) EXCEPT ![f[x]] = NULL] \in [Items -> V]
             /\ \A b \in Items : b \notin new => [Pointer(T, f, x, field) EXCEPT ![f[x]] = NULL][b] = field[b]
             /\ \A z \in T : [Pointer(T, f, x, field) EXCEPT ![f[x]] = NULL][f[z]]
                               = IF z # x /\ field[z] \in T \ {x} THEN f[field[z]] ELSE NULL
  <2> DEFINE q == Pointer(T, f, x, field)
             r == [q EXCEPT ![f[x]] = NULL]
  <2>1. /\ q \in [Items -> V] /\ (\A b \in Items : b \notin new => q[b] = field[b])
        /\ \A z \in T : q[f[z]] = IF field[z] \in T \ {x} THEN f[field[z]] ELSE NULL
    <3>1. Led(Pointer(T, f, x, field), field, T, f, x)
      BY <1>1, <1>2, <1>8, PointerIs
    <3> QED BY <3>1 DEF Led
  <2> HIDE DEF q
  <2>2. r \in [Items -> V]
    BY <2>1
  <2>3. \A b \in Items : b # f[x] => r[b] = q[b]
    BY <2>1
  <2>4. r[f[x]] = NULL
    BY <1>2, <1>3, <2>1
  <2> HIDE DEF r, new
  <2>5. \A b \in Items : b \notin new => r[b] = field[b]
    BY <1>2, <1>3, <2>1, <2>3
  <2>6. \A z \in T : r[f[z]] = IF z # x /\ field[z] \in T \ {x} THEN f[field[z]] ELSE NULL
    BY <1>2, <1>3, <2>1, <2>3, <2>4
  <2> QED BY <2>2, <2>5, <2>6 DEF r, q
<1>9. /\ nn \in [Items -> V] /\ (\A b \in Items : b \notin new => nn[b] = h.next[b])
      /\ \A z \in T : nn[f[z]] = IF z # x /\ h.next[z] \in T \ {x} THEN f[h.next[z]] ELSE NULL
  BY <1>1, <1>8
<1>10. /\ pp \in [Items -> V] /\ (\A b \in Items : b \notin new => pp[b] = h.prev[b])
       /\ \A z \in T : pp[f[z]] = IF z # x /\ h.prev[z] \in T \ {x} THEN f[h.prev[z]] ELSE NULL
  BY <1>1, <1>8
<1>11. g = [h EXCEPT !.live = h.live \union new, !.kind = kk, !.name = aa, !.next = nn, !.prev = pp, !.child = cc]
  BY DEF WithCopies
<1> HIDE DEF kk, aa, nn, pp, cc, new
<1>14. h.live \union new \in SUBSET Items
  BY <1>1, <1>4
<1>15. kk \in [Items -> Kind] /\ aa \in [Items -> W] /\ nn \in [Items -> V] /\ pp \in [Items -> V] /\ cc \in [Items -> V]
  BY <1>5, <1>6, <1>7, <1>9, <1>10
<1>12. Fields(g) /\ g.live = h.live \union new /\ g.kind = kk /\ g.ref = h.ref /\ g.name = aa /\ g.next = nn
       /\ g.prev = pp /\ g.child = cc
  <2> DEFINE l == [h EXCEPT !.live = h.live \union new, !.kind = kk, !.name = aa]
  <2>1. Fields(l) /\ l.live = h.live \union new /\ l.kind = kk /\ l.ref = h.ref /\ l.name = aa
    BY <1>1, <1>14, <1>15 DEF Fields
  <2>2. g = [l EXCEPT !.child = cc, !.next = nn, !.prev = pp]
    BY <1>1, <1>11 DEF Fields
  <2> HIDE DEF l
  <2>3. nn \in Links /\ pp \in Links /\ cc \in Links
    BY <1>15 DEF Links
  <2>4. g = Relink(l, cc, nn, pp)
    BY <2>2 DEF Relink
  <2>5. SameItems(l, g) /\ g.child = cc /\ g.next = nn /\ g.prev = pp
    <3>1. Fields(l)
      BY <2>1
    <3> QED BY <3>1, <2>3, <2>4, Relinked
  <2> QED BY <2>1, <2>5 DEF SameItems
<1>13. new = {f[y] : y \in T}
  BY DEF new, Image
<1> QED BY <1>5, <1>6, <1>7, <1>9, <1>10, <1>12, <1>13 DEF Copied

\* A tree is copied.
LEMMA StepDuplicate ==
  ASSUME CJsonInv, NEW x \in heap.live \ dropped, Duplicate(x)
  PROVE  CJsonInv'
<1>1. PICK K : Sound(heap, K, held, dropped, nameless)
  BY DEF CJsonInv
<1> DEFINE T == TreeOf(heap, x)
           f == CHOOSE g \in [T -> Free(heap)] : IsInjective(g)
           new == Image(T, f)
           g == WithCopies(heap, x, T, f)
           R == held \union dropped
           N == nameless \union Image(nameless \intersect T, f)
<1>2. /\ State(heap, K, R, nameless) /\ Forest(heap, K, R) /\ held \intersect dropped = {} /\ (\A y \in dropped : heap.ref[y])
      /\ nameless \subseteq heap.live /\ heap.live \subseteq Items /\ R \subseteq heap.live
  BY <1>1, AtHand
<1>3. /\ Room([i \in 1..Cardinality(T) |-> heap.kind[SetToSeq(T)[i]]])
      /\ \A y \in T : ~heap.ref[y]
      /\ heap' = g /\ held' = held \union {f[x]} /\ nameless' = N /\ dropped' = dropped
  BY DEF Duplicate, TreeOf, WithCopies, Image, Same, Pointer
<1> HIDE DEF T
<1>4. Tree(heap, K, x, T)
  BY <1>2, <1>3, TreeIs DEF T
<1>5. Renaming(heap, f, T)
  <2> DEFINE F == Free(heap)
             n == Cardinality(T)
  <2>1. IsFiniteSet(T) /\ IsFiniteSet(F) /\ n \in Nat
    <3>1. T \subseteq Items /\ F \subseteq Items
      BY <1>2, <1>4 DEF Tree, Free
    <3> QED BY <3>1, CJsonAssumption, FS_Subset, FS_CardinalityType
  <2>2. Cardinality(F) >= n
    <3> DEFINE s == [i \in 1..n |-> heap.kind[SetToSeq(T)[i]]]
    <3>1. Cardinality(F) >= Len(s)
      BY <1>3 DEF Room
    <3>2. Len(s) = n
      <4> HIDE DEF n
      <4> QED BY <2>1
    <3> QED BY <3>1, <3>2
  <2>3. Cardinality(T) <= Cardinality(F)
    <3>1. Cardinality(F) \in Nat
      BY <2>1, FS_CardinalityType
    <3> QED BY <2>1, <2>2, <3>1
  <2>4. \E e \in [T -> F] : IsInjective(e)
    <3> HIDE DEF F
    <3> QED BY <2>1, <2>3, InjectionExists
  <2>5. f \in [T -> F] /\ IsInjective(f)
    BY <2>4
  <2> HIDE DEF f
  <2>6. DOMAIN f = T
    BY <2>5
  <2> QED BY <2>5, <2>6 DEF Renaming, IsInjective, Free
<1> HIDE DEF f
<1>6. Copied(heap, g, x, T, f)
  BY <1>2, <1>4, <1>5, DuplicateIs
<1>7. g.live = heap.live \union new /\ g.ref = heap.ref
  BY <1>6 DEF Copied, Image
<1> HIDE DEF g
<1>8. \E L : State(g, L, R \union {f[x]}, N)
  <2> HIDE DEF R
  <2>1. State(heap, K, R, nameless)
    BY <1>2
  <2>2. \E L : State(g, L, R \union {f[x]}, nameless \union Image(nameless \intersect T, f))
    BY <1>4, <1>5, <1>6, <2>1, StateCopy, Zenon
  <2> QED BY <2>2
<1>9. PICK L : State(g, L, R \union {f[x]}, N)
  BY <1>8
<1>10. x \in T /\ f[x] \in new /\ f[x] \notin heap.live /\ \A y \in T : f[y] \in new
  BY <1>4, <1>5 DEF Tree, Renaming, Image
<1> HIDE DEF new
<1>11. /\ R \union {f[x]} = (held \union {f[x]}) \union dropped /\ (held \union {f[x]}) \intersect dropped = {}
       /\ N \subseteq g.live /\ \A y \in dropped : g.ref[y]
  <2>1. Image(nameless \intersect T, f) \subseteq new
    BY <1>10 DEF Image
  <2> QED BY <1>2, <1>7, <1>10, <2>1
<1> HIDE DEF R, N
<1>12. Sound(g, L, held \union {f[x]}, dropped, N)
  BY <1>9, <1>11 DEF Sound
<1>13. Sound(heap', L, held', dropped', nameless')
  BY <1>3, <1>12
<1> QED BY <1>13 DEF CJsonInv

------------------------------------------------------------------------------
(* The theorems.                                                           *)

\* At the start there is nothing.
LEMMA InitSound ==
  ASSUME Init
  PROVE  CJsonInv
<1> DEFINE K == [a \in Items |-> << >>]
<1>1. /\ heap = [live |-> {}, kind |-> [x \in Items |-> "value"], ref |-> [x \in Items |-> FALSE],
                 name |-> [x \in Items |-> NoName], next |-> [x \in Items |-> NULL],
                 prev |-> [x \in Items |-> NULL], child |-> [x \in Items |-> NULL]]
      /\ held = {} /\ dropped = {} /\ nameless = {}
  BY DEF Init
<1>2. Fields(heap)
  <2>1. /\ {} \in SUBSET Items /\ [x \in Items |-> "value"] \in [Items -> Kind]
        /\ [x \in Items |-> FALSE] \in [Items -> BOOLEAN]
        /\ [x \in Items |-> NoName] \in [Items -> Names \union {NoName}]
        /\ [x \in Items |-> NULL] \in [Items -> Items \union {NULL}]
    BY DEF Kind
  <2> QED BY <1>1, <2>1 DEF Fields
<1>3. /\ heap.live = {} /\ \A x \in Items : heap.kind[x] = "value" /\ heap.ref[x] = FALSE /\ heap.next[x] = NULL /\ heap.child[x] = NULL
  BY <1>1
<1>4. Lists(K)
  <2>1. << >> \in Seq(Items)
    OBVIOUS
  <2> QED BY <2>1 DEF Lists
<1>5. \A a \in Items : K[a] = << >>
  OBVIOUS
<1> HIDE DEF K
<1>6. \A a \in Items : Len(K[a]) = 0 /\ 1..Len(K[a]) = {}
  <2> SUFFICES ASSUME NEW a \in Items PROVE Len(K[a]) = 0 /\ 1..Len(K[a]) = {}
    OBVIOUS
  <2>1. Len(K[a]) = 0
    BY <1>5
  <2> QED BY <2>1
<1>7. \A a \in Items : \A x : ~In(K, a, x)
  BY <1>6 DEF In
<1>8. Apart(K)
  BY <1>6 DEF Apart
<1>9. Grounded(K)
  BY <1>7 DEF Grounded
<1>10. Listed(heap, K)
  BY <1>3, <1>6 DEF Listed, Holder
<1>11. Owned(heap, K, {}) /\ Loose(heap, {})
  BY <1>3, <1>7 DEF Owned, Loose
<1>12. Named(heap, K, {})
  BY <1>7 DEF Named
<1>13. Sound(heap, K, {}, {}, {})
  BY <1>2, <1>4, <1>8, <1>9, <1>10, <1>11, <1>12 DEF Sound, State, Forest
<1>14. Sound(heap, K, held, dropped, nameless)
  BY <1>1, <1>13
<1> QED BY <1>14 DEF CJsonInv

\* A step that changes nothing leaves the forest.
LEMMA Stutters ==
  ASSUME CJsonInv, UNCHANGED vars
  PROVE  CJsonInv'
<1>1. PICK K : Sound(heap, K, held, dropped, nameless)
  BY DEF CJsonInv
<1>2. Sound(heap', K, held', dropped', nameless')
  BY <1>1 DEF vars
<1> QED BY <1>2 DEF CJsonInv

\* Each call leaves a forest.
LEMMA Steps ==
  ASSUME CJsonInv, [Next]_vars
  PROVE  CJsonInv'
<1>1. ASSUME NEW k \in {"array", "object", "value"}, Create(k) PROVE CJsonInv'
  BY <1>1, StepCreate DEF Kind
<1>2. CASE CreateArrayOfTwo
  BY <1>2, StepCreateArrayOfTwo
<1>3. ASSUME NEW a \in Arrays, NEW x \in held, AddToArray(a, x) PROVE CJsonInv'
  BY <1>3, StepAddToArray
<1>4. ASSUME NEW a \in Arrays, NEW x \in held, NEW which \in 0..Len(Kids(heap, a)), Insert(a, which, x)
      PROVE  CJsonInv'
  <2>1. which \in Nat
    OBVIOUS
  <2> QED BY <1>4, <2>1, StepInsert
<1>5. ASSUME NEW a \in Arrays, NEW x \in held, NEW old \in heap.live, ReplaceInArray(a, old, x) PROVE CJsonInv'
  BY <1>5, StepReplaceInArray
<1>6. ASSUME NEW o \in Objects, NEW n \in Names, NEW x \in held, AddToObject(o, n, x) PROVE CJsonInv'
  BY <1>6, StepAddToObject
<1>7. ASSUME NEW o \in Objects, NEW n \in Names, NEW x \in held, ReplaceInObject(o, n, x) PROVE CJsonInv'
  BY <1>7, StepReplaceInObject
<1>8. ASSUME NEW o \in Objects, NEW n \in Names, NEW k \in {"array", "object", "value"}, AddNewToObject(o, n, k)
      PROVE  CJsonInv'
  BY <1>8, StepAddNewToObject DEF Kind
<1>9. ASSUME NEW o \in Objects, NEW n \in Names, NEW x \in heap.live \ dropped, AddReferenceToObject(o, n, x)
      PROVE  CJsonInv'
  BY <1>9, StepAddReferenceToObject
<1>10. ASSUME NEW a \in Arrays, NEW x \in heap.live \ dropped, AddReferenceToArray(a, x) PROVE CJsonInv'
  BY <1>10, StepAddReferenceToArray
<1>11. ASSUME NEW a \in Containers, NEW x \in heap.live, Detach(a, x) PROVE CJsonInv'
  BY <1>11, StepDetach
<1>12. ASSUME NEW a \in Containers, NEW x \in heap.live, DeleteItem(a, x) PROVE CJsonInv'
  BY <1>12, StepDeleteItem
<1>13. ASSUME NEW x \in held, DeleteHeld(x) PROVE CJsonInv'
  BY <1>13, StepDeleteHeld
<1>14. ASSUME NEW x \in heap.live \ dropped, Duplicate(x) PROVE CJsonInv'
  BY <1>14, StepDuplicate
<1>15. CASE UNCHANGED vars
  BY <1>15, Stutters
<1> QED
  BY <1>1, <1>2, <1>3, <1>4, <1>5, <1>6, <1>7, <1>8, <1>9, <1>10, <1>11, <1>12, <1>13, <1>14, <1>15 DEF Next

\* The items are always a forest whose roots the client holds or nothing points to,
\* whatever calls it makes (cJSON.c:239, 2008, 2243, 2309, 2334, 2371, 2728).
THEOREM CJsonForest == Spec => []CJsonInv
<1>1. Init => CJsonInv
  BY InitSound
<1>2. CJsonInv /\ [Next]_vars => CJsonInv'
  BY Steps
<1> QED BY <1>1, <1>2, PTL DEF Spec

\* Kids is the list of the container.
LEMMA KidsSet ==
  ASSUME NEW K, Sound(heap, K, held, dropped, nameless), NEW a \in Containers
  PROVE  /\ Holder(heap, a) /\ a \in Items /\ Kids(heap, a) = K[a] /\ K[a] \in Seq(Items) /\ Len(K[a]) \in Nat
         /\ DOMAIN K[a] = 1..Len(K[a]) /\ ToSet(Kids(heap, a)) = {K[a][i] : i \in 1..Len(K[a])}
         /\ \A x : x \in ToSet(Kids(heap, a)) <=> In(K, a, x)
<1>1. Forest(heap, K, held \union dropped) /\ Holder(heap, a)
  BY AtHand
<1>2. Kids(heap, a) = K[a] /\ K[a] \in Seq(Items) /\ Len(K[a]) \in Nat /\ a \in Items
  BY <1>1, Within
<1>3. DOMAIN K[a] = 1..Len(K[a])
  BY <1>2
<1>4. ToSet(Kids(heap, a)) = {K[a][i] : i \in 1..Len(K[a])}
  BY <1>2, <1>3 DEF ToSet
<1> QED BY <1>1, <1>2, <1>3, <1>4 DEF In

\* In such a forest the lists are lists.
LEMMA ForestTypeOK ==
  ASSUME CJsonInv
  PROVE  TypeOK
<1>1. PICK K : Sound(heap, K, held, dropped, nameless)
  BY DEF CJsonInv
<1>2. /\ Forest(heap, K, held \union dropped) /\ nameless \subseteq heap.live /\ heap.live \subseteq Items
      /\ held \union dropped \subseteq heap.live
  BY <1>1, AtHand
<1>3. ASSUME NEW a \in Containers
      PROVE  LET s == Kids(heap, a)
             IN  /\ ToSet(s) \subseteq heap.live /\ IsInjective(s)
                 /\ s # << >> => heap.next[Last(s)] = NULL
                 /\ \A i \in DOMAIN s : heap.prev[s[i]] = IF i = 1 THEN Last(s) ELSE s[i - 1]
  <2> DEFINE s == K[a]
             n == Len(s)
  <2>1. Holder(heap, a) /\ a \in Items /\ Kids(heap, a) = s /\ s \in Seq(Items) /\ n \in Nat /\ DOMAIN s = 1..n
        /\ ToSet(s) = {s[i] : i \in 1..n}
    BY <1>1, KidsSet
  <2>2. ListOf(heap, a, s) /\ \A i, j \in 1..n : s[i] = s[j] => i = j
    BY <1>2, <2>1, Within
  <2>3. \A i \in 1..n : s[i] \in heap.live
    BY <1>2, <2>1, OneList
  <2>4. \A i \in 1..n : heap.next[s[i]] = (IF i < n THEN s[i + 1] ELSE NULL)
                        /\ heap.prev[s[i]] = (IF i = 1 THEN s[n] ELSE s[i - 1])
    BY <2>2 DEF ListOf
  <2>5. Last(s) = s[n]
    BY DEF Last
  <2> HIDE DEF s, n
  <2>6. s # << >> => n \in 1..n
    <3>1. s # << >> => n # 0
      BY <2>1, EmptySeq DEF n
    <3> QED BY <2>1, <3>1
  <2>7. s # << >> => heap.next[Last(s)] = NULL
    <3>1. ~(n < n)
      BY <2>1
    <3> QED BY <2>4, <2>5, <2>6, <3>1
  <2>8. IsInjective(s)
    BY <2>1, <2>2 DEF IsInjective
  <2>9. ToSet(s) \subseteq heap.live
    BY <2>1, <2>3
  <2>10. \A i \in DOMAIN s : heap.prev[s[i]] = IF i = 1 THEN Last(s) ELSE s[i - 1]
    BY <2>1, <2>4, <2>5
  <2> QED BY <2>1, <2>7, <2>8, <2>9, <2>10
<1> QED BY <1>2, <1>3 DEF TypeOK

\* The search finds what is in the object, up to a member put there without a name.
LEMMA ForestMembersFound ==
  ASSUME CJsonInv
  PROVE  MembersFound
<1>1. PICK K : Sound(heap, K, held, dropped, nameless)
  BY DEF CJsonInv
<1>2. State(heap, K, held \union dropped, nameless)
  BY <1>1, AtHand
<1> SUFFICES ASSUME NEW o \in Containers, heap.kind[o] = "object", NEW i \in DOMAIN Kids(heap, o)
             PROVE  LET s == Kids(heap, o)
                        n == heap.name[s[i]]
                    IN  \/ \E j \in 1..i : s[j] \in nameless
                        \/ n # NoName /\ GetObjectItem(heap, o, n) # NULL
  BY DEF MembersFound
<1> DEFINE s == K[o]
           l == Len(s)
           n == heap.name[s[i]]
<1>3. Holder(heap, o) /\ o \in Items /\ Kids(heap, o) = s /\ s \in Seq(Items) /\ l \in Nat /\ DOMAIN s = 1..l
  BY <1>1, KidsSet
<1>4. i \in 1..l
  BY <1>3
<1>5. \A j \in 1..l : heap.name[s[j]] # NoName \/ s[j] \in nameless
  BY <1>2, <1>3 DEF State, Named, In
<1>6. \A j \in 1..l : s[j] # NULL
  <2>1. \A j \in 1..l : s[j] \in Items
    BY <1>3, ElementOfSeq
  <2> QED BY <2>1, CJsonAssumption
<1>7. \/ \E j \in 1..l : GetObjectItem(heap, o, n) = s[j]
      \/ /\ GetObjectItem(heap, o, n) = NULL
         /\ \A k \in 1..l : heap.name[s[k]] = n => \E j \in 1..k : heap.name[s[j]] = NoName
  <2> HIDE DEF s, n
  <2> QED BY <1>3, SearchIs DEF l
<1> SUFFICES \/ \E j \in 1..i : s[j] \in nameless
             \/ n # NoName /\ GetObjectItem(heap, o, n) # NULL
  BY <1>3
<1> HIDE DEF s, l
<1>8. CASE n = NoName
  <2>1. s[i] \in nameless /\ i \in 1..i
    BY <1>3, <1>4, <1>5, <1>8
  <2> QED BY <2>1
<1>9. CASE n # NoName /\ GetObjectItem(heap, o, n) = NULL
  <2>1. PICK j \in 1..i : heap.name[s[j]] = NoName
    BY <1>4, <1>6, <1>7, <1>9
  <2>2. j \in 1..l
    BY <1>3, <1>4
  <2> QED BY <1>5, <2>1, <2>2
<1> QED BY <1>8, <1>9

\* An item has one owner.
LEMMA OneOwner ==
  ASSUME NEW K, Sound(heap, K, held, dropped, nameless), NEW x \in heap.live
  PROVE  Cardinality({a \in Containers : x \in ToSet(Kids(heap, a))}) = IF x \in held \union dropped THEN 0 ELSE 1
<1> DEFINE R == held \union dropped
           S == {a \in Containers : x \in ToSet(Kids(heap, a))}
<1>1. Forest(heap, K, R) /\ heap.live \subseteq Items
  BY AtHand
<1>2. Owned(heap, K, R) /\ Apart(K) /\ Listed(heap, K)
  BY <1>1 DEF Forest
<1>3. \A a \in Containers : a \in Items /\ (x \in ToSet(Kids(heap, a)) <=> In(K, a, x))
  BY KidsSet
<1>4. CASE x \in R
  <2>1. S = {}
    BY <1>1, <1>2, <1>3, <1>4 DEF Owned
  <2>2. Cardinality(S) = 0
    BY <2>1, FS_EmptySet
  <2> QED BY <1>4, <2>2
<1>5. CASE x \notin R
  <2>1. PICK b \in Items : In(K, b, x)
    BY <1>1, <1>2, <1>5 DEF Owned
  <2>2. b \in Containers
    <3>1. Len(K[b]) # 0
      <4>1. Len(K[b]) \in Nat
        BY <1>1, EachList DEF Forest
      <4> QED BY <2>1, <4>1 DEF In
    <3> QED BY <1>2, <3>1 DEF Listed, Holder, Containers
  <2>3. \A a \in Items : In(K, a, x) => a = b
    BY <1>2, <2>1 DEF Apart, In
  <2>4. S = {b}
    BY <1>3, <2>1, <2>2, <2>3
  <2>5. Cardinality(S) = 1
    BY <2>4, FS_Singleton, Zenon
  <2> QED BY <1>5, <2>5
<1> QED BY <1>4, <1>5

\* The client reaches everything from what it holds, but the references dropped.
LEMMA NoneLost ==
  ASSUME NEW K, Sound(heap, K, held, dropped, nameless)
  PROVE  heap.live = dropped \union UNION {Chain(heap, x) : x \in held}
<1> DEFINE R == held \union dropped
           U == UNION {Chain(heap, x) : x \in held}
           S == heap.live \ (dropped \union U)
<1>1. Forest(heap, K, R) /\ heap.live \subseteq Items /\ R \subseteq heap.live /\ \A x \in dropped : heap.ref[x]
  BY AtHand
<1>2. Owned(heap, K, R) /\ Listed(heap, K) /\ Grounded(K)
  BY <1>1 DEF Forest
<1>3. \A x \in held : /\ x \in Chain(heap, x) /\ Chain(heap, x) \subseteq heap.live
                      /\ Downward(K, Chain(heap, x))
  BY <1>1, Freed
<1>4. dropped \union U \subseteq heap.live
  BY <1>1, <1>3
<1>5. ASSUME NEW y \in S PROVE \E b \in S : In(K, b, y)
  <2>1. y \in heap.live /\ y \notin dropped /\ y \notin U
    OBVIOUS
  <2>2. y \notin held
    BY <1>3, <2>1
  <2>3. PICK b \in Items : In(K, b, y)
    BY <1>1, <1>2, <2>1, <2>2 DEF Owned
  <2>4. Holder(heap, b)
    <3>1. Len(K[b]) # 0
      <4>1. Len(K[b]) \in Nat
        BY <1>1, EachList DEF Forest
      <4> QED BY <2>3, <4>1 DEF In
    <3> QED BY <1>2, <3>1 DEF Listed
  <2>5. b \in heap.live /\ b \notin dropped
    BY <1>1, <2>4 DEF Holder
  <2>6. b \notin U
    BY <1>3, <2>1, <2>3 DEF Downward
  <2> QED BY <2>3, <2>5, <2>6
<1>6. S \in SUBSET Items
  BY <1>1
<1> HIDE DEF S
<1>7. S = {}
  BY <1>2, <1>5, <1>6 DEF Grounded
<1> QED BY <1>4, <1>7 DEF S

\* Nothing is below two of the items it holds.
LEMMA NoneShared ==
  ASSUME NEW K, Sound(heap, K, held, dropped, nameless), NEW x \in held, NEW y \in held, x # y
  PROVE  Chain(heap, x) \intersect Chain(heap, y) = {}
<1> DEFINE R == held \union dropped
           C == Chain(heap, x)
           D == Chain(heap, y)
           S == C \intersect D
<1>1. Forest(heap, K, R) /\ x \in R /\ y \in R
  BY AtHand
<1>2. Apart(K) /\ Grounded(K) /\ Loose(heap, R)
  BY <1>1 DEF Forest
<1>3. x \in Items /\ y \in Items /\ x \in C /\ y \in D /\ C \intersect R = {x} /\ D \intersect R = {y}
  BY <1>1, Freed
<1>4. heap.next[x] = NULL /\ heap.next[y] = NULL
  BY <1>1, <1>2, <1>3 DEF Loose
<1>5. /\ C \subseteq Items /\ D \subseteq Items
      /\ \A z \in C : z = x \/ \E b \in C : In(K, b, z)
      /\ \A z \in D : z = y \/ \E b \in D : In(K, b, z)
  BY <1>1, <1>3, <1>4, BelowRoot
<1> HIDE DEF C, D, R
<1>6. ASSUME NEW z \in S PROVE \E b \in S : In(K, b, z)
  <2>1. z # x /\ z # y
    BY <1>1, <1>3
  <2>2. PICK b \in C : In(K, b, z)
    BY <1>5, <2>1
  <2>3. PICK c \in D : In(K, c, z)
    BY <1>5, <2>1
  <2>4. b = c
    BY <1>2, <1>5, <2>2, <2>3 DEF Apart, In
  <2> QED BY <2>2, <2>3, <2>4
<1>7. S \in SUBSET Items
  BY <1>5
<1> HIDE DEF S
<1>8. S = {}
  BY <1>2, <1>6, <1>7 DEF Grounded
<1> QED BY <1>8 DEF S, C, D

\* So in such a forest every item is accounted for.
LEMMA ForestItemsAccounted ==
  ASSUME CJsonInv
  PROVE  ItemsAccounted
<1>1. PICK K : Sound(heap, K, held, dropped, nameless)
  BY DEF CJsonInv
<1>2. \A x \in heap.live :
        Cardinality({a \in Containers : x \in ToSet(Kids(heap, a))}) = IF x \in held \union dropped THEN 0 ELSE 1
  BY <1>1, OneOwner
<1>3. heap.live = dropped \union UNION {Chain(heap, x) : x \in held}
  BY <1>1, NoneLost
<1>4. \A x, y \in held : x # y => Chain(heap, x) \intersect Chain(heap, y) = {}
  BY <1>1, NoneShared
<1> QED BY <1>2, <1>3, <1>4 DEF ItemsAccounted

\* Whatever is rewired, every list stays one: next leads through it to NULL, prev back
\* and from the first item to the last (cJSON.c:2008, 2243, 2309, 2371).
THEOREM CJsonTypeOK == Spec => []TypeOK
<1>1. CJsonInv => TypeOK
  BY ForestTypeOK
<1> QED BY <1>1, CJsonForest, PTL

\* No item is freed twice or lost, except the reference whose name could not be
\* allocated: each has one owner, and cJSON_Delete of what the client holds frees them
\* all, each once (cJSON.c:239, 2105).
THEOREM CJsonItemsAccounted == Spec => []ItemsAccounted
<1>1. CJsonInv => ItemsAccounted
  BY ForestItemsAccounted
<1> QED BY <1>1, CJsonForest, PTL

\* cJSON_GetObjectItem finds every name of an object, up to a member that a
\* replacement put there without one (cJSON.c:1921, 2404).
THEOREM CJsonMembersFound == Spec => []MembersFound
<1>1. CJsonInv => MembersFound
  BY ForestMembersFound
<1> QED BY <1>1, CJsonForest, PTL
==============================================================================
