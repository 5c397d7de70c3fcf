---------------------------- MODULE LQueueProofs ----------------------------
(***************************************************************************)
(* LQueue for any nodes, payloads and size.                                *)
(*                                                                         *)
(* The links are followed along a circle: the nodes in the order of the    *)
(* next pointers.  While lqueue_destroy runs, the circle it began with is  *)
(* still in the links, and the nodes from phead on are those not yet freed *)
(* of it; since the last one points at the first, which is freed, phead is *)
(* lost unless there was one only.                                         *)
(***************************************************************************)
EXTENDS LQueue, FiniteSetTheorems, TLAPS

\* The place after and the place before the i-th of a circle of n.
After(i, n) == IF i = n THEN 1 ELSE i + 1
Before(i, n) == IF i = 1 THEN n ELSE i - 1

\* The links lead around c, and no two nodes of it have one payload.
Circle(c) ==
  /\ c \in [1..count -> Nodes]
  /\ \A i, j \in 1..count : c[i] = c[j] => i = j
  /\ \A i \in 1..count : next[c[i]] = c[After(i, count)] /\ prev[c[i]] = c[Before(i, count)]
  /\ \A i, j \in 1..count : pqdata[c[i]] = pqdata[c[j]] => i = j

\* phead is at the k-th of c, and from there on nodes and payloads are allocated.
Left(c, k) ==
  /\ k \in 1..count /\ phead = c[k]
  /\ nodes = {c[i] : i \in k..count}
  /\ \A i \in k..count : pqdata[c[i]] \in heap \ held

LqType ==
  /\ count \in Nat /\ size \in Nat
  /\ phead \in Nodes \union {NULL}
  /\ next \in [Nodes -> Nodes \union {NULL}] /\ prev \in [Nodes -> Nodes \union {NULL}]
  /\ pqdata \in [Nodes -> Blocks \union {NULL}]
  /\ nodes \subseteq Nodes /\ heap \subseteq Blocks /\ held \subseteq heap
  /\ pc \in {"idle", "destroy"} /\ ub \in BOOLEAN

Bounded == size > 0 => count <= size

Empty == phead = NULL /\ nodes = {} /\ (pc = "idle" => count = 0)

\* Unless the head is lost, the list is empty, or what is left of a circle: all of it
\* between two calls.
Listed == Dangling \/ Empty \/ \E c : Circle(c) /\ \E k \in 1..count : Left(c, k) /\ (pc = "idle" => k = 1)

LqInv == LqType /\ Bounded /\ Listed

\* Two functions that obey the equation of Walk along c have the same values.
LEMMA WalkIs ==
  ASSUME count \in Nat, NEW c, Circle(c), phead = c[1]
  PROVE  Walk = c
<1> DEFINE Def(f) == [i \in 1..count |-> IF i = 1 THEN phead ELSE next[f[i - 1]]]
<1>1. Walk = CHOOSE f : f = Def(f)
  BY DEF Walk
<1>2. c = Def(c)
  <2>1. ASSUME NEW i \in 1..count PROVE c[i] = IF i = 1 THEN phead ELSE next[c[i - 1]]
    <3>1. CASE i = 1
      BY <3>1
    <3>2. CASE i # 1
      <4>1. i - 1 \in 1..count /\ After(i - 1, count) = i
        BY <3>2 DEF After
      <4> QED BY <3>2, <4>1 DEF Circle
    <3> QED BY <3>1, <3>2
  <2> QED BY <2>1 DEF Circle
<1>3. Walk = Def(Walk)
  BY <1>1, <1>2
<1>4. ASSUME NEW i \in 1..count PROVE Walk[i] = IF i = 1 THEN phead ELSE next[Walk[i - 1]]
  BY <1>3
<1>5. ASSUME NEW i \in 1..count PROVE c[i] = IF i = 1 THEN phead ELSE next[c[i - 1]]
  BY <1>2
<1>6. \A i \in 1..count : Walk[i] = c[i]
  <2> DEFINE T == {i \in 1..count : Walk[i] # c[i]}
  <2>1. SUFFICES ASSUME T # {} PROVE FALSE
    OBVIOUS
  <2>2. T \subseteq Nat
    OBVIOUS
  <2>3. PICK i \in T : \A j \in T : ~ (<<j, i>> \in OpToRel(<, Nat))
    BY <2>1, <2>2, NatLessThanWellFounded, WFMin
  <2>4. \A j \in T : ~(j < i)
    BY <2>2, <2>3 DEF OpToRel
  <2>5. i # 1
    BY <1>4, <1>5
  <2>6. i - 1 \in 1..count /\ i - 1 \notin T
    BY <2>4, <2>5
  <2>7. Walk[i - 1] = c[i - 1]
    BY <2>6
  <2> QED BY <1>4, <1>5, <2>5, <2>7
<1>7. c = [i \in 1..count |-> c[i]] /\ Walk = [i \in 1..count |-> Walk[i]]
  BY <1>2, <1>3
<1> QED BY <1>6, <1>7

------------------------------------------------------------------------------
(* What the invariant gives.                                               *)

\* Between two calls a list whose head is not lost is empty or a whole circle.
LEMMA WholeCircle ==
  ASSUME LqInv, Whole, phead # NULL
  PROVE  \E c : Circle(c) /\ Left(c, 1)
BY DEF LqInv, Listed, Empty, Whole

\* The list is empty exactly when phead says so.
LEMMA WholeEmpty ==
  ASSUME LqInv, Whole, phead = NULL
  PROVE  count = 0 /\ nodes = {}
BY LQueueAssumption DEF LqInv, LqType, Listed, Empty, Whole, Left, Circle

\* The head points at itself exactly when it is alone.
LEMMA SingleIsOne ==
  ASSUME count \in Nat, NEW c, Circle(c), NEW k \in 1..count, Left(c, k)
  PROVE  /\ Single => count = 1
         /\ count = 1 => Single
<1>1. next[phead] = c[After(k, count)] /\ After(k, count) \in 1..count
  BY DEF Circle, Left, After
<1>2. Single => After(k, count) = k
  BY <1>1 DEF Circle, Left, Single
<1>3. After(k, count) = k <=> count = 1
  BY DEF After
<1>4. count = 1 => After(k, count) = k /\ next[phead] = c[k]
  BY <1>1, <1>3
<1> QED BY <1>2, <1>3, <1>4 DEF Left, Single

\* The circle has as many nodes as places.
LEMMA CircleCounts ==
  ASSUME count \in Nat, NEW c, Circle(c), Left(c, 1)
  PROVE  Cardinality(nodes) = count
<1>1. c \in [1..count -> nodes]
  BY DEF Circle, Left
<1>2. \A t \in nodes : \E i \in 1..count : c[i] = t
  BY DEF Left
<1>3. c \in Injection(1..count, nodes)
  BY <1>1 DEF Injection, IsInjective, Circle
<1>4. c \in Surjection(1..count, nodes)
  BY <1>1, <1>2 DEF Surjection
<1>5. ExistsBijection(1..count, nodes)
  BY <1>3, <1>4 DEF Bijection, ExistsBijection
<1> QED BY <1>5, FS_CountingElements

\* The invariant gives the closed circle.
LEMMA InvCloses == LqInv => CircleClosed
<1> SUFFICES ASSUME LqInv, Whole
             PROVE  /\ phead = NULL <=> count = 0
                    /\ size > 0 => count <= size
                    /\ {Walk[i] : i \in 1..count} = nodes
                    /\ Cardinality(nodes) = count
                    /\ \A n \in nodes : prev[next[n]] = n /\ next[prev[n]] = n
                    /\ \A i \in 1..count : Items[i] \in heap \ held
                    /\ \A i, j \in 1..count : Items[i] = Items[j] => i = j
  BY DEF CircleClosed
<1>1. size > 0 => count <= size
  BY DEF LqInv, Bounded
<1>2. CASE phead = NULL
  <2>1. count = 0 /\ nodes = {}
    BY <1>2, WholeEmpty
  <2>2. Cardinality(nodes) = 0
    BY <2>1, FS_EmptySet
  <2> QED BY <1>1, <1>2, <2>1, <2>2
<1>3. CASE phead # NULL
  <2>1. PICK c : Circle(c) /\ Left(c, 1)
    BY <1>3, WholeCircle
  <2>2. count \in Nat
    BY DEF LqInv, LqType
  <2>3. Walk = c
    BY <2>1, <2>2, WalkIs DEF Left
  <2>4. \A i \in 1..count : Items[i] = pqdata[c[i]]
    BY <2>3 DEF Items
  <2>5. count # 0
    BY <2>1 DEF Left
  <2>6. {Walk[i] : i \in 1..count} = nodes
    BY <2>1, <2>3 DEF Left
  <2>7. Cardinality(nodes) = count
    BY <2>1, <2>2, CircleCounts
  <2>8. ASSUME NEW n \in nodes PROVE prev[next[n]] = n /\ next[prev[n]] = n
    <3>1. PICK i \in 1..count : n = c[i]
      BY <2>1 DEF Left
    <3>2. /\ After(i, count) \in 1..count /\ Before(After(i, count), count) = i
          /\ Before(i, count) \in 1..count /\ After(Before(i, count), count) = i
      BY <2>2 DEF After, Before
    <3> QED BY <2>1, <3>1, <3>2 DEF Circle
  <2>9. /\ \A i \in 1..count : Items[i] \in heap \ held
        /\ \A i, j \in 1..count : Items[i] = Items[j] => i = j
    BY <2>1, <2>4 DEF Circle, Left
  <2> QED BY <1>1, <1>3, <2>5, <2>6, <2>7, <2>8, <2>9
<1> QED BY <1>2, <1>3

------------------------------------------------------------------------------
(* The steps.                                                              *)

\* lqueue_init leaves an empty list.
LEMMA LqInitInv == Init => LqInv
<1> SUFFICES ASSUME Init PROVE LqInv
  OBVIOUS
<1>1. LqType
  BY LQueueAssumption DEF Init, LqType
<1>2. Bounded
  BY LQueueAssumption DEF Init, Bounded
<1>3. Empty
  BY DEF Init, Empty
<1> QED BY <1>1, <1>2, <1>3 DEF LqInv, Listed

\* The caller's own malloc and free do not touch what is queued.
LEMMA CallerKeeps == LqInv /\ (CallerMalloc \/ CallerFree) => LqInv'
<1> SUFFICES ASSUME LqInv, CallerMalloc \/ CallerFree PROVE LqInv'
  OBVIOUS
<1>1. /\ UNCHANGED <<phead, count, size, next, prev, pqdata, nodes, pc, ub>>
      /\ \A b \in heap \ held : b \in heap' \ held'
      /\ heap' \subseteq Blocks /\ held' \subseteq heap'
  BY DEF CallerMalloc, CallerFree, links, LqInv, LqType
<1>2. \A c : Circle(c) => Circle(c)'
  BY <1>1 DEF Circle
<1>3. \A c, k : Left(c, k) => Left(c, k)'
  BY <1>1 DEF Left
<1>4. Listed'
  <2>1. CASE Dangling
    BY <1>1, <2>1 DEF Dangling, Listed
  <2>2. CASE Empty
    BY <1>1, <2>2 DEF Empty, Listed
  <2>3. CASE \E c : Circle(c) /\ \E k \in 1..count : Left(c, k) /\ (pc = "idle" => k = 1)
    BY <1>1, <1>2, <1>3, <2>3 DEF Listed
  <2> QED BY <2>1, <2>2, <2>3 DEF LqInv, Listed
<1> QED BY <1>1, <1>4 DEF LqInv, LqType, Bounded

\* What both kinds of enqueue have in common: node n, which is free, takes b, which is
\* not in the list and belongs to nobody else.
Links(n, b, front) ==
  /\ LqInv /\ Whole
  /\ n \in Nodes \ nodes /\ b \in Blocks
  /\ Link(n, b, front)
  /\ \A x \in heap \ held : x # b
  /\ heap' \subseteq Blocks /\ held' \subseteq heap'
  /\ heap' \ held' = (heap \ held) \union {b}
  /\ pc' = "idle"

\* The first node of a list points at itself.
LEMMA LinkFirst ==
  ASSUME NEW n, NEW b, NEW front \in BOOLEAN, Links(n, b, front), phead = NULL,
         NEW d, d = [i \in 1..1 |-> n]
  PROVE  count' = 1 /\ Circle(d)' /\ Left(d, 1)'
<1>1. count = 0 /\ nodes = {}
  BY WholeEmpty DEF Links
<1>2. /\ count' = 1 /\ phead' = n /\ nodes' = {n}
      /\ next' = [next EXCEPT ![n] = n] /\ prev' = [prev EXCEPT ![n] = n]
      /\ pqdata' = [pqdata EXCEPT ![n] = b]
  BY <1>1 DEF Links, Link
<1>3. next'[n] = n /\ prev'[n] = n /\ pqdata'[n] = b
  BY <1>2 DEF Links, LqInv, LqType
<1>4. \A i \in 1..1 : i = 1 /\ d[i] = n /\ After(i, 1) = 1 /\ Before(i, 1) = 1
  BY DEF After, Before
<1>5. Circle(d)'
  BY <1>2, <1>3, <1>4 DEF Links, Circle
<1>6. nodes' = {d[i] : i \in 1..1}
  BY <1>2, <1>4
<1>7. Left(d, 1)'
  BY <1>2, <1>3, <1>4, <1>6 DEF Links, Left
<1> QED BY <1>2, <1>5, <1>7

\* The links after a node went between the back and the front.
LEMMA LinkBetween ==
  ASSUME NEW n, NEW b, NEW front \in BOOLEAN, Links(n, b, front), phead # NULL,
         NEW c, Circle(c), Left(c, 1)
  PROVE  /\ count \in Nat /\ count > 0 /\ count' = count + 1
         /\ nodes' = nodes \union {n}
         /\ next'[n] = c[1] /\ next'[c[count]] = n
         /\ prev'[n] = c[count] /\ prev'[c[1]] = n
         /\ \A i \in 1..(count - 1) : next'[c[i]] = c[i + 1] /\ prev'[c[i + 1]] = c[i]
         /\ pqdata'[n] = b
         /\ \A i \in 1..count : /\ c[i] \in Nodes /\ c[i] # n
                               /\ pqdata'[c[i]] = pqdata[c[i]] /\ pqdata[c[i]] # b
                               /\ pqdata[c[i]] \in heap' \ held'
         /\ b \in heap' \ held'
<1>1. count \in Nat /\ count > 0 /\ phead = c[1] /\ 1 \in 1..count /\ count \in 1..count
  BY DEF Links, LqInv, LqType, Left
<1>2. prev[phead] = c[count]
  BY <1>1 DEF Circle, Before
<1>3. /\ next' = [next EXCEPT ![n] = c[1], ![c[count]] = n]
      /\ prev' = [prev EXCEPT ![n] = c[count], ![c[1]] = n]
      /\ pqdata' = [pqdata EXCEPT ![n] = b]
      /\ nodes' = nodes \union {n} /\ count' = count + 1
  BY <1>1, <1>2 DEF Links, Link
<1>4. \A i \in 1..count : c[i] \in Nodes /\ c[i] # n /\ pqdata[c[i]] \in heap \ held
  BY DEF Links, Circle, Left
<1>5. n \in Nodes
  BY DEF Links
<1>6. /\ next'[n] = c[1] /\ next'[c[count]] = n
      /\ \A m \in Nodes : m # n /\ m # c[count] => next'[m] = next[m]
  BY <1>1, <1>3, <1>4, <1>5 DEF Links, LqInv, LqType
<1>7. /\ prev'[n] = c[count] /\ prev'[c[1]] = n
      /\ \A m \in Nodes : m # n /\ m # c[1] => prev'[m] = prev[m]
  BY <1>1, <1>3, <1>4, <1>5 DEF Links, LqInv, LqType
<1>8. ASSUME NEW i \in 1..(count - 1)
      PROVE  next'[c[i]] = c[i + 1] /\ prev'[c[i + 1]] = c[i]
  <2>1. i \in 1..count /\ i + 1 \in 1..count /\ i # count /\ i + 1 # 1
    BY <1>1
  <2>2. c[i] # c[count] /\ c[i + 1] # c[1]
    BY <1>1, <2>1 DEF Circle
  <2>3. next[c[i]] = c[i + 1] /\ prev[c[i + 1]] = c[i]
    BY <1>1, <2>1 DEF Circle, After, Before
  <2> QED BY <1>4, <1>6, <1>7, <2>1, <2>2, <2>3
<1>9. /\ pqdata'[n] = b
      /\ \A i \in 1..count : pqdata'[c[i]] = pqdata[c[i]]
  BY <1>3, <1>4, <1>5 DEF Links, LqInv, LqType
<1>10. /\ \A i \in 1..count : pqdata[c[i]] # b /\ pqdata[c[i]] \in heap' \ held'
       /\ b \in heap' \ held'
  BY <1>4 DEF Links
<1> QED BY <1>1, <1>3, <1>4, <1>6, <1>7, <1>8, <1>9, <1>10

\* Inserted at the back, the node is the last of the circle.
LEMMA LinkBack ==
  ASSUME NEW n, NEW b, Links(n, b, FALSE), phead # NULL,
         NEW c, Circle(c), Left(c, 1),
         NEW d, d = [i \in 1..(count + 1) |-> IF i = count + 1 THEN n ELSE c[i]]
  PROVE  Circle(d)' /\ Left(d, 1)'
<1>1. /\ count \in Nat /\ count > 0 /\ count' = count + 1
      /\ nodes' = nodes \union {n}
      /\ next'[n] = c[1] /\ next'[c[count]] = n
      /\ prev'[n] = c[count] /\ prev'[c[1]] = n
      /\ \A i \in 1..(count - 1) : next'[c[i]] = c[i + 1] /\ prev'[c[i + 1]] = c[i]
      /\ pqdata'[n] = b
      /\ \A i \in 1..count : /\ c[i] \in Nodes /\ c[i] # n
                            /\ pqdata'[c[i]] = pqdata[c[i]] /\ pqdata[c[i]] # b
                            /\ pqdata[c[i]] \in heap' \ held'
      /\ b \in heap' \ held'
  BY LinkBetween
<1>2. /\ d[count + 1] = n /\ \A i \in 1..count : d[i] = c[i]
      /\ \A i \in 1..(count + 1) : i = count + 1 \/ i \in 1..count
  BY <1>1
<1>3. d \in [1..(count + 1) -> Nodes]
  BY <1>1, <1>2 DEF Links
<1>4. \A i, j \in 1..(count + 1) : d[i] = d[j] => i = j
  BY <1>1, <1>2 DEF Circle
<1>5. \A i, j \in 1..(count + 1) : pqdata'[d[i]] = pqdata'[d[j]] => i = j
  <2>1. pqdata'[d[count + 1]] = b /\ \A i \in 1..count : pqdata'[d[i]] = pqdata[c[i]] /\ pqdata[c[i]] # b
    BY <1>1, <1>2
  <2>2. \A i, j \in 1..count : pqdata[c[i]] = pqdata[c[j]] => i = j
    BY DEF Circle
  <2> SUFFICES ASSUME NEW i \in 1..(count + 1), NEW j \in 1..(count + 1), pqdata'[d[i]] = pqdata'[d[j]]
               PROVE  i = j
    OBVIOUS
  <2>3. CASE i \in 1..count /\ j \in 1..count
    BY <2>1, <2>2, <2>3
  <2>4. CASE i = count + 1 \/ j = count + 1
    <3>1. i \in 1..count => pqdata'[d[i]] # b
      BY <2>1
    <3>2. j \in 1..count => pqdata'[d[j]] # b
      BY <2>1
    <3> QED BY <1>2, <2>1, <2>4, <3>1, <3>2
  <2> QED BY <1>2, <2>3, <2>4
<1>6. ASSUME NEW i \in 1..(count + 1)
      PROVE  next'[d[i]] = d[After(i, count + 1)] /\ prev'[d[i]] = d[Before(i, count + 1)]
  <2>1. CASE i = count + 1
    BY <1>1, <1>2, <2>1 DEF After, Before
  <2>2. next'[d[i]] = d[After(i, count + 1)]
    <3>1. CASE i = count
      BY <1>1, <1>2, <3>1 DEF After
    <3>2. CASE i \in 1..(count - 1)
      <4>1. i \in 1..count /\ i + 1 \in 1..count /\ i # count + 1
        BY <1>1, <3>2
      <4> QED BY <1>1, <1>2, <3>2, <4>1 DEF After
    <3> QED BY <1>1, <2>1, <3>1, <3>2
  <2>3. prev'[d[i]] = d[Before(i, count + 1)]
    <3>1. CASE i = 1
      BY <1>1, <1>2, <3>1 DEF Before
    <3>2. CASE i # 1 /\ i # count + 1
      <4>1. i - 1 \in 1..(count - 1) /\ i - 1 \in 1..count /\ i \in 1..count /\ (i - 1) + 1 = i
        BY <1>1, <3>2
      <4>2. prev'[c[(i - 1) + 1]] = c[i - 1]
        BY <1>1, <4>1
      <4> QED BY <1>2, <3>2, <4>1, <4>2 DEF Before
    <3> QED BY <2>1, <3>1, <3>2
  <2> QED BY <2>2, <2>3
<1>7. Circle(d)'
  BY <1>1, <1>3, <1>4, <1>5, <1>6 DEF Circle
<1>8. nodes' = {d[i] : i \in 1..(count + 1)}
  BY <1>1, <1>2 DEF Left
<1>9. phead' = d[1] /\ 1 \in 1..(count + 1)
  BY <1>1, <1>2 DEF Links, Link, Left
<1>10. \A i \in 1..(count + 1) : pqdata'[d[i]] \in heap' \ held'
  BY <1>1, <1>2
<1>11. Left(d, 1)'
  BY <1>1, <1>8, <1>9, <1>10 DEF Left
<1> QED BY <1>7, <1>11

\* Inserted at the front, it is the first.
LEMMA LinkFront ==
  ASSUME NEW n, NEW b, Links(n, b, TRUE), phead # NULL,
         NEW c, Circle(c), Left(c, 1),
         NEW d, d = [i \in 1..(count + 1) |-> IF i = 1 THEN n ELSE c[i - 1]]
  PROVE  Circle(d)' /\ Left(d, 1)'
<1>1. /\ count \in Nat /\ count > 0 /\ count' = count + 1
      /\ nodes' = nodes \union {n}
      /\ next'[n] = c[1] /\ next'[c[count]] = n
      /\ prev'[n] = c[count] /\ prev'[c[1]] = n
      /\ \A i \in 1..(count - 1) : next'[c[i]] = c[i + 1] /\ prev'[c[i + 1]] = c[i]
      /\ pqdata'[n] = b
      /\ \A i \in 1..count : /\ c[i] \in Nodes /\ c[i] # n
                            /\ pqdata'[c[i]] = pqdata[c[i]] /\ pqdata[c[i]] # b
                            /\ pqdata[c[i]] \in heap' \ held'
      /\ b \in heap' \ held'
  BY LinkBetween
<1>2. /\ d[1] = n /\ \A i \in 1..(count + 1) : i # 1 => d[i] = c[i - 1] /\ i - 1 \in 1..count
      /\ \A i \in 1..count : i + 1 \in 1..(count + 1) /\ i + 1 # 1 /\ d[i + 1] = c[i]
      /\ 1 \in 1..(count + 1)
  BY <1>1
<1>3. d \in [1..(count + 1) -> Nodes]
  <2>1. \A i \in 1..(count + 1) : d[i] \in Nodes
    BY <1>1, <1>2 DEF Links
  <2> QED BY <2>1
<1>4. \A i, j \in 1..(count + 1) : d[i] = d[j] => i = j
  <2>1. ASSUME NEW i \in 1..(count + 1), NEW j \in 1..(count + 1), d[i] = d[j], i # 1, j # 1 PROVE i = j
    <3>1. i - 1 \in 1..count /\ j - 1 \in 1..count /\ c[i - 1] = c[j - 1]
      BY <1>2, <2>1
    <3>2. i - 1 = j - 1
      BY <3>1 DEF Circle
    <3> QED BY <1>1, <3>2
  <2>2. ASSUME NEW i \in 1..(count + 1), i # 1 PROVE d[i] # d[1]
    BY <1>1, <1>2, <2>2
  <2> QED BY <2>1, <2>2
<1>5. \A i, j \in 1..(count + 1) : pqdata'[d[i]] = pqdata'[d[j]] => i = j
  <2>1. ASSUME NEW i \in 1..(count + 1), NEW j \in 1..(count + 1), pqdata'[d[i]] = pqdata'[d[j]], i # 1, j # 1
        PROVE  i = j
    <3>1. i - 1 \in 1..count /\ j - 1 \in 1..count /\ d[i] = c[i - 1] /\ d[j] = c[j - 1]
      BY <1>2, <2>1
    <3>2. pqdata[c[i - 1]] = pqdata[c[j - 1]]
      BY <1>1, <2>1, <3>1
    <3>3. i - 1 = j - 1
      BY <3>1, <3>2 DEF Circle
    <3> QED BY <1>1, <3>3
  <2>2. ASSUME NEW i \in 1..(count + 1), i # 1 PROVE pqdata'[d[i]] # pqdata'[d[1]]
    BY <1>1, <1>2, <2>2
  <2> QED BY <2>1, <2>2
<1>6. ASSUME NEW i \in 1..(count + 1)
      PROVE  next'[d[i]] = d[After(i, count + 1)] /\ prev'[d[i]] = d[Before(i, count + 1)]
  <2>1. CASE i = 1
    <3>1. After(1, count + 1) = 1 + 1 /\ d[1 + 1] = c[1]
      BY <1>1, <1>2 DEF After
    <3>2. Before(1, count + 1) = count + 1 /\ d[count + 1] = c[count]
      BY <1>1, <1>2 DEF Before
    <3> QED BY <1>1, <1>2, <2>1, <3>1, <3>2
  <2>2. CASE i = count + 1
    <3>1. d[i] = c[count] /\ After(i, count + 1) = 1
      BY <1>1, <1>2, <2>2 DEF After
    <3>2. next'[d[i]] = d[After(i, count + 1)]
      BY <1>1, <1>2, <3>1
    <3>3. CASE count = 1
      BY <1>1, <1>2, <2>2, <3>1, <3>2, <3>3 DEF Before
    <3>4. CASE count # 1
      <4>1. count - 1 \in 1..(count - 1) /\ (count - 1) + 1 = count /\ Before(i, count + 1) = count
        BY <1>1, <2>2, <3>4 DEF Before
      <4>2. prev'[c[(count - 1) + 1]] = c[count - 1]
        BY <1>1, <4>1
      <4>3. d[count] = c[count - 1]
        BY <1>1, <1>2, <3>4
      <4> QED BY <3>1, <3>2, <4>1, <4>2, <4>3
    <3> QED BY <3>3, <3>4
  <2>3. CASE i # 1 /\ i # count + 1
    <3>1. /\ i - 1 \in 1..(count - 1) /\ i - 1 \in 1..count /\ (i - 1) + 1 = i /\ i \in 1..count
          /\ After(i, count + 1) = i + 1 /\ Before(i, count + 1) = i - 1
      BY <1>1, <2>3 DEF After, Before
    <3>2. d[i] = c[i - 1] /\ d[i + 1] = c[i]
      BY <1>2, <2>3, <3>1
    <3>3. next'[c[i - 1]] = c[(i - 1) + 1]
      BY <1>1, <3>1
    <3>4. prev'[d[i]] = d[i - 1]
      <4>1. CASE i = 2
        BY <1>1, <1>2, <3>2, <4>1
      <4>2. CASE i # 2
        <5>1. /\ i - 2 \in 1..(count - 1) /\ (i - 2) + 1 = i - 1 /\ i - 1 # 1
              /\ i - 1 \in 1..(count + 1) /\ (i - 1) - 1 = i - 2
          BY <1>1, <2>3, <4>2
        <5>2. prev'[c[(i - 2) + 1]] = c[i - 2]
          BY <1>1, <5>1
        <5>3. d[i - 1] = c[i - 2]
          BY <1>2, <5>1
        <5> QED BY <3>2, <5>1, <5>2, <5>3
      <4> QED BY <4>1, <4>2
    <3> QED BY <3>1, <3>2, <3>3, <3>4
  <2> QED BY <2>1, <2>2, <2>3
<1>7. Circle(d)'
  <2>1. count' = count + 1
    BY <1>1
  <2> QED BY <1>3, <1>4, <1>5, <1>6, <2>1 DEF Circle
<1>8. nodes' = {d[i] : i \in 1..(count + 1)}
  <2>1. \A i \in 1..(count + 1) : d[i] \in nodes'
    BY <1>1, <1>2 DEF Left
  <2>2. \A m \in nodes' : \E i \in 1..(count + 1) : m = d[i]
    BY <1>1, <1>2 DEF Left
  <2> QED BY <2>1, <2>2
<1>9. phead' = d[1] /\ 1 \in 1..(count + 1)
  BY <1>1, <1>2 DEF Links, Link, Left
<1>10. \A i \in 1..(count + 1) : pqdata'[d[i]] \in heap' \ held'
  BY <1>1, <1>2
<1>11. Left(d, 1)'
  BY <1>1, <1>8, <1>9, <1>10 DEF Left
<1> QED BY <1>7, <1>11

\* Both kinds of enqueue do this, and keep the types and the bound.
LEMMA EnqueueLinks ==
  ASSUME LqInv, NEW front \in BOOLEAN, EnqueueExt(front) \/ EnqueueOwn(front)
  PROVE  /\ \E n, b : Links(n, b, front)
         /\ LqType' /\ Bounded'
<1>1. LqType /\ Whole /\ pc' = "idle" /\ size' = size /\ ub' = ub
  BY DEF LqInv, EnqueueExt, EnqueueOwn, Idle, Whole
<1>2. \E n, b : Links(n, b, front)
  <2>1. CASE EnqueueExt(front)
    <3>1. PICK n \in Nodes \ nodes, b \in Blocks \ heap : heap' = heap \union {b} /\ Link(n, b, front)
      BY <2>1 DEF EnqueueExt
    <3>2. held' = held /\ held \subseteq heap /\ heap \subseteq Blocks
      BY <1>1, <2>1 DEF EnqueueExt, LqType
    <3> QED BY <1>1, <3>1, <3>2 DEF Links
  <2>2. CASE EnqueueOwn(front)
    <3>1. PICK n \in Nodes \ nodes, b \in held : held' = held \ {b} /\ Link(n, b, front)
      BY <2>2 DEF EnqueueOwn
    <3>2. heap' = heap /\ held \subseteq heap /\ heap \subseteq Blocks
      BY <1>1, <2>2 DEF EnqueueOwn, LqType
    <3> QED BY <1>1, <3>1, <3>2 DEF Links
  <2> QED BY <2>1, <2>2
<1>3. PICK n, b : Links(n, b, front)
  BY <1>2
<1>4. n \in Nodes /\ b \in Blocks /\ (phead # NULL => prev[phead] \in Nodes)
  <2>1. CASE phead = NULL
    BY <1>3, <2>1 DEF Links
  <2>2. CASE phead # NULL
    <3>1. PICK c : Circle(c) /\ Left(c, 1)
      BY <1>1, <2>2, WholeCircle
    <3>2. Before(1, count) \in 1..count /\ prev[phead] = c[Before(1, count)]
      BY <1>1, <3>1 DEF Circle, Left, Before, LqType
    <3> QED BY <1>3, <3>1, <3>2 DEF Links, Circle
  <2> QED BY <2>1, <2>2
<1>5. /\ next' \in [Nodes -> Nodes \union {NULL}] /\ prev' \in [Nodes -> Nodes \union {NULL}]
      /\ pqdata' \in [Nodes -> Blocks \union {NULL}]
  <2>1. CASE phead = NULL
    BY <1>1, <1>3, <1>4, <2>1 DEF Links, Link, LqType
  <2>2. CASE phead # NULL
    <3>1. phead \in Nodes /\ prev[phead] \in Nodes
      BY <1>1, <1>4, <2>2 DEF LqType
    <3> QED BY <1>1, <1>3, <1>4, <2>2, <3>1 DEF Links, Link, LqType
  <2> QED BY <2>1, <2>2
<1>6. LqType'
  BY <1>1, <1>3, <1>4, <1>5 DEF Links, Link, LqType
<1>7. ~Full /\ count' = count + 1
  BY <1>3 DEF EnqueueExt, EnqueueOwn, Links, Link
<1>8. Bounded'
  BY <1>1, <1>7 DEF Full, Bounded, LqType
<1> QED BY <1>2, <1>6, <1>8

\* The items are the payloads along the circle.
ItemsAlong == \A c : count \in Nat /\ Circle(c) /\ phead = c[1] => Items = [i \in 1..count |-> pqdata[c[i]]]

\* They are, in every state.
LEMMA ItemsAre == ItemsAlong
BY WalkIs DEF Items, ItemsAlong

\* And so they are in the next one.
LEMMA ItemsAreNext == ItemsAlong'
BY ItemsAre, PTL

\* An enqueue adds one item at its end, and the list is whole after it.
LEMMA EnqueueAdds ==
  ASSUME NEW n, NEW b, NEW front \in BOOLEAN, Links(n, b, front), LqType'
  PROVE  /\ \E d : Circle(d)' /\ Left(d, 1)'
         /\ Items' = IF front THEN << b >> \o Items ELSE Append(Items, b)
         /\ b \in heap' \ held'
<1>0. count \in Nat /\ count' \in Nat /\ b \in heap' \ held'
  BY DEF Links, LqInv, LqType
<1>1. CASE phead = NULL
  <2>1. PICK d : d = [i \in 1..1 |-> n]
    OBVIOUS
  <2>2. count' = 1 /\ Circle(d)' /\ Left(d, 1)'
    BY <1>1, <2>1, LinkFirst
  <2>3. Items' = [i \in 1..1 |-> pqdata'[n]]
    <3>1. phead' = d[1]
      BY <2>2 DEF Left
    <3>2. Items' = [i \in 1..count' |-> pqdata'[d[i]]]
      BY <1>0, <2>2, <3>1, ItemsAreNext DEF ItemsAlong
    <3> QED BY <2>1, <2>2, <3>2
  <2>4. pqdata'[n] = b
    BY DEF Links, LqInv, LqType, Link
  <2>5. Items = << >>
    <3>1. count = 0
      BY <1>1, WholeEmpty DEF Links
    <3> QED BY <3>1 DEF Items
  <2> QED BY <1>0, <2>2, <2>3, <2>4, <2>5
<1>2. CASE phead # NULL
  <2>1. PICK c : Circle(c) /\ Left(c, 1)
    BY <1>2, WholeCircle DEF Links
  <2>2. PICK it : it = [i \in 1..count |-> pqdata[c[i]]]
    OBVIOUS
  <2>3. Items = it
    BY <1>0, <2>1, <2>2, ItemsAre DEF Left, ItemsAlong
  <2>4. /\ count > 0 /\ count' = count + 1 /\ pqdata'[n] = b
        /\ \A i \in 1..count : pqdata'[c[i]] = pqdata[c[i]]
    BY <1>2, <2>1, LinkBetween
  <2>5. it \in Seq(Blocks \union {NULL}) /\ Len(it) = count
    BY <1>0, <2>1, <2>2 DEF Links, LqInv, LqType, Circle
  <2>6. CASE front = TRUE
    <3>1. PICK d : d = [i \in 1..(count + 1) |-> IF i = 1 THEN n ELSE c[i - 1]]
      OBVIOUS
    <3>2. Circle(d)' /\ Left(d, 1)'
      BY <1>2, <2>1, <2>6, <3>1, LinkFront
    <3>3. phead' = d[1]
      BY <3>2 DEF Left
    <3>4. Items' = [i \in 1..count' |-> pqdata'[d[i]]]
      BY <1>0, <3>2, <3>3, ItemsAreNext DEF ItemsAlong
    <3>5. << b >> \o it = [i \in 1..(count + 1) |-> IF i = 1 THEN b ELSE pqdata[c[i - 1]]]
      BY <1>0, <2>2, <2>5
    <3>6. \A i \in 1..(count + 1) : pqdata'[d[i]] = IF i = 1 THEN b ELSE pqdata[c[i - 1]]
      <4>1. \A i \in 1..(count + 1) : i # 1 => i - 1 \in 1..count
        BY <1>0
      <4> QED BY <2>4, <3>1, <4>1
    <3>7. Items' = << b >> \o it
      BY <2>4, <3>4, <3>5, <3>6
    <3> QED BY <1>0, <2>3, <2>6, <3>2, <3>7
  <2>7. CASE front = FALSE
    <3>1. PICK d : d = [i \in 1..(count + 1) |-> IF i = count + 1 THEN n ELSE c[i]]
      OBVIOUS
    <3>2. Circle(d)' /\ Left(d, 1)'
      BY <1>2, <2>1, <2>7, <3>1, LinkBack
    <3>3. phead' = d[1]
      BY <3>2 DEF Left
    <3>4. Items' = [i \in 1..count' |-> pqdata'[d[i]]]
      BY <1>0, <3>2, <3>3, ItemsAreNext DEF ItemsAlong
    <3>5. Append(it, b) = [i \in 1..(count + 1) |-> IF i = count + 1 THEN b ELSE pqdata[c[i]]]
      BY <1>0, <2>2, <2>5
    <3>6. \A i \in 1..(count + 1) : pqdata'[d[i]] = IF i = count + 1 THEN b ELSE pqdata[c[i]]
      <4>1. \A i \in 1..(count + 1) : i # count + 1 => i \in 1..count
        BY <1>0
      <4> QED BY <2>4, <3>1, <4>1
    <3>7. Items' = Append(it, b)
      BY <2>4, <3>4, <3>5, <3>6
    <3> QED BY <1>0, <2>3, <2>7, <3>2, <3>7
  <2> QED BY <2>6, <2>7
<1> QED BY <1>1, <1>2

\* An enqueue keeps the invariant.
LEMMA EnqueueKeeps ==
  ASSUME LqInv, NEW front \in BOOLEAN, EnqueueExt(front) \/ EnqueueOwn(front)
  PROVE  LqInv'
<1>1. PICK n, b : Links(n, b, front)
  BY EnqueueLinks
<1>2. LqType' /\ Bounded'
  BY EnqueueLinks
<1>3. PICK d : Circle(d)' /\ Left(d, 1)'
  BY <1>1, <1>2, EnqueueAdds
<1>4. 1 \in 1..count'
  BY <1>3 DEF Left
<1> QED BY <1>2, <1>3, <1>4 DEF LqInv, Listed

\* A dequeue from either end finds a whole circle.
LEMMA DequeueFinds ==
  ASSUME LqInv, Idle, phead # NULL, ~Dangling
  PROVE  /\ \E c : Circle(c) /\ Left(c, 1)
         /\ count \in Nat /\ count > 0 /\ phead \in Nodes
         /\ Single => count = 1 /\ nodes = {phead}
         /\ ~Single => count > 1
<1>1. PICK c : Circle(c) /\ Left(c, 1)
  BY WholeCircle DEF Whole, Idle
<1>2. count \in Nat /\ count > 0 /\ phead \in Nodes
  BY <1>1 DEF LqInv, LqType, Left
<1>3. Single <=> count = 1
  BY <1>1, <1>2, SingleIsOne
<1>4. count = 1 => nodes = {phead}
  BY <1>1 DEF Left
<1> QED BY <1>1, <1>2, <1>3, <1>4

\* The last item is taken: the list is empty.
LEMMA LastTaken ==
  ASSUME LqInv, Idle, phead # NULL, ~Dangling, Single, DequeueFront \/ DequeueBack
  PROVE  LqInv' /\ phead' = NULL /\ count' = 0
<1>1. /\ count = 1 /\ nodes = {phead} /\ phead \in Nodes
      /\ \E c : Circle(c) /\ Left(c, 1)
  BY DequeueFinds
<1>2. pqdata[phead] \in heap
  BY <1>1 DEF Left
<1>3. /\ phead' = NULL /\ count' = 0 /\ nodes' = {} /\ UNCHANGED <<size, next, prev, pqdata, heap, pc, ub>>
      /\ held' = held \/ held' = held \union {pqdata[phead]}
  <2>1. CASE DequeueFront
    BY <1>1, <2>1 DEF DequeueFront
  <2>2. CASE DequeueBack
    BY <1>1, <2>2 DEF DequeueBack
  <2> QED BY <2>1, <2>2
<1>4. LqType' /\ Bounded'
  BY <1>2, <1>3 DEF LqInv, LqType, Bounded
<1>5. Empty'
  BY <1>3 DEF Empty
<1> QED BY <1>3, <1>4, <1>5 DEF LqInv, Listed

\* With two or more, dequeueing the front loses the head.
LEMMA FrontLoses ==
  ASSUME LqInv, DequeueFront, ~Single
  PROVE  LqInv' /\ Dangling' /\ count > 1
<1>1. Idle /\ phead # NULL /\ ~Dangling
  BY DEF DequeueFront
<1>2. count \in Nat /\ count > 1 /\ phead \in Nodes
  BY <1>1, DequeueFinds
<1>3. /\ count' = count - 1 /\ nodes' = nodes \ {phead}
      /\ next' = [next EXCEPT ![prev[phead]] = next[phead]]
      /\ prev' = [prev EXCEPT ![next[phead]] = prev[phead]]
      /\ UNCHANGED <<phead, size, pqdata, heap, held, pc, ub>>
  BY DEF DequeueFront
<1>4. LqType'
  <2>1. LqType /\ next[phead] \in Nodes \union {NULL} /\ prev[phead] \in Nodes \union {NULL}
    BY <1>2 DEF LqInv, LqType
  <2>2. next' \in [Nodes -> Nodes \union {NULL}] /\ prev' \in [Nodes -> Nodes \union {NULL}]
    BY <1>3, <2>1 DEF LqType
  <2>3. count' \in Nat /\ nodes' \subseteq Nodes
    BY <1>2, <1>3, <2>1 DEF LqType
  <2> QED BY <1>3, <2>1, <2>2, <2>3 DEF LqType
<1>5. Bounded'
  BY <1>2, <1>3 DEF LqInv, LqType, Bounded
<1>6. Dangling'
  BY <1>1, <1>3 DEF Dangling
<1> QED BY <1>2, <1>4, <1>5, <1>6 DEF LqInv, Listed

\* With two or more, dequeueing the back leaves the others in their circle.
LEMMA BackTaken ==
  ASSUME LqInv, DequeueBack, ~Single, NEW c, Circle(c), Left(c, 1),
         NEW d, d = [i \in 1..(count - 1) |-> c[i]]
  PROVE  /\ Circle(d)' /\ Left(d, 1)'
         /\ count \in Nat /\ count > 1 /\ count' = count - 1 /\ pqdata' = pqdata
         /\ held' = held \union {pqdata[c[count]]}
         /\ LqType'
<1>1. Idle /\ phead # NULL /\ ~Dangling
  BY DEF DequeueBack
<1>2. count \in Nat /\ count > 1 /\ phead \in Nodes
  BY <1>1, DequeueFinds
<1>3. /\ phead = c[1] /\ prev[phead] = c[count] /\ prev[c[count]] = c[count - 1]
      /\ 1 \in 1..count /\ count \in 1..count /\ count - 1 \in 1..count
      /\ c[1] \in Nodes /\ c[count] \in Nodes /\ c[count - 1] \in Nodes
  BY <1>2 DEF Circle, Left, Before
<1>4. /\ next' = [next EXCEPT ![c[count - 1]] = c[1]]
      /\ prev' = [prev EXCEPT ![c[1]] = c[count - 1]]
      /\ held' = held \union {pqdata[c[count]]}
      /\ nodes' = nodes \ {c[count]} /\ count' = count - 1
      /\ UNCHANGED <<phead, size, pqdata, heap, pc, ub>>
  BY <1>3 DEF DequeueBack
<1>5. \A i \in 1..(count - 1) : i \in 1..count /\ i # count /\ d[i] = c[i] /\ c[i] \in Nodes
  BY <1>2 DEF Circle
<1>6. ASSUME NEW i \in 1..(count - 1)
      PROVE  next'[d[i]] = d[After(i, count - 1)] /\ prev'[d[i]] = d[Before(i, count - 1)]
  <2>1. next'[c[i]] = c[After(i, count - 1)] /\ After(i, count - 1) \in 1..(count - 1)
    <3>1. CASE i = count - 1
      BY <1>2, <1>3, <1>4, <3>1 DEF After, LqInv, LqType
    <3>2. CASE i # count - 1
      <4>1. c[i] # c[count - 1]
        BY <1>3, <1>5, <3>2 DEF Circle
      <4>2. After(i, count) = After(i, count - 1) /\ After(i, count - 1) \in 1..(count - 1)
        BY <1>2, <3>2 DEF After
      <4>3. next'[c[i]] = next[c[i]]
        BY <1>3, <1>4, <1>5, <4>1 DEF LqInv, LqType
      <4> QED BY <1>5, <4>2, <4>3 DEF Circle
    <3> QED BY <3>1, <3>2
  <2>2. prev'[c[i]] = c[Before(i, count - 1)] /\ Before(i, count - 1) \in 1..(count - 1)
    <3>1. CASE i = 1
      BY <1>2, <1>3, <1>4, <3>1 DEF Before, LqInv, LqType
    <3>2. CASE i # 1
      <4>1. c[i] # c[1]
        BY <1>3, <1>5, <3>2 DEF Circle
      <4>2. Before(i, count) = Before(i, count - 1) /\ Before(i, count - 1) \in 1..(count - 1)
        BY <1>2, <3>2 DEF Before
      <4>3. prev'[c[i]] = prev[c[i]]
        BY <1>3, <1>4, <1>5, <4>1 DEF LqInv, LqType
      <4> QED BY <1>5, <4>2, <4>3 DEF Circle
    <3> QED BY <3>1, <3>2
  <2> QED BY <1>5, <2>1, <2>2
<1>7. /\ \A i, j \in 1..(count - 1) : d[i] = d[j] => i = j
      /\ \A i, j \in 1..(count - 1) : pqdata'[d[i]] = pqdata'[d[j]] => i = j
  BY <1>4, <1>5 DEF Circle
<1>8. d \in [1..(count - 1) -> Nodes]
  <2>1. \A i \in 1..(count - 1) : d[i] \in Nodes
    BY <1>5
  <2> QED BY <2>1
<1>9. Circle(d)'
  <2>1. count' = count - 1
    BY <1>4
  <2> QED BY <1>6, <1>7, <1>8, <2>1 DEF Circle
<1>10. nodes' = {d[i] : i \in 1..(count - 1)}
  <2>1. \A i \in 1..(count - 1) : d[i] \in nodes'
    <3> SUFFICES ASSUME NEW i \in 1..(count - 1) PROVE d[i] \in nodes'
      OBVIOUS
    <3>1. c[i] # c[count] /\ c[i] \in nodes
      BY <1>3, <1>5 DEF Circle, Left
    <3> QED BY <1>4, <1>5, <3>1
  <2>2. \A m \in nodes' : \E i \in 1..(count - 1) : m = d[i]
    <3> SUFFICES ASSUME NEW m \in nodes' PROVE \E i \in 1..(count - 1) : m = d[i]
      OBVIOUS
    <3>1. m \in nodes /\ m # c[count]
      BY <1>4
    <3>2. PICK i \in 1..count : m = c[i]
      BY <3>1 DEF Left
    <3>3. i \in 1..(count - 1)
      BY <1>2, <3>1, <3>2
    <3> QED BY <1>5, <3>2, <3>3
  <2> QED BY <2>1, <2>2
<1>11. \A i \in 1..(count - 1) : pqdata'[d[i]] \in heap' \ held'
  <2> SUFFICES ASSUME NEW i \in 1..(count - 1) PROVE pqdata'[d[i]] \in heap' \ held'
    OBVIOUS
  <2>1. pqdata[c[i]] \in heap \ held /\ pqdata[c[i]] # pqdata[c[count]]
    BY <1>3, <1>5 DEF Circle, Left
  <2> QED BY <1>4, <1>5, <2>1
<1>12. phead' = d[1] /\ 1 \in 1..(count - 1)
  BY <1>2, <1>3, <1>4, <1>5
<1>13. Left(d, 1)'
  <2>1. count' = count - 1
    BY <1>4
  <2> QED BY <1>10, <1>11, <1>12, <2>1 DEF Left
<1>14. pqdata[c[count]] \in heap
  BY <1>3 DEF Left
<1>15. LqType'
  BY <1>2, <1>3, <1>4, <1>14 DEF LqInv, LqType
<1> QED BY <1>2, <1>4, <1>9, <1>13, <1>15

\* Dequeueing keeps the invariant.
LEMMA DequeueKeeps == LqInv /\ (DequeueFront \/ DequeueBack) => LqInv'
<1> SUFFICES ASSUME LqInv, DequeueFront \/ DequeueBack PROVE LqInv'
  OBVIOUS
<1>1. Idle /\ phead # NULL /\ ~Dangling
  BY DEF DequeueFront, DequeueBack
<1>2. CASE Single
  BY <1>1, <1>2, LastTaken
<1>3. CASE ~Single /\ DequeueFront
  BY <1>3, FrontLoses
<1>4. CASE ~Single /\ DequeueBack
  <2>1. PICK c : Circle(c) /\ Left(c, 1)
    BY <1>1, DequeueFinds
  <2>2. PICK d : d = [i \in 1..(count - 1) |-> c[i]]
    OBVIOUS
  <2>3. /\ Circle(d)' /\ Left(d, 1)' /\ LqType'
        /\ count \in Nat /\ count' = count - 1
    BY <1>4, <2>1, <2>2, BackTaken
  <2>4. Bounded'
    BY <1>4, <2>3 DEF LqInv, LqType, Bounded, DequeueBack
  <2>5. 1 \in 1..count'
    BY <2>3 DEF Left
  <2> QED BY <2>3, <2>4, <2>5 DEF LqInv, Listed
<1> QED BY <1>2, <1>3, <1>4

\* lqueue_destroy frees the nodes from phead on; the last one of two or more points at
\* a node that is freed.
LEMMA DestroyOneKeeps ==
  ASSUME LqInv, DestroyOne
  PROVE  LqInv' /\ (Dangling' => count > 1)
<1>1. pc = "destroy" /\ phead # NULL /\ ~Dangling
  BY DEF DestroyOne
<1>2. PICK c : Circle(c) /\ \E k \in 1..count : Left(c, k)
  BY <1>1 DEF LqInv, Listed, Empty
<1>3. PICK k \in 1..count : Left(c, k)
  BY <1>2
<1>4. count \in Nat
  BY DEF LqInv, LqType
<1>5. /\ nodes' = nodes \ {phead} /\ heap' = heap \ {pqdata[phead]}
      /\ phead' = IF Single THEN NULL ELSE next[phead]
      /\ UNCHANGED <<count, size, next, prev, pqdata, held, pc, ub>>
  BY DEF DestroyOne, links
<1>6. phead = c[k] /\ phead \in Nodes /\ next[phead] = c[After(k, count)] /\ k \in k..count
  BY <1>2, <1>3, <1>4 DEF Circle, Left
<1>7. After(k, count) \in 1..count
  BY <1>4 DEF After
<1>8. LqType' /\ Bounded'
  <2>1. next[phead] \in Nodes
    BY <1>2, <1>6, <1>7 DEF Circle
  <2>2. pqdata[phead] \notin held
    BY <1>3, <1>6 DEF Left
  <2> QED BY <1>5, <2>1, <2>2 DEF LqInv, LqType, Bounded
<1>9. CASE Single
  <2>1. count = 1
    BY <1>2, <1>3, <1>4, <1>9, SingleIsOne
  <2>2. nodes' = {} /\ phead' = NULL
    BY <1>3, <1>5, <1>9, <2>1 DEF Left
  <2>3. Empty' /\ ~Dangling'
    BY <1>1, <1>5, <2>2 DEF Empty, Dangling
  <2> QED BY <1>8, <2>3 DEF LqInv, Listed
<1>10. CASE ~Single
  <2>1. count > 1
    BY <1>2, <1>3, <1>4, <1>10, SingleIsOne
  <2>2. phead' = c[After(k, count)]
    BY <1>5, <1>6, <1>10
  <2>3. CASE k = count
    <3>1. c[1] \notin nodes
      BY <1>2, <1>3, <1>4, <2>1, <2>3 DEF Circle, Left
    <3>2. phead' = c[1] /\ c[1] \in Nodes
      BY <1>2, <1>4, <2>1, <2>2, <2>3 DEF After, Circle
    <3>3. Dangling'
      BY <1>5, <3>1, <3>2, LQueueAssumption DEF Dangling
    <3> QED BY <1>8, <2>1, <3>3 DEF LqInv, Listed
  <2>4. CASE k # count
    <3>1. k + 1 \in 1..count /\ phead' = c[k + 1]
      BY <1>4, <2>2, <2>4 DEF After
    <3>2. Circle(c)'
      BY <1>2, <1>5 DEF Circle
    <3>3. \A i \in (k + 1)..count : i \in k..count /\ i # k /\ i \in 1..count
      BY <1>4
    <3>4. \A i \in k..count : i = k \/ i \in (k + 1)..count
      BY <1>4
    <3>5. \A i \in (k + 1)..count : c[i] # c[k] /\ pqdata[c[i]] # pqdata[c[k]]
      BY <1>2, <3>3 DEF Circle
    <3>6. nodes' = {c[i] : i \in (k + 1)..count}
      <4>1. \A i \in (k + 1)..count : c[i] \in nodes'
        BY <1>3, <1>5, <1>6, <3>3, <3>5 DEF Left
      <4>2. \A m \in nodes' : \E i \in (k + 1)..count : m = c[i]
        <5> SUFFICES ASSUME NEW m \in nodes' PROVE \E i \in (k + 1)..count : m = c[i]
          OBVIOUS
        <5>1. m \in nodes /\ m # c[k]
          BY <1>5, <1>6
        <5>2. PICK i \in k..count : m = c[i]
          BY <1>3, <5>1 DEF Left
        <5> QED BY <3>4, <5>1, <5>2
      <4> QED BY <4>1, <4>2
    <3>7. \A i \in (k + 1)..count : pqdata'[c[i]] \in heap' \ held'
      BY <1>3, <1>5, <1>6, <3>3, <3>5 DEF Left
    <3>8. Left(c, k + 1)'
      BY <1>5, <3>1, <3>6, <3>7 DEF Left
    <3>9. pc' = "destroy" /\ k + 1 \in 1..count'
      BY <1>1, <1>5, <3>1
    <3> QED BY <1>8, <2>1, <3>2, <3>8, <3>9 DEF LqInv, Listed
  <2> QED BY <2>3, <2>4
<1> QED BY <1>9, <1>10

\* The other steps of lqueue_destroy, and a call that follows a lost head.
LEMMA EndsKeep == LqInv /\ (Destroy \/ DestroyEnd \/ Fault) => LqInv' /\ (Dangling' => Dangling)
<1> SUFFICES ASSUME LqInv, Destroy \/ DestroyEnd \/ Fault PROVE LqInv' /\ (Dangling' => Dangling)
  OBVIOUS
<1>1. CASE DestroyEnd
  <2>1. phead = NULL /\ phead' = NULL /\ nodes' = nodes /\ count' = 0 /\ size' = 0 /\ pc' = "idle"
        /\ UNCHANGED <<next, prev, pqdata, heap, held, ub>>
    BY <1>1 DEF DestroyEnd, links
  <2>2. nodes = {}
    <3>1. ASSUME NEW c, Circle(c), NEW k \in 1..count, Left(c, k) PROVE FALSE
      BY <2>1, <3>1, LQueueAssumption DEF Left, Circle
    <3>2. ~Dangling
      BY <2>1 DEF Dangling
    <3> QED BY <3>1, <3>2 DEF LqInv, Listed, Empty
  <2>3. Empty'
    BY <2>1, <2>2 DEF Empty
  <2>4. LqType' /\ Bounded' /\ ~Dangling'
    BY <2>1 DEF LqInv, LqType, Bounded, Dangling
  <2> QED BY <2>3, <2>4 DEF LqInv, Listed
<1>2. CASE Destroy \/ Fault
  <2>1. /\ UNCHANGED <<phead, count, size, next, prev, pqdata, nodes, heap, held>>
        /\ pc' = pc \/ pc' = "destroy"
        /\ ub' = ub \/ ub' = TRUE
    BY <1>2 DEF Destroy, Fault, links
  <2>2. LqType' /\ Bounded' /\ (Dangling' <=> Dangling)
    BY <2>1 DEF LqInv, LqType, Bounded, Dangling
  <2>3. Listed'
    <3>1. CASE Dangling
      BY <2>2, <3>1 DEF Listed
    <3>2. CASE Empty
      <4>1. Empty'
        BY <2>1, <3>2 DEF Empty
      <4> QED BY <4>1 DEF Listed
    <3>3. CASE \E c : Circle(c) /\ \E k \in 1..count : Left(c, k) /\ (pc = "idle" => k = 1)
      <4>1. PICK c : Circle(c) /\ \E k \in 1..count : Left(c, k) /\ (pc = "idle" => k = 1)
        BY <3>3
      <4>2. PICK k \in 1..count : Left(c, k) /\ (pc = "idle" => k = 1)
        BY <4>1
      <4>3. Circle(c)'
        BY <2>1, <4>1 DEF Circle
      <4>4. Left(c, k)' /\ k \in 1..count' /\ (pc' = "idle" => k = 1)
        BY <2>1, <4>2 DEF Left
      <4> QED BY <4>3, <4>4 DEF Listed
    <3> QED BY <3>1, <3>2, <3>3 DEF LqInv, Listed
  <2> QED BY <2>2, <2>3 DEF LqInv
<1> QED BY <1>1, <1>2

\* Every step keeps the invariant.
LEMMA LqStep == LqInv /\ [Next]_vars => LqInv'
<1> SUFFICES ASSUME LqInv, [Next]_vars PROVE LqInv'
  OBVIOUS
<1>1. CASE CallerMalloc \/ CallerFree
  BY <1>1, CallerKeeps
<1>2. CASE \E front \in BOOLEAN : EnqueueExt(front) \/ EnqueueOwn(front)
  BY <1>2, EnqueueKeeps
<1>3. CASE DequeueFront \/ DequeueBack
  BY <1>3, DequeueKeeps
<1>4. CASE DestroyOne
  BY <1>4, DestroyOneKeeps
<1>5. CASE Destroy \/ DestroyEnd \/ EnqueueFault \/ DequeueFault \/ DestroyFault
  BY <1>5, EndsKeep DEF EnqueueFault, DequeueFault, DestroyFault
<1>6. CASE UNCHANGED vars
  <2>1. UNCHANGED <<phead, count, size, next, prev, pqdata, nodes, heap, held, pc, ub>>
    BY <1>6 DEF vars, links
  <2>2. LqType' /\ Bounded'
    BY <2>1 DEF LqInv, LqType, Bounded
  <2>3. Listed'
    BY <2>1 DEF LqInv, Listed, Dangling, Empty, Circle, Left
  <2> QED BY <2>2, <2>3 DEF LqInv
<1> QED BY <1>1, <1>2, <1>3, <1>4, <1>5, <1>6 DEF Next

\* The invariant holds always.
LEMMA LqAlways == Spec => []LqInv
<1> QED BY LqInitInv, LqStep, PTL DEF Spec

------------------------------------------------------------------------------
(* The theorems.                                                           *)

\* While the head is not lost, the next pointers lead through every allocated node once
\* and back, the prev pointers undo them, and what is queued is allocated, in one place
\* and not in the caller's hands (lqueue.c:38-187, 216-242).
THEOREM CircleSafe == Spec => []CircleClosed
<1> QED BY LqAlways, InvCloses, PTL

\* The head is lost only by dequeueing the front of two or more items and by destroying
\* two or more (lqueue.c:205-210, 250-262).
THEOREM HeadSafe == Spec => HeadLostOnlyThere
<1> DEFINE Lost == ~Dangling /\ Dangling' =>
                     \/ pc = "idle" /\ count >= 2 /\ DequeueFront
                     \/ pc = "destroy" /\ count >= 2 /\ DestroyOne
<1>1. ASSUME LqInv, LqInv', [Next]_vars PROVE [Lost]_vars
  <2> SUFFICES ASSUME ~Dangling, Dangling', Next
               PROVE  \/ pc = "idle" /\ count >= 2 /\ DequeueFront
                      \/ pc = "destroy" /\ count >= 2 /\ DestroyOne
    BY <1>1 DEF vars, links
  <2>1. CASE CallerMalloc \/ CallerFree
    BY <2>1 DEF CallerMalloc, CallerFree, Dangling
  <2>2. ASSUME NEW front \in BOOLEAN, EnqueueExt(front) \/ EnqueueOwn(front) PROVE FALSE
    BY <2>2 DEF EnqueueExt, EnqueueOwn, Link, Dangling
  <2>3. CASE DequeueFront
    <3>1. Idle /\ phead # NULL /\ ~Dangling
      BY <2>3 DEF DequeueFront
    <3>2. ~Single
      BY <1>1, <2>3, <3>1, LastTaken DEF Dangling
    <3>3. count \in Nat /\ count > 1
      BY <1>1, <2>3, <3>2, FrontLoses DEF LqInv, LqType
    <3> QED BY <2>3, <3>1, <3>3 DEF Idle
  <2>4. CASE DequeueBack
    <3>1. Idle /\ phead # NULL /\ ~Dangling
      BY <2>4 DEF DequeueBack
    <3>2. ~Single
      BY <1>1, <2>4, <3>1, LastTaken DEF Dangling
    <3>3. PICK c : Circle(c) /\ Left(c, 1)
      BY <1>1, <3>1, DequeueFinds
    <3>4. PICK d : d = [i \in 1..(count - 1) |-> c[i]]
      OBVIOUS
    <3>5. Left(d, 1)' /\ count' \in Nat
      BY <1>1, <2>4, <3>2, <3>3, <3>4, BackTaken DEF LqType
    <3>6. phead' \in nodes'
      BY <3>5 DEF Left
    <3> QED BY <3>6 DEF Dangling
  <2>5. CASE DestroyOne
    <3>1. count > 1 /\ count \in Nat
      BY <1>1, <2>5, DestroyOneKeeps DEF LqInv, LqType
    <3> QED BY <2>5, <3>1 DEF DestroyOne
  <2>6. CASE Destroy \/ DestroyEnd \/ EnqueueFault \/ DequeueFault \/ DestroyFault
    BY <1>1, <2>6, EndsKeep DEF EnqueueFault, DequeueFault, DestroyFault
  <2> QED BY <2>1, <2>2, <2>3, <2>4, <2>5, <2>6 DEF Next
<1>2. Spec => [][Lost]_vars
  BY <1>1, LqAlways, PTL DEF Spec
<1> QED BY <1>2 DEF HeadLostOnlyThere

\* What a step between two whole lists does to the contents.
DequeStep ==
  Whole /\ Whole' =>
    \/ Items' = Items
    \/ \E front \in BOOLEAN, b \in Blocks :
         /\ EnqueueExt(front) \/ EnqueueOwn(front)
         /\ Items' = IF front THEN << b >> \o Items ELSE Append(Items, b)
         /\ b \in heap' \ held'
    \/ /\ DequeueBack
       /\ Items' = Front(Items) /\ held' = held \union {Last(Items)}
    \/ DequeueFront /\ count = 1 /\ Items' = << >>

\* Items is the same where the links and the head are.
LEMMA ItemsSame ==
  ASSUME LqInv, Whole, UNCHANGED <<phead, count, next, prev, pqdata>>
  PROVE  Items' = Items
<1>1. count \in Nat
  BY DEF LqInv, LqType
<1>2. CASE phead = NULL
  BY <1>2, WholeEmpty DEF Items
<1>3. CASE phead # NULL
  <2>1. PICK c : Circle(c) /\ Left(c, 1)
    BY <1>3, WholeCircle
  <2>2. Circle(c)' /\ phead = c[1] /\ phead' = c[1]
    BY <2>1 DEF Circle, Left
  <2>3. Items = [i \in 1..count |-> pqdata[c[i]]]
    BY <1>1, <2>1, <2>2, ItemsAre DEF ItemsAlong
  <2>4. Items' = [i \in 1..count' |-> pqdata'[c[i]]]
    BY <1>1, <2>2, ItemsAreNext DEF ItemsAlong
  <2> QED BY <2>3, <2>4
<1> QED BY <1>2, <1>3

\* The back item is handed over, and the others stay.
LEMMA BackIsLast ==
  ASSUME LqInv, DequeueBack
  PROVE  Items' = Front(Items) /\ held' = held \union {Last(Items)}
<1>1. Idle /\ phead # NULL /\ ~Dangling
  BY DEF DequeueBack
<1>2. PICK c : Circle(c) /\ Left(c, 1)
  BY <1>1, DequeueFinds
<1>3. count \in Nat /\ count > 0 /\ phead = c[1]
  BY <1>1, <1>2, DequeueFinds DEF Left
<1>4. PICK it : it = [i \in 1..count |-> pqdata[c[i]]]
  OBVIOUS
<1>5. Items = it
  BY <1>2, <1>3, <1>4, ItemsAre DEF ItemsAlong
<1>6. it \in Seq(Blocks \union {NULL}) /\ Len(it) = count /\ Last(it) = pqdata[c[count]]
  <2>1. \A i \in 1..count : pqdata[c[i]] \in Blocks \union {NULL}
    BY <1>2 DEF LqInv, LqType, Circle
  <2>2. it \in Seq(Blocks \union {NULL}) /\ Len(it) = count
    BY <1>3, <1>4, <2>1
  <2> QED BY <1>3, <1>4, <2>2 DEF Last
<1>7. Front(it) = [i \in 1..(count - 1) |-> pqdata[c[i]]]
  BY <1>3, <1>4, <1>6 DEF Front
<1>8. CASE Single
  <2>1. count = 1 /\ count' = 0
    BY <1>1, <1>8, DequeueFinds, LastTaken
  <2>2. held' = held \union {pqdata[phead]}
    BY <1>8 DEF DequeueBack
  <2>3. Items' = << >>
    BY <2>1 DEF Items
  <2>4. Front(it) = << >>
    BY <1>7, <2>1
  <2> QED BY <1>3, <1>5, <1>6, <2>1, <2>2, <2>3, <2>4
<1>9. CASE ~Single
  <2>1. PICK d : d = [i \in 1..(count - 1) |-> c[i]]
    OBVIOUS
  <2>2. /\ Circle(d)' /\ Left(d, 1)' /\ count' = count - 1 /\ pqdata' = pqdata
        /\ held' = held \union {pqdata[c[count]]} /\ count > 1
    BY <1>2, <1>9, <2>1, BackTaken
  <2>3. phead' = d[1] /\ count' \in Nat
    BY <1>3, <2>2 DEF Left
  <2>4. Items' = [i \in 1..count' |-> pqdata'[d[i]]]
    BY <2>2, <2>3, ItemsAreNext DEF ItemsAlong
  <2>5. Items' = [i \in 1..(count - 1) |-> pqdata[c[i]]]
    BY <2>1, <2>2, <2>4
  <2> QED BY <1>5, <1>6, <1>7, <2>2, <2>5
<1> QED BY <1>8, <1>9

\* Each call does to the contents what it does to those of a deque.
LEMMA DequeHolds == LqInv /\ LqInv' /\ [Next]_vars => DequeStep
<1> SUFFICES ASSUME LqInv, LqInv', [Next]_vars, Whole, Whole' PROVE DequeStep
  BY DEF DequeStep
<1>1. CASE CallerMalloc \/ CallerFree \/ Destroy \/ EnqueueFault \/ DequeueFault \/ DestroyFault
  <2>1. UNCHANGED <<phead, count, next, prev, pqdata>>
    BY <1>1 DEF CallerMalloc, CallerFree, Destroy, EnqueueFault, DequeueFault, DestroyFault, Fault, links
  <2> QED BY <2>1, ItemsSame DEF DequeStep
<1>2. ASSUME NEW front \in BOOLEAN, EnqueueExt(front) \/ EnqueueOwn(front) PROVE DequeStep
  <2>1. PICK n, b : Links(n, b, front)
    BY <1>2, EnqueueLinks
  <2>2. LqType' /\ b \in Blocks
    BY <2>1 DEF LqInv, Links
  <2>3. /\ Items' = IF front THEN << b >> \o Items ELSE Append(Items, b)
        /\ b \in heap' \ held'
    BY <2>1, <2>2, EnqueueAdds
  <2> QED BY <1>2, <2>2, <2>3 DEF DequeStep
<1>3. CASE DequeueBack
  BY <1>3, BackIsLast DEF DequeStep
<1>4. CASE DequeueFront
  <2>1. Idle /\ phead # NULL /\ ~Dangling /\ ~Dangling'
    BY <1>4 DEF DequeueFront, Whole
  <2>2. Single
    BY <1>4, <2>1, FrontLoses
  <2>3. count = 1 /\ count' = 0
    BY <1>4, <2>1, <2>2, DequeueFinds, LastTaken
  <2>4. Items' = << >>
    BY <2>3 DEF Items
  <2> QED BY <1>4, <2>3, <2>4 DEF DequeStep
<1>5. CASE DestroyOne \/ DestroyEnd
  BY <1>5 DEF DestroyOne, DestroyEnd, Whole
<1>6. CASE UNCHANGED vars
  <2>1. UNCHANGED <<phead, count, next, prev, pqdata>>
    BY <1>6 DEF vars, links
  <2> QED BY <2>1, ItemsSame DEF DequeStep
<1> QED BY <1>1, <1>2, <1>3, <1>4, <1>5, <1>6 DEF Next

\* What a call does to the contents is what it does to those of a deque: an enqueue adds
\* one item at its end, a dequeue from the back hands the last one over, the front goes
\* when it is the only one, and nothing else changes them (lqueue.c:38-187, 216-242).
THEOREM DequeSafe == Spec => StepsLikeADeque
<1>1. Spec => [][DequeStep]_vars
  BY LqAlways, DequeHolds, PTL DEF Spec
<1> QED BY <1>1 DEF StepsLikeADeque, DequeStep
=============================================================================
