--------------------------- MODULE CacheHashProofs --------------------------
(***************************************************************************)
(* Proofs about the cache of src/lib/cachehash.c, for any number of nodes: *)
(* the list visits the nodes in some order q, the keys present are in the  *)
(* first nodes of q, and the Judy array leads to them (CacheInv).  This    *)
(* holds of a new cache and is kept by a get that hits and by the put      *)
(* after a get that misses; read along the list, the first moves the key   *)
(* to the front, the second enters it there and drops the last one when    *)
(* the cache is full.                                                      *)
(***************************************************************************)
EXTENDS CacheHash, FiniteSetTheorems, SequenceTheorems, WellFoundedInduction, TLAPS

(* Every set of numbers that is not empty has a least one. *)
LEMMA LeastNumber ==
  ASSUME NEW T \in SUBSET Nat, T # {}
  PROVE  \E m \in T : \A k \in T : m <= k
<1> DEFINE R == StrictSubsetOrdering(Nat)
           U == {0 .. k : k \in T}
<1>1. U # {} /\ U \subseteq FiniteSubsetsOf(Nat)
  <2>1. \A k \in T : 0 .. k \in SUBSET Nat /\ IsFiniteSet(0 .. k)
    BY FS_Interval
  <2> QED BY <2>1, Zenon DEF FiniteSubsetsOf
<1>2. IsWellFoundedOn(R, FiniteSubsetsOf(Nat))
  BY FS_StrictSubsetOrderingWellFounded
<1> HIDE DEF R, U
<1>3. PICK u \in U : \A v \in U : ~ (<<v, u>> \in R)
  BY <1>1, <1>2, WFMin
<1>4. PICK m \in T : u = 0 .. m
  BY DEF U
<1>5. ASSUME NEW k \in T, k < m PROVE FALSE
  <2>1. 0 .. k \in U /\ 0 .. k \in SUBSET Nat /\ u \in SUBSET Nat
    BY <1>4 DEF U
  <2>2. 0 .. k \subseteq u /\ 0 .. k # u
    <3>1. m \in 0 .. m /\ m \notin 0 .. k
      BY <1>5
    <3> QED BY <1>5, <1>4, <3>1
  <2>3. <<0 .. k, u>> \in R
    BY <2>1, <2>2, Zenon DEF R, StrictSubsetOrdering
  <2> QED BY <2>1, <2>3, <1>3
<1> QED BY <1>5

(* The order q with the node at place i moved to the front. *)
ToFront(q, i) == [j \in DOMAIN q |-> IF j = 1 THEN q[i] ELSE IF j <= i THEN q[j - 1] ELSE q[j]]

(* The nodes that the links lead to are those of the order. *)
LEMMA ChainIsOrder ==
  ASSUME NEW ch, NEW n \in Nat \ {0}, NEW q, Ordered(ch, q, n), DOMAIN ch.key = 0 .. n - 1
  PROVE  Chain(ch) = q
<1> DEFINE Step(f) == [i \in 1 .. n |-> IF i = 1 THEN ch.start ELSE ch.next[f[i - 1]]]
           at == CHOOSE f : f = [i \in 1 .. Cardinality(DOMAIN ch.key) |->
                                   IF i = 1 THEN ch.start ELSE ch.next[f[i - 1]]]
<1>1. Cardinality(DOMAIN ch.key) = n
  <2>1. Cardinality(0 .. n - 1) = (n - 1) - 0 + 1
    BY FS_Interval
  <2> QED BY <2>1
<1>2. Chain(ch) = at
  BY DEF Chain
<1>3. /\ q \in [1 .. n -> 0 .. n - 1] /\ ch.start = q[1]
      /\ \A i \in 1 .. n - 1 : ch.next[q[i]] = q[i + 1]
  BY SMTT(30) DEF Ordered, IsOrder, Links
<1>4. q = Step(q)
  <2>1. \A i \in 1 .. n : q[i] = IF i = 1 THEN ch.start ELSE ch.next[q[i - 1]]
    <3> TAKE i \in 1 .. n
    <3>1. CASE i # 1
      <4>1. i - 1 \in 1 .. n - 1 /\ (i - 1) + 1 = i
        BY <3>1
      <4> QED BY <1>3, <3>1, <4>1, SMTT(30)
    <3> QED BY <1>3, <3>1
  <2> QED BY <1>3, <2>1
<1>5. at = Step(at)
  BY <1>1, <1>4, Zenon
<1> HIDE DEF at
<1>5a. DOMAIN at = 1 .. n /\ \A i \in 1 .. n : at[i] = IF i = 1 THEN ch.start ELSE ch.next[at[i - 1]]
  BY <1>5
<1>6. DOMAIN at = 1 .. n /\ at[1] = q[1] /\ \A i \in 1 .. n : i # 1 => at[i] = ch.next[at[i - 1]]
  <2>1. 1 \in 1 .. n
    OBVIOUS
  <2> QED BY <1>3, <1>5a, <2>1
<1>7. \A i \in 1 .. n : at[i] = q[i]
  <2> DEFINE T == {i \in 1 .. n : at[i] # q[i]}
  <2> SUFFICES ASSUME T # {} PROVE FALSE
    OBVIOUS
  <2>0. T \in SUBSET Nat
    OBVIOUS
  <2>1. PICK m \in T : \A k \in T : m <= k
    <3> HIDE DEF T
    <3> QED BY <2>0, LeastNumber
  <2>2. at[m] # q[m] /\ m \in 1 .. n /\ m # 1 /\ m - 1 \in 1 .. n - 1 /\ (m - 1) + 1 = m /\ m - 1 \in 1 .. n
    BY <1>6
  <2>3. at[m - 1] = q[m - 1]
    <3>1. m - 1 \notin T
      BY <2>0, <2>1
    <3> QED BY <2>2, <3>1
  <2>4. at[m] = q[m]
    BY <1>3, <1>6, <2>2, <2>3, Zenon
  <2> QED BY <2>2, <2>4
<1>8. at = q
  <2>1. at = [i \in 1 .. n |-> at[i]] /\ q = [i \in 1 .. n |-> q[i]]
    BY <1>3, <1>5
  <2> QED BY <1>7, <2>1
<1> QED BY <1>2, <1>8

(* Moving a node to the front keeps it an order. *)
LEMMA FrontOrder ==
  ASSUME NEW n \in Nat \ {0}, NEW q, IsOrder(q, n), NEW i \in 1 .. n
  PROVE  /\ IsOrder(ToFront(q, i), n)
         /\ \A j \in 1 .. n : ToFront(q, i)[j] = IF j = 1 THEN q[i] ELSE IF j <= i THEN q[j - 1] ELSE q[j]
         /\ i = 1 => ToFront(q, i) = q
<1> DEFINE f == ToFront(q, i)
           at(j) == IF j = 1 THEN i ELSE IF j <= i THEN j - 1 ELSE j
<1>0. q \in [1 .. n -> 0 .. n - 1] /\ \A j, k \in 1 .. n : q[j] = q[k] => j = k
  BY DEF IsOrder
<1>1. \A j \in 1 .. n : at(j) \in 1 .. n /\ f[j] = q[at(j)]
  BY <1>0 DEF ToFront
<1>2. \A j, k \in 1 .. n : at(j) = at(k) => j = k
  OBVIOUS
<1>3. f \in [1 .. n -> 0 .. n - 1]
  BY <1>0, <1>1 DEF ToFront
<1>4. \A j \in 1 .. n : f[j] = IF j = 1 THEN q[i] ELSE IF j <= i THEN q[j - 1] ELSE q[j]
  BY <1>0 DEF ToFront
<1>5. i = 1 => \A j \in 1 .. n : f[j] = q[j]
  BY <1>4
<1> HIDE DEF at, f
<1>6. \A j, k \in 1 .. n : f[j] = f[k] => j = k
  BY <1>0, <1>1, <1>2
<1>7. i = 1 => f = q
  BY <1>0, <1>3, <1>5
<1> QED BY <1>3, <1>4, <1>6, <1>7, SMTT(30) DEF f, IsOrder

(* What it says that the list is in an order, place by place. *)
LEMMA OrderAt ==
  ASSUME NEW n, NEW q, IsOrder(q, n)
  PROVE  /\ \A j \in 1 .. n : q[j] \in 0 .. n - 1
         /\ \A j, k \in 1 .. n : j # k => q[j] # q[k]
BY DEF IsOrder

(* What the links of an ordered list say, place by place. *)
LEMMA LinksAt ==
  ASSUME NEW n \in Nat, n > 1, NEW q, IsOrder(q, n), NEW next, NEW prev, Links(next, prev, q, n)
  PROVE  /\ \A j \in 1 .. n - 1 : next[q[j]] = q[j + 1]
         /\ \A j \in 2 .. n : prev[q[j]] = q[j - 1]
         /\ next[q[n]] = Null
<1>1. ASSUME NEW j \in 2 .. n PROVE prev[q[j]] = q[j - 1]
  <2>1. j - 1 \in 1 .. n - 1 /\ (j - 1) + 1 = j
    OBVIOUS
  <2> QED BY <2>1 DEF Links
<1> QED BY <1>1 DEF Links

(* What use does to the links, for a node that is not the first.           *)
NextMoved(next, q, i) == [next EXCEPT ![q[i - 1]] = next[q[i]], ![q[i]] = q[1]]

PrevMoved(next, prev, q, i) ==
  [k \in DOMAIN prev |-> IF k = q[i] THEN Null ELSE IF k = q[1] THEN q[i]
                         ELSE IF k = next[q[i]] THEN q[i - 1] ELSE prev[k]]

(* The links forward after use, place by place of the order before it.     *)
LEMMA NextMovedAt ==
  ASSUME NEW n \in Nat, n > 1, NEW i \in 2 .. n, NEW q, IsOrder(q, n),
         NEW next, NEW prev, Links(next, prev, q, n)
  PROVE  /\ NextMoved(next, q, i) \in [0 .. n - 1 -> Int]
         /\ NextMoved(next, q, i)[q[i]] = q[1] /\ NextMoved(next, q, i)[q[i - 1]] = next[q[i]]
         /\ \A j \in 1 .. n : j # i /\ j # i - 1 => NextMoved(next, q, i)[q[j]] = next[q[j]]
<1>1. i \in 1 .. n /\ i - 1 \in 1 .. n /\ 1 \in 1 .. n /\ i # 1 /\ i - 1 # i
  OBVIOUS
<1>2. q[i] \in 0 .. n - 1 /\ q[i - 1] \in 0 .. n - 1 /\ q[1] \in 0 .. n - 1 /\ q[i - 1] # q[i]
  BY <1>1, OrderAt
<1> DEFINE m == NextMoved(next, q, i)
<1>3. m = [next EXCEPT ![q[i - 1]] = next[q[i]], ![q[i]] = q[1]] /\ next \in [0 .. n - 1 -> Int]
  BY DEF NextMoved, Links
<1> HIDE DEF m
<1>4. /\ m \in [0 .. n - 1 -> Int] /\ m[q[i]] = q[1] /\ m[q[i - 1]] = next[q[i]]
      /\ \A k \in 0 .. n - 1 : k # q[i] /\ k # q[i - 1] => m[k] = next[k]
  BY <1>2, <1>3, SMTT(30)
<1>5. ASSUME NEW j \in 1 .. n, j # i, j # i - 1 PROVE m[q[j]] = next[q[j]]
  <2>1. q[j] \in 0 .. n - 1 /\ q[j] # q[i] /\ q[j] # q[i - 1]
    BY <1>1, <1>5, OrderAt
  <2> QED BY <1>4, <2>1, SMTT(30)
<1> QED BY <1>4, <1>5 DEF m

(* The links back after use, likewise.                                     *)
LEMMA PrevMovedAt ==
  ASSUME NEW n \in Nat, n > 1, NEW i \in 2 .. n, NEW q, IsOrder(q, n),
         NEW next, NEW prev, Links(next, prev, q, n)
  PROVE  /\ PrevMoved(next, prev, q, i) \in [0 .. n - 1 -> Int]
         /\ PrevMoved(next, prev, q, i)[q[1]] = q[i]
         /\ i # n => PrevMoved(next, prev, q, i)[q[i + 1]] = q[i - 1]
         /\ \A j \in 2 .. n : j # i /\ j # i + 1 => PrevMoved(next, prev, q, i)[q[j]] = q[j - 1]
<1>1. i \in 1 .. n /\ i - 1 \in 1 .. n /\ 1 \in 1 .. n /\ i # 1 /\ i - 1 # i
  OBVIOUS
<1>2. q[i] \in 0 .. n - 1 /\ q[i - 1] \in 0 .. n - 1 /\ q[1] \in 0 .. n - 1 /\ q[1] # q[i]
  BY <1>1, OrderAt
<1>3. i # n => i + 1 \in 1 .. n /\ i \in 1 .. n - 1 /\ next[q[i]] = q[i + 1]
  BY LinksAt
<1>4. i = n => next[q[i]] = Null
  BY LinksAt
<1> DEFINE m == PrevMoved(next, prev, q, i)
<1>5. /\ prev \in [0 .. n - 1 -> Int] /\ Null \in Int
      /\ m = [k \in 0 .. n - 1 |-> IF k = q[i] THEN Null ELSE IF k = q[1] THEN q[i]
                                    ELSE IF k = next[q[i]] THEN q[i - 1] ELSE prev[k]]
  BY DEF PrevMoved, Links, Null
<1> HIDE DEF m
<1>6. m \in [0 .. n - 1 -> Int] /\ m[q[1]] = q[i]
  BY <1>2, <1>5, SMTT(30)
<1>7. ASSUME i # n PROVE m[q[i + 1]] = q[i - 1]
  <2>1. q[i + 1] # q[i] /\ q[i + 1] # q[1] /\ q[i + 1] \in 0 .. n - 1 /\ q[i + 1] = next[q[i]]
    BY <1>1, <1>3, <1>7, OrderAt
  <2> QED BY <1>5, <2>1, SMTT(30)
<1>8. ASSUME NEW j \in 2 .. n, j # i, j # i + 1 PROVE m[q[j]] = q[j - 1]
  <2>1. j \in 1 .. n /\ j # 1
    OBVIOUS
  <2>2. q[j] # q[i] /\ q[j] # q[1] /\ q[j] \in 0 .. n - 1
    BY <1>1, <1>8, <2>1, OrderAt
  <2>3. q[j] # next[q[i]]
    <3>1. CASE i = n
      BY <1>4, <2>2, <3>1 DEF Null
    <3>2. CASE i # n
      BY <1>3, <1>8, <2>1, <3>2, OrderAt
    <3> QED BY <3>1, <3>2
  <2>4. prev[q[j]] = q[j - 1]
    BY LinksAt
  <2> QED BY <1>5, <2>2, <2>3, <2>4, SMTT(30)
<1> QED BY <1>6, <1>7, <1>8 DEF m

(* The moved links follow the moved order. *)
LEMMA LinksMoved ==
  ASSUME NEW n \in Nat, n > 1, NEW i \in 2 .. n, NEW q, IsOrder(q, n),
         NEW next, NEW prev, Links(next, prev, q, n)
  PROVE  Links(NextMoved(next, q, i), PrevMoved(next, prev, q, i), ToFront(q, i), n)
<1> DEFINE next2 == NextMoved(next, q, i)
           prev2 == PrevMoved(next, prev, q, i)
           f == ToFront(q, i)
<1>2. /\ next2 \in [0 .. n - 1 -> Int]
      /\ next2[q[i]] = q[1] /\ next2[q[i - 1]] = next[q[i]]
      /\ \A j \in 1 .. n : j # i /\ j # i - 1 => next2[q[j]] = next[q[j]]
  BY NextMovedAt, SMTT(30)
<1>3. /\ prev2 \in [0 .. n - 1 -> Int]
      /\ prev2[q[1]] = q[i]
      /\ i # n => prev2[q[i + 1]] = q[i - 1]
      /\ \A j \in 2 .. n : j # i /\ j # i + 1 => prev2[q[j]] = q[j - 1]
  BY PrevMovedAt, SMTT(30)
<1>4. /\ \A j \in 1 .. n - 1 : next[q[j]] = q[j + 1]
      /\ next[q[n]] = Null
  BY LinksAt
<1>5. \A j \in 1 .. n : f[j] = IF j = 1 THEN q[i] ELSE IF j <= i THEN q[j - 1] ELSE q[j]
  <2>1. n \in Nat \ {0} /\ i \in 1 .. n
    OBVIOUS
  <2> QED BY <2>1, FrontOrder
<1> HIDE DEF next2, prev2, f
<1>6. ASSUME NEW j \in 1 .. n - 1 PROVE next2[f[j]] = f[j + 1] /\ prev2[f[j + 1]] = f[j]
  <2>0. j \in 1 .. n /\ j + 1 \in 1 .. n /\ j + 1 # 1
    OBVIOUS
  <2>1. CASE j = 1
    <3>1. f[1] = q[i] /\ f[1 + 1] = q[1]
      BY <1>5, <2>0, <2>1
    <3> QED BY <1>2, <1>3, <2>1, <3>1
  <2>2. CASE j # 1 /\ j + 1 <= i
    <3>1. f[j] = q[j - 1] /\ f[j + 1] = q[(j + 1) - 1] /\ (j + 1) - 1 = j
      BY <1>5, <2>0, <2>2
    <3>2. /\ j - 1 \in 1 .. n - 1 /\ j - 1 \in 1 .. n /\ (j - 1) + 1 = j
          /\ j - 1 # i /\ j - 1 # i - 1 /\ j \in 2 .. n /\ j # i /\ j # i + 1
      BY <2>2
    <3>3. next2[q[j - 1]] = q[j] /\ prev2[q[j]] = q[j - 1]
      BY <1>2, <1>3, <1>4, <3>2, Zenon
    <3> QED BY <3>1, <3>3
  <2>3. CASE j = i
    <3>1. f[j] = q[j - 1] /\ f[j + 1] = q[j + 1]
      BY <1>5, <2>0, <2>3
    <3>2. i # n /\ next[q[i]] = q[i + 1]
      BY <1>4, <2>3
    <3> QED BY <1>2, <1>3, <2>3, <3>1, <3>2
  <2>4. CASE j > i
    <3>1. f[j] = q[j] /\ f[j + 1] = q[j + 1]
      BY <1>5, <2>0, <2>4
    <3>2. j # i /\ j # i - 1 /\ j + 1 \in 2 .. n /\ j + 1 # i /\ j + 1 # i + 1 /\ (j + 1) - 1 = j
      BY <2>0, <2>4
    <3> QED BY <1>2, <1>3, <1>4, <2>0, <3>1, <3>2, Zenon
  <2> QED BY <2>1, <2>2, <2>3, <2>4
<1>7. next2[f[n]] = Null
  <2>1. CASE i = n
    <3>1. f[n] = q[i - 1]
      BY <1>5, <2>1
    <3> QED BY <1>2, <1>4, <2>1, <3>1
  <2>2. CASE i # n
    <3>1. f[n] = q[n] /\ n # i - 1 /\ n \in 1 .. n
      BY <1>5, <2>2
    <3> QED BY <1>2, <1>4, <2>2, <3>1, SMTT(30)
  <2> QED BY <2>1, <2>2
<1>8. Links(next2, prev2, f, n)
  BY <1>2, <1>3, <1>6, <1>7, Zenon DEF Links
<1> QED BY <1>8 DEF next2, prev2, f

(* use changes the order of the list and nothing else.                     *)
LEMMA UseOrders ==
  ASSUME NEW ch, NEW n \in Nat \ {0}, NEW q, Ordered(ch, q, n), NEW i \in 1 .. n
  PROVE  /\ Ordered(Use(ch, q[i]), ToFront(q, i), n)
         /\ Use(ch, q[i]).key = ch.key /\ Use(ch, q[i]).judy = ch.judy
         /\ Use(ch, q[i]).currsize = ch.currsize /\ Use(ch, q[i]).currEnd = ch.currEnd
<1> DEFINE u == Use(ch, q[i])
           f == ToFront(q, i)
<1>1. /\ DOMAIN ch = {"next", "prev", "key", "start", "end", "currEnd", "currsize", "judy"}
      /\ IsOrder(q, n) /\ Links(ch.next, ch.prev, q, n)
      /\ ch.start = q[1] /\ ch.end = q[n]
  BY DEF Ordered
<1>2. /\ IsOrder(f, n) /\ (i = 1 => f = q)
      /\ \A j \in 1 .. n : f[j] = IF j = 1 THEN q[i] ELSE IF j <= i THEN q[j - 1] ELSE q[j]
  BY <1>1, FrontOrder
<1>3. CASE i = 1
  <2>1. u = ch
    BY <1>1, <1>3 DEF Use
  <2> QED BY <1>2, <1>3, <2>1
<1>4. CASE i # 1
  <2>1. n > 1 /\ i \in 2 .. n /\ 1 \in 1 .. n
    BY <1>4
  <2>2. q[i] # ch.start /\ ch.prev[q[i]] = q[i - 1]
    BY <1>1, <2>1, <1>4, OrderAt, LinksAt
  <2>3. ch.next[q[i]] = Null <=> i = n
    <3>1. CASE i = n
      BY <1>1, <2>1, <3>1, LinksAt
    <3>2. CASE i # n
      <4>1. i \in 1 .. n - 1 /\ i + 1 \in 1 .. n
        BY <3>2
      <4>2. ch.next[q[i]] = q[i + 1] /\ q[i + 1] \in 0 .. n - 1
        BY <1>1, <2>1, <4>1, LinksAt, OrderAt
      <4> QED BY <3>2, <4>2 DEF Null
    <3> QED BY <3>1, <3>2
  <2> DEFINE next2 == NextMoved(ch.next, q, i)
             prev2 == PrevMoved(ch.next, ch.prev, q, i)
             end2 == IF i = n THEN q[i - 1] ELSE q[n]
  <2>4. u = [ch EXCEPT !.next = next2, !.prev = prev2, !.end = end2, !.start = q[i]]
    BY <1>1, <2>2, <2>3, ZenonT(30) DEF Use, NextMoved, PrevMoved
  <2>5. Links(next2, prev2, f, n)
    BY <1>1, <2>1, LinksMoved
  <2> HIDE DEF u, f, next2, prev2, end2
  <2>6. /\ DOMAIN u = DOMAIN ch /\ u.key = ch.key /\ u.judy = ch.judy
        /\ u.currsize = ch.currsize /\ u.currEnd = ch.currEnd
        /\ u.start = q[i] /\ u.end = end2 /\ u.next = next2 /\ u.prev = prev2
    BY <1>1, <2>4
  <2>7. f[1] = q[i] /\ f[n] = end2
    BY <1>2, <2>1 DEF end2
  <2>8. Ordered(u, f, n)
    BY <1>1, <1>2, <2>5, <2>6, <2>7 DEF Ordered
  <2> QED BY <2>6, <2>8 DEF u, f
<1> QED BY <1>3, <1>4
-----------------------------------------------------------------------------

(* The keys of the first nodes are different, and they are those present.  *)
Distinct(ch, q) ==
  /\ \A i, j \in 1 .. ch.currsize : ch.key[q[i]] = ch.key[q[j]] => i = j
  /\ \A k : Present(ch, k) <=> \E i \in 1 .. ch.currsize : ch.key[q[i]] = k

(* A key present is in one node: the one the Judy array leads to.          *)
LEMMA KeysApart ==
  ASSUME NEW ch, NEW n \in Nat \ {0}, NEW q, IsOrder(q, n), Filled(ch, q, n)
  PROVE  ch.currsize \in Nat /\ ch.currsize <= n /\ Distinct(ch, q)
<1>1. ch.currsize \in Nat /\ ch.currsize <= n
  BY DEF Filled
<1>2. ASSUME NEW i \in 1 .. ch.currsize, NEW j \in 1 .. ch.currsize, ch.key[q[i]] = ch.key[q[j]]
      PROVE  i = j
  <2>1. q[i] = q[j]
    BY <1>2, SMTT(30) DEF Filled
  <2>2. i \in 1 .. n /\ j \in 1 .. n
    BY <1>1
  <2> QED BY <2>1, <2>2, OrderAt
<1>3. \A k : Present(ch, k) <=> \E i \in 1 .. ch.currsize : ch.key[q[i]] = k
  BY DEF Filled, Present
<1> QED BY <1>1, <1>2, <1>3 DEF Distinct

(* What RecentKeys reads off the list. *)
LEMMA RecentAt ==
  ASSUME NEW ch, NEW n \in Nat \ {0}, NEW q, Ordered(ch, q, n), Filled(ch, q, n)
  PROVE  RecentKeys(ch) = [i \in 1 .. ch.currsize |-> ch.key[q[i]]]
<1>1. Chain(ch) = q
  BY ChainIsOrder DEF Filled
<1> QED BY <1>1 DEF RecentKeys

(* Filled, for a list whose first c nodes are those of another, in some    *)
(* order.                                                                  *)
LEMMA SameFilled ==
  ASSUME NEW ch, NEW u, NEW n \in Nat \ {0}, NEW q, NEW f, Filled(ch, q, n),
         u.key = ch.key, u.judy = ch.judy, u.currsize = ch.currsize, u.currEnd = ch.currEnd,
         ch.currsize < n => f[ch.currsize + 1] = q[ch.currsize + 1],
         \A j \in 1 .. ch.currsize : \E k \in 1 .. ch.currsize : f[j] = q[k],
         \A k \in 1 .. ch.currsize : \E j \in 1 .. ch.currsize : f[j] = q[k]
  PROVE  Filled(u, f, n)
<1>1. {ch.key[q[i]] : i \in 1 .. ch.currsize} = {ch.key[f[i]] : i \in 1 .. ch.currsize}
  BY SMTT(30)
<1>2. /\ ch.currsize \in 0 .. n /\ DOMAIN ch.key = 0 .. n - 1
      /\ ch.currsize < n => ch.currEnd = f[ch.currsize + 1]
      /\ DOMAIN ch.judy = {ch.key[q[i]] : i \in 1 .. ch.currsize}
      /\ \A i \in 1 .. ch.currsize : ch.judy[ch.key[q[i]]] = q[i]
  BY Zenon DEF Filled
<1>3. ASSUME NEW i \in 1 .. ch.currsize PROVE ch.judy[ch.key[f[i]]] = f[i]
  <2>1. PICK k \in 1 .. ch.currsize : f[i] = q[k]
    BY Zenon
  <2> QED BY <1>2, <2>1, Zenon
<1>4. DOMAIN ch.judy = {ch.key[f[i]] : i \in 1 .. ch.currsize}
  BY <1>1, <1>2, Zenon
<1>5. DOMAIN u.judy = {u.key[f[i]] : i \in 1 .. u.currsize}
  BY <1>4
<1>6. \A i \in 1 .. u.currsize : u.judy[u.key[f[i]]] = f[i]
  BY <1>3
<1>7. /\ u.currsize \in 0 .. n /\ DOMAIN u.key = 0 .. n - 1
      /\ u.currsize < n => u.currEnd = f[u.currsize + 1]
  BY <1>2
<1> QED BY <1>5, <1>6, <1>7, Zenon DEF Filled

(* ch2 is ch with its key at place i moved to the front. *)
Moved(ch2, ch, q, i, n) ==
  /\ Ordered(ch2, ToFront(q, i), n) /\ Filled(ch2, ToFront(q, i), n)
  /\ RecentKeys(ch2) =
       [j \in 1 .. ch.currsize |->
          IF j = 1 THEN ch.key[q[i]] ELSE IF j <= i THEN ch.key[q[j - 1]] ELSE ch.key[q[j]]]

(* cachehash_get of a key that is present: it moves to the front.          *)
LEMMA GetRefreshes ==
  ASSUME NEW ch, NEW n \in Nat \ {0}, NEW q, Ordered(ch, q, n), Filled(ch, q, n),
         NEW i \in 1 .. ch.currsize
  PROVE  /\ CachehashGet(ch, ch.key[q[i]]) = Use(ch, q[i])
         /\ Moved(Use(ch, q[i]), ch, q, i, n)
<1> DEFINE u == Use(ch, q[i])
           f == ToFront(q, i)
           c == ch.currsize
<1>1. IsOrder(q, n) /\ c \in Nat /\ c <= n /\ i \in 1 .. n
  BY KeysApart DEF Ordered
<1>2. CachehashGet(ch, ch.key[q[i]]) = u
  <2>1. Present(ch, ch.key[q[i]]) /\ ch.judy[ch.key[q[i]]] = q[i]
    BY DEF Present, Filled
  <2> QED BY <2>1 DEF CachehashGet
<1>3. /\ Ordered(u, f, n) /\ u.key = ch.key /\ u.judy = ch.judy
      /\ u.currsize = c /\ u.currEnd = ch.currEnd
  BY <1>1, UseOrders
<1>4. \A j \in 1 .. n : f[j] = IF j = 1 THEN q[i] ELSE IF j <= i THEN q[j - 1] ELSE q[j]
  BY <1>1, FrontOrder
<1> HIDE DEF u, f, c
<1>5. \A j \in 1 .. c : j \in 1 .. n
  BY <1>1
<1>6. i \in 1 .. c
  BY DEF c
<1>7. /\ c < n => f[c + 1] = q[c + 1]
      /\ \A j \in 1 .. c : \E k \in 1 .. c : f[j] = q[k]
      /\ \A k \in 1 .. c : \E j \in 1 .. c : f[j] = q[k]
  <2>1. c < n => f[c + 1] = q[c + 1]
    BY <1>1, <1>4, <1>6
  <2>2. ASSUME NEW j \in 1 .. c PROVE \E k \in 1 .. c : f[j] = q[k]
    <3>1. f[j] = q[i] \/ (j # 1 /\ j - 1 \in 1 .. c /\ f[j] = q[j - 1]) \/ f[j] = q[j]
      BY <1>1, <1>4, <1>5
    <3> QED BY <1>6, <3>1
  <2>3. ASSUME NEW k \in 1 .. c PROVE \E j \in 1 .. c : f[j] = q[k]
    <3>1. CASE k = i
      <4>1. 1 \in 1 .. c /\ f[1] = q[i]
        BY <1>1, <1>4, <1>6
      <4> QED BY <3>1, <4>1
    <3>2. CASE k < i
      <4>1. k + 1 \in 1 .. c /\ k + 1 \in 1 .. n /\ k + 1 # 1 /\ k + 1 <= i /\ (k + 1) - 1 = k
        BY <1>1, <1>6, <3>2
      <4> QED BY <1>4, <4>1
    <3>3. CASE k > i
      <4>1. k \in 1 .. n /\ k # 1 /\ ~ (k <= i)
        BY <1>1, <1>6, <3>3
      <4> QED BY <1>4, <4>1
    <3> QED BY <1>1, <1>6, <3>1, <3>2, <3>3
  <2> QED BY <2>1, <2>2, <2>3
<1>8. Filled(u, f, n)
  BY <1>3, <1>7, SameFilled, Zenon DEF c
<1>9. RecentKeys(u) = [j \in 1 .. c |-> ch.key[f[j]]]
  BY <1>3, <1>8, RecentAt
<1>10. [j \in 1 .. c |-> ch.key[f[j]]] =
         [j \in 1 .. c |-> IF j = 1 THEN ch.key[q[i]] ELSE IF j <= i THEN ch.key[q[j - 1]] ELSE ch.key[q[j]]]
  BY <1>4, <1>5
<1> QED BY <1>2, <1>3, <1>8, <1>9, <1>10 DEF Moved, u, f, c

(* evict frees the last node of a full list.                               *)
LEMMA EvictFrees ==
  ASSUME NEW ch, NEW n \in Nat \ {0}, NEW q, Ordered(ch, q, n), Filled(ch, q, n)
  PROVE  LET c == CachehashEvictIfFull(ch)
         IN  /\ Ordered(c, q, n) /\ Filled(c, q, n)
             /\ c.currsize = IF ch.currsize < n THEN ch.currsize ELSE n - 1
             /\ \A i \in 1 .. c.currsize : c.key[q[i]] = ch.key[q[i]]
             /\ DOMAIN c.judy \subseteq DOMAIN ch.judy
<1> DEFINE c == CachehashEvictIfFull(ch)
<1>1. /\ DOMAIN ch = {"next", "prev", "key", "start", "end", "currEnd", "currsize", "judy"}
      /\ IsOrder(q, n) /\ ch.end = q[n]
  BY DEF Ordered
<1>2. ch.currsize \in Nat /\ ch.currsize <= n /\ n \in 1 .. n /\ DOMAIN ch.key = 0 .. n - 1
  BY <1>1, KeysApart DEF Filled
<1>3. Full(ch) <=> ch.currsize = n
  <2>1. Cardinality(0 .. n - 1) = (n - 1) - 0 + 1
    BY FS_Interval
  <2> QED BY <1>2, <2>1 DEF Full
<1>4. CASE ch.currsize # n
  <2>1. c = ch
    BY <1>3, <1>4 DEF CachehashEvictIfFull
  <2> QED BY <1>2, <1>4, <2>1
<1>5. CASE ch.currsize = n
  <2> DEFINE K == ch.key[q[n]]
             judy2 == [k \in DOMAIN ch.judy \ {K} |-> ch.judy[k]]
             key2 == [ch.key EXCEPT ![q[n]] = NoKey]
  <2>1. c = [ch EXCEPT !.judy = judy2, !.key = key2, !.currsize = ch.currsize - 1, !.currEnd = q[n]]
    BY <1>1, <1>3, <1>5 DEF CachehashEvictIfFull, Evict
  <2> HIDE DEF c, judy2, key2
  <2>2. /\ DOMAIN c = DOMAIN ch /\ c.judy = judy2 /\ c.key = key2 /\ c.currsize = n - 1 /\ c.currEnd = q[n]
        /\ c.next = ch.next /\ c.prev = ch.prev /\ c.start = ch.start /\ c.end = ch.end
    BY <1>1, <1>5, <2>1
  <2>3. Ordered(c, q, n)
    BY <2>2 DEF Ordered
  <2>4. \A i \in 1 .. n - 1 : i \in 1 .. n /\ i # n /\ key2[q[i]] = ch.key[q[i]]
    <3> TAKE i \in 1 .. n - 1
    <3>1. i \in 1 .. n /\ i # n
      OBVIOUS
    <3>2. q[i] # q[n] /\ q[i] \in 0 .. n - 1
      BY <1>1, <1>2, <3>1, OrderAt
    <3> QED BY <1>2, <3>1, <3>2 DEF key2
  <2>5. /\ DOMAIN ch.judy = {ch.key[q[i]] : i \in 1 .. n}
        /\ \A i \in 1 .. n : ch.judy[ch.key[q[i]]] = q[i]
        /\ \A i, j \in 1 .. n : ch.key[q[i]] = ch.key[q[j]] => i = j
    <3>1. \A i, j \in 1 .. ch.currsize : ch.key[q[i]] = ch.key[q[j]] => i = j
      BY <1>1, KeysApart DEF Distinct
    <3> QED BY <1>5, <3>1, Zenon DEF Filled
  <2>6. \A i \in 1 .. n : i # n => i \in 1 .. n - 1
    OBVIOUS
  <2>7. DOMAIN judy2 = {key2[q[i]] : i \in 1 .. n - 1}
    <3>1. DOMAIN judy2 = {ch.key[q[i]] : i \in 1 .. n} \ {K}
      BY <2>5 DEF judy2
    <3>2. {ch.key[q[i]] : i \in 1 .. n} \ {K} = {ch.key[q[i]] : i \in 1 .. n - 1}
      BY <1>2, <2>4, <2>5, <2>6
    <3>3. {ch.key[q[i]] : i \in 1 .. n - 1} = {key2[q[i]] : i \in 1 .. n - 1}
      BY <2>4
    <3> QED BY <3>1, <3>2, <3>3, Zenon
  <2>8. \A i \in 1 .. n - 1 : judy2[key2[q[i]]] = q[i]
    <3> TAKE i \in 1 .. n - 1
    <3>1. key2[q[i]] = ch.key[q[i]] /\ ch.key[q[i]] \in DOMAIN judy2
      BY <2>4, <2>7
    <3>2. ch.judy[ch.key[q[i]]] = q[i]
      BY <2>4, <2>5
    <3> QED BY <3>1, <3>2 DEF judy2
  <2>9. Filled(c, q, n)
    <3>1. n - 1 \in 0 .. n /\ DOMAIN key2 = 0 .. n - 1 /\ (n - 1) + 1 = n
      BY <1>2 DEF key2
    <3> QED BY <2>2, <2>7, <2>8, <3>1 DEF Filled
  <2>10. DOMAIN c.judy \subseteq DOMAIN ch.judy
    BY <2>2 DEF judy2
  <2> QED BY <1>5, <2>2, <2>3, <2>4, <2>9, <2>10 DEF c
<1> QED BY <1>4, <1>5

(* What cachehash_put does first, unless nd is the last node: the node     *)
(* after nd becomes the free one.                                          *)
FreeNext(c, nd) ==
  IF nd = c.end THEN c ELSE [c EXCEPT !.currEnd = c.next[nd], !.prev[c.next[nd]] = nd]

FreeMoved(d, c, q, i, n) ==
  /\ Ordered(d, q, n) /\ d.key = c.key /\ d.judy = c.judy /\ d.currsize = c.currsize
  /\ i < n => d.currEnd = q[i + 1]

(* This leaves the list as it is: the link back to nd was right already.   *)
LEMMA FreeMoves ==
  ASSUME NEW c, NEW n \in Nat \ {0}, NEW q, Ordered(c, q, n), NEW i \in 1 .. n
  PROVE  FreeMoved(FreeNext(c, q[i]), c, q, i, n)
<1> DEFINE s == c.next[q[i]]
           d == FreeNext(c, q[i])
<1>1. /\ DOMAIN c = {"next", "prev", "key", "start", "end", "currEnd", "currsize", "judy"}
      /\ IsOrder(q, n) /\ c.end = q[n] /\ Links(c.next, c.prev, q, n)
  BY DEF Ordered
<1>2. q[i] = c.end <=> i = n
  BY <1>1, OrderAt
<1>3. CASE i = n
  BY <1>2, <1>3 DEF FreeNext, FreeMoved
<1>4. CASE i # n
  <2>0. n > 1 /\ i \in 1 .. n - 1 /\ n \in Nat
    BY <1>4
  <2>1. s = q[i + 1] /\ c.prev[q[i + 1]] = q[i] /\ c.prev \in [0 .. n - 1 -> Int]
    BY <1>1, <2>0 DEF Links
  <2>2. [c.prev EXCEPT ![s] = q[i]] = c.prev
    BY <2>1, SMTT(30)
  <2>3. d = [c EXCEPT !.currEnd = s, !.prev = [c.prev EXCEPT ![s] = q[i]]]
    BY <1>2, <1>4 DEF FreeNext
  <2> HIDE DEF d, s
  <2>4. /\ DOMAIN d = DOMAIN c /\ d.next = c.next /\ d.prev = c.prev /\ d.key = c.key /\ d.judy = c.judy
        /\ d.currsize = c.currsize /\ d.start = c.start /\ d.end = c.end /\ d.currEnd = s
    BY <1>1, <2>2, <2>3
  <2>5. Ordered(d, q, n)
    BY <2>4 DEF Ordered
  <2> QED BY <2>1, <2>4, <2>5 DEF FreeMoved, d, s
<1> QED BY <1>3, <1>4

(* What cachehash_put does last: the node nd gets the key k.               *)
Given(u, nd, k) ==
  [u EXCEPT !.key[nd] = k, !.currsize = @ + 1,
            !.judy = [j \in DOMAIN @ \cup {k} |-> IF j = k THEN nd ELSE @[j]]]

(* u is c with its free node, at place i, moved to the front ...           *)
Ready(u, c, q, i, n) ==
  /\ Ordered(c, q, n) /\ Filled(c, q, n) /\ c.currsize = i - 1
  /\ Ordered(u, ToFront(q, i), n)
  /\ u.key = c.key /\ u.judy = c.judy /\ u.currsize = c.currsize
  /\ i < n => u.currEnd = q[i + 1]

(* ... and p holds the key k there.                                        *)
Entered(p, c, q, i, k, n) ==
  /\ Ordered(p, ToFront(q, i), n) /\ Filled(p, ToFront(q, i), n) /\ p.currsize = i
  /\ \A j \in 1 .. i : p.key[ToFront(q, i)[j]] = IF j = 1 THEN k ELSE c.key[q[j - 1]]

(* A key given to the free node, which has become the first node. *)
LEMMA KeyGiven ==
  ASSUME NEW c, NEW u, NEW n \in Nat \ {0}, NEW q, NEW k, NEW i \in 1 .. n,
         Ready(u, c, q, i, n), k \notin DOMAIN c.judy
  PROVE  Entered(Given(u, q[i], k), c, q, i, k, n)
<1>0. /\ Ordered(c, q, n) /\ Filled(c, q, n) /\ c.currsize = i - 1
      /\ Ordered(u, ToFront(q, i), n)
      /\ u.key = c.key /\ u.judy = c.judy /\ u.currsize = c.currsize
      /\ i < n => u.currEnd = q[i + 1]
  BY DEF Ready
<1> DEFINE m == c.currsize
           f == ToFront(q, i)
           nd == q[i]
           p == Given(u, nd, k)
           key2 == [u.key EXCEPT ![nd] = k]
           judy2 == [j \in DOMAIN u.judy \cup {k} |-> IF j = k THEN nd ELSE u.judy[j]]
<1>1. IsOrder(q, n) /\ m \in Nat /\ m < n /\ i \in 1 .. n /\ i = m + 1
  BY <1>0, KeysApart DEF Ordered
<1>2. \A j \in 1 .. n : f[j] = IF j = 1 THEN q[i] ELSE IF j <= i THEN q[j - 1] ELSE q[j]
  BY <1>1 DEF ToFront, IsOrder
<1>3. DOMAIN u = {"next", "prev", "key", "start", "end", "currEnd", "currsize", "judy"}
  BY <1>0 DEF Ordered
<1>4. /\ DOMAIN c.key = 0 .. n - 1
      /\ DOMAIN c.judy = {c.key[q[j]] : j \in 1 .. m}
      /\ \A j \in 1 .. m : c.judy[c.key[q[j]]] = q[j]
  BY <1>0 DEF Filled
<1>5. /\ u.key = c.key /\ u.judy = c.judy /\ u.currsize = m /\ Ordered(u, f, n)
      /\ i < n => u.currEnd = q[i + 1]
  BY <1>0
<1>6. nd = q[i] /\ k \notin DOMAIN c.judy
  OBVIOUS
<1>19. p = [u EXCEPT !.key = key2, !.currsize = m + 1, !.judy = judy2]
  BY <1>5 DEF Given
<1> HIDE DEF m, f, nd, p, key2, judy2
<1>7. /\ DOMAIN p = DOMAIN u /\ p.key = key2 /\ p.judy = judy2 /\ p.currsize = m + 1
      /\ p.currEnd = u.currEnd /\ p.next = u.next /\ p.prev = u.prev /\ p.start = u.start /\ p.end = u.end
  BY <1>3, <1>19
<1>8. Ordered(p, f, n)
  BY <1>5, <1>7 DEF Ordered
<1>9. f[1] = q[i] /\ (i < n => f[i + 1] = q[i + 1]) /\ \A j \in 1 .. m : f[j + 1] = q[j]
  <2>1. f[1] = q[i]
    BY <1>1, <1>2
  <2>2. i < n => f[i + 1] = q[i + 1]
    BY <1>1, <1>2
  <2>3. ASSUME NEW j \in 1 .. m PROVE f[j + 1] = q[j]
    <3>1. j + 1 \in 1 .. n /\ j + 1 # 1 /\ j + 1 <= i /\ (j + 1) - 1 = j
      BY <1>1
    <3> QED BY <1>2, <3>1
  <2> QED BY <2>1, <2>2, <2>3
<1>10. key2[q[i]] = k /\ \A j \in 1 .. m : key2[q[j]] = c.key[q[j]]
  <2>1. q[i] \in 0 .. n - 1
    BY <1>1, OrderAt
  <2>2. ASSUME NEW j \in 1 .. m PROVE key2[q[j]] = c.key[q[j]]
    <3>1. j \in 1 .. n /\ j # i
      BY <1>1
    <3>2. q[j] \in 0 .. n - 1 /\ q[j] # q[i]
      BY <1>1, <3>1, OrderAt
    <3> QED BY <1>4, <1>5, <1>6, <3>2 DEF key2
  <2> QED BY <1>4, <1>5, <1>6, <2>1, <2>2 DEF key2
<1>11. \A j \in 1 .. m + 1 : j = 1 \/ (j - 1 \in 1 .. m /\ j = (j - 1) + 1)
  BY <1>1
<1>12. \A j \in 1 .. m : j + 1 \in 1 .. m + 1
  BY <1>1
<1>13. 1 \in 1 .. m + 1
  BY <1>1
<1>14. \A j \in 1 .. m + 1 : key2[f[j]] = IF j = 1 THEN k ELSE c.key[q[j - 1]]
  <2> TAKE j \in 1 .. m + 1
  <2>1. CASE j = 1
    BY <1>9, <1>10, <2>1
  <2>2. CASE j # 1
    <3>1. j - 1 \in 1 .. m /\ j = (j - 1) + 1
      BY <1>11, <2>2
    <3>2. f[j] = q[j - 1]
      BY <1>9, <3>1
    <3> QED BY <1>10, <2>2, <3>1, <3>2
  <2> QED BY <2>1, <2>2
<1>15. DOMAIN judy2 = {key2[f[j]] : j \in 1 .. m + 1}
  <2>1. DOMAIN judy2 = {c.key[q[j]] : j \in 1 .. m} \cup {k}
    BY <1>4, <1>5 DEF judy2
  <2>2. ASSUME NEW j \in 1 .. m + 1 PROVE key2[f[j]] \in {c.key[q[l]] : l \in 1 .. m} \cup {k}
    BY <1>11, <1>14
  <2>3. k \in {key2[f[j]] : j \in 1 .. m + 1}
    BY <1>13, <1>14
  <2>4. ASSUME NEW j \in 1 .. m PROVE c.key[q[j]] \in {key2[f[l]] : l \in 1 .. m + 1}
    <3>1. j + 1 \in 1 .. m + 1 /\ key2[f[j + 1]] = c.key[q[j]]
      BY <1>9, <1>10, <1>12
    <3> QED BY <3>1
  <2> QED BY <2>1, <2>2, <2>3, <2>4
<1>16. \A j \in 1 .. m + 1 : judy2[key2[f[j]]] = f[j]
  <2> TAKE j \in 1 .. m + 1
  <2>1. CASE j = 1
    BY <1>6, <1>9, <1>14, <2>1 DEF judy2
  <2>2. CASE j # 1
    <3>1. j - 1 \in 1 .. m /\ j = (j - 1) + 1 /\ key2[f[j]] = c.key[q[j - 1]]
      BY <1>11, <1>14, <2>2
    <3>2. f[j] = q[j - 1] /\ c.key[q[j - 1]] \in DOMAIN c.judy /\ c.judy[c.key[q[j - 1]]] = q[j - 1]
      BY <1>4, <1>9, <3>1
    <3> QED BY <1>5, <1>6, <3>1, <3>2 DEF judy2
  <2> QED BY <2>1, <2>2
<1>17. Filled(p, f, n)
  <2>1. m + 1 \in 0 .. n /\ DOMAIN key2 = 0 .. n - 1
    BY <1>1, <1>4, <1>5 DEF key2
  <2>2. m + 1 < n => u.currEnd = f[(m + 1) + 1]
    BY <1>1, <1>5, <1>9
  <2>3. DOMAIN p.judy = {p.key[f[j]] : j \in 1 .. p.currsize}
    BY <1>7, <1>15
  <2>4. \A j \in 1 .. p.currsize : p.judy[p.key[f[j]]] = f[j]
    BY <1>7, <1>16
  <2>5. p.currsize \in 0 .. n /\ DOMAIN p.key = 0 .. n - 1 /\ (p.currsize < n => p.currEnd = f[p.currsize + 1])
    BY <1>7, <2>1, <2>2
  <2> QED BY <2>3, <2>4, <2>5, Zenon DEF Filled
<1>18. p.currsize = m + 1 /\ \A j \in 1 .. m + 1 : p.key[f[j]] = IF j = 1 THEN k ELSE c.key[q[j - 1]]
  BY <1>7, <1>14
<1> QED BY <1>1, <1>8, <1>17, <1>18 DEF Entered, f, p, nd, m

PutDone(a, ch, q, k, n) ==
  /\ \E f : Ordered(a, f, n) /\ Filled(a, f, n)
  /\ RecentKeys(a) = [j \in 1 .. (IF ch.currsize < n THEN ch.currsize + 1 ELSE n) |->
                        IF j = 1 THEN k ELSE ch.key[q[j - 1]]]

(* cachehash_put of a key that is not present: it enters at the front, and *)
(* the last one leaves a full list.                                        *)
LEMMA PutEnters ==
  ASSUME NEW ch, NEW n \in Nat \ {0}, NEW q, NEW k, Ordered(ch, q, n), Filled(ch, q, n), ~ Present(ch, k)
  PROVE  PutDone(CachehashPut(ch, k), ch, q, k, n)
<1> DEFINE c == CachehashEvictIfFull(ch)
           i == c.currsize + 1
           d == FreeNext(c, q[i])
           u == Use(d, q[i])
           p == Given(u, q[i], k)
<1>1. /\ Ordered(c, q, n) /\ Filled(c, q, n)
      /\ c.currsize = IF ch.currsize < n THEN ch.currsize ELSE n - 1
      /\ \A j \in 1 .. c.currsize : c.key[q[j]] = ch.key[q[j]]
      /\ DOMAIN c.judy \subseteq DOMAIN ch.judy
  BY EvictFrees
<1>3. ch.currsize \in Nat /\ ch.currsize <= n
  BY KeysApart DEF Ordered
<1>4. /\ i \in 1 .. n /\ c.currsize = i - 1 /\ k \notin DOMAIN c.judy /\ c.currsize < n
      /\ i = IF ch.currsize < n THEN ch.currsize + 1 ELSE n
  <2> HIDE DEF c
  <2> QED BY <1>1, <1>3 DEF Present
<1>2. CachehashPut(ch, k) = p
  <2>1. c.currEnd = q[i]
    BY <1>1, <1>4 DEF Filled
  <2> QED BY <2>1 DEF CachehashPut, Given, FreeNext
<1> HIDE DEF c, i
<1>6. /\ Ordered(d, q, n) /\ d.key = c.key /\ d.judy = c.judy /\ d.currsize = c.currsize
      /\ i < n => d.currEnd = q[i + 1]
  <2>1. FreeMoved(d, c, q, i, n)
    BY <1>1, <1>4, FreeMoves, Zenon
  <2> HIDE DEF d
  <2> QED BY <2>1 DEF FreeMoved
<1> HIDE DEF d
<1>7. /\ Ordered(u, ToFront(q, i), n)
      /\ u.key = d.key /\ u.judy = d.judy /\ u.currsize = d.currsize /\ u.currEnd = d.currEnd
  <2>1. Ordered(d, q, n) /\ i \in 1 .. n
    BY <1>4, <1>6
  <2>2. ASSUME NEW x, NEW j \in 1 .. n, Ordered(x, q, n)
        PROVE  /\ Ordered(Use(x, q[j]), ToFront(q, j), n)
               /\ Use(x, q[j]).key = x.key /\ Use(x, q[j]).judy = x.judy
               /\ Use(x, q[j]).currsize = x.currsize /\ Use(x, q[j]).currEnd = x.currEnd
    BY ONLY n \in Nat \ {0}, <2>2, UseOrders
  <2> QED BY <2>1, <2>2, Zenon
<1> HIDE DEF u
<1>8. Ready(u, c, q, i, n)
  BY <1>1, <1>4, <1>6, <1>7 DEF Ready
<1>8a. Entered(p, c, q, i, k, n)
  <2>1. ASSUME NEW x, NEW j \in 1 .. n, Ready(x, c, q, j, n)
        PROVE  Entered(Given(x, q[j], k), c, q, j, k, n)
    BY <1>4, <2>1, KeyGiven
  <2> QED BY <1>4, <1>8, <2>1
<1> HIDE DEF p
<1>9. /\ Ordered(p, ToFront(q, i), n) /\ Filled(p, ToFront(q, i), n) /\ p.currsize = i
      /\ \A j \in 1 .. i : p.key[ToFront(q, i)[j]] = IF j = 1 THEN k ELSE c.key[q[j - 1]]
  BY <1>8a DEF Entered
<1>9a. RecentKeys(p) = [j \in 1 .. i |-> IF j = 1 THEN k ELSE c.key[q[j - 1]]]
  <2>1. RecentKeys(p) = [j \in 1 .. p.currsize |-> p.key[ToFront(q, i)[j]]]
    BY <1>9, RecentAt
  <2> QED BY <1>9, <2>1
<1>10. [j \in 1 .. i |-> IF j = 1 THEN k ELSE c.key[q[j - 1]]] =
       [j \in 1 .. i |-> IF j = 1 THEN k ELSE ch.key[q[j - 1]]]
  <2>1. \A j \in 1 .. i : j # 1 => j - 1 \in 1 .. c.currsize
    BY <1>4
  <2> QED BY <1>1, <2>1
<1> QED BY <1>2, <1>4, <1>9, <1>9a, <1>10 DEF PutDone

(* cachehash_init makes an empty list. *)
LEMMA InitOrdered ==
  ASSUME NEW n \in Nat \ {0}
  PROVE  CacheInv(CachehashInit(n), n) /\ RecentKeys(CachehashInit(n)) = << >>
<1> DEFINE ch == CachehashInit(n)
           q == [i \in 1 .. n |-> i - 1]
<1>1. IsOrder(q, n)
  BY DEF IsOrder
<1>2. /\ ch.next = [m \in 0 .. n - 1 |-> IF m = n - 1 /\ m # 0 THEN Null ELSE m + 1]
      /\ ch.prev = [m \in 0 .. n - 1 |-> IF m = 0 /\ n - 1 # 0 THEN Null ELSE m - 1]
      /\ DOMAIN ch = {"next", "prev", "key", "start", "end", "currEnd", "currsize", "judy"}
      /\ ch.start = 0 /\ ch.end = n - 1
      /\ ch.currsize = 0 /\ ch.currEnd = 0 /\ DOMAIN ch.key = 0 .. n - 1 /\ ch.judy = << >>
  BY DEF CachehashInit
<1> HIDE DEF ch
<1>3. Links(ch.next, ch.prev, q, n)
  <2>1. ch.next \in [0 .. n - 1 -> Int] /\ ch.prev \in [0 .. n - 1 -> Int]
    BY <1>2 DEF Null
  <2>2. ASSUME NEW i \in 1 .. n - 1 PROVE ch.next[q[i]] = q[i + 1] /\ ch.prev[q[i + 1]] = q[i]
    <3>1. q[i] = i - 1 /\ q[i + 1] = i /\ i - 1 \in 0 .. n - 1 /\ i \in 0 .. n - 1 /\ i - 1 # n - 1
      OBVIOUS
    <3> HIDE DEF q
    <3> QED BY <1>2, <3>1
  <2>3. n > 1 => ch.next[q[n]] = Null
    <3>1. q[n] = n - 1 /\ n - 1 \in 0 .. n - 1
      OBVIOUS
    <3> HIDE DEF q
    <3> QED BY <1>2, <3>1
  <2> QED BY <2>1, <2>2, <2>3, Zenon DEF Links
<1>4. q[1] = 0 /\ q[n] = n - 1 /\ q \in [1 .. n -> 0 .. n - 1]
  OBVIOUS
<1> HIDE DEF q
<1>5. Ordered(ch, q, n)
  BY <1>1, <1>2, <1>3, <1>4 DEF Ordered
<1>6. Filled(ch, q, n)
  <2>1. 1 .. 0 = {} /\ 0 \in 0 .. n /\ 0 + 1 = 1
    OBVIOUS
  <2>2. DOMAIN ch.judy = {}
    BY <1>2
  <2>3. {ch.key[q[i]] : i \in 1 .. 0} = {}
    BY <2>1
  <2> QED BY <1>2, <1>4, <2>1, <2>2, <2>3 DEF Filled
<1>7. RecentKeys(ch) = << >>
  <2>1. RecentKeys(ch) = [i \in 1 .. 0 |-> ch.key[q[i]]]
    BY <1>2, <1>5, <1>6, RecentAt
  <2> QED BY <2>1
<1> QED BY <1>4, <1>5, <1>6, <1>7 DEF CacheInv, ch

(* A function on 1 .. c is a sequence of length c. *)
LEMMA LenOf ==
  ASSUME NEW c \in Nat, NEW r, r = [i \in 1 .. c |-> r[i]]
  PROVE  Len(r) = c /\ DOMAIN r = 1 .. c
<1> DEFINE S == {r[i] : i \in 1 .. c}
<1>1. r \in [1 .. c -> S] /\ DOMAIN r = 1 .. c
  OBVIOUS
<1> HIDE DEF S
<1>2. r \in Seq(S)
  BY <1>1, SeqDef
<1>3. Len(r) \in Nat /\ DOMAIN r = 1 .. Len(r)
  BY <1>2, LenProperties
<1> QED BY <1>1, <1>3

(* What is read off a cachehash: as many keys as it counts, all different, *)
(* and those present.                                                      *)
LEMMA RecentApart ==
  ASSUME NEW ch, NEW n \in Nat \ {0}, CacheInv(ch, n)
  PROVE  /\ Len(RecentKeys(ch)) \in 0 .. n /\ DOMAIN RecentKeys(ch) = 1 .. Len(RecentKeys(ch))
         /\ \A i, j \in DOMAIN RecentKeys(ch) : RecentKeys(ch)[i] = RecentKeys(ch)[j] => i = j
         /\ \A k : Present(ch, k) <=> \E i \in DOMAIN RecentKeys(ch) : RecentKeys(ch)[i] = k
<1>1. PICK q \in [1 .. n -> 0 .. n - 1] : Ordered(ch, q, n) /\ Filled(ch, q, n)
  BY DEF CacheInv
<1>2. ch.currsize \in Nat /\ ch.currsize <= n /\ Distinct(ch, q)
  BY <1>1, KeysApart, SMTT(30) DEF Ordered
<1>3. RecentKeys(ch) = [i \in 1 .. ch.currsize |-> ch.key[q[i]]]
  BY <1>1, RecentAt
<1> DEFINE r == RecentKeys(ch)
<1> HIDE DEF r
<1>4. Len(r) = ch.currsize /\ DOMAIN r = 1 .. ch.currsize
  BY <1>2, <1>3, LenOf DEF r
<1>5. \A i \in 1 .. ch.currsize : r[i] = ch.key[q[i]]
  BY <1>3 DEF r
<1>6. Len(r) \in 0 .. n /\ DOMAIN r = 1 .. Len(r)
  BY <1>2, <1>4
<1>7. \A i, j \in DOMAIN r : r[i] = r[j] => i = j
  BY <1>2, <1>4, <1>5 DEF Distinct
<1>8. \A k : Present(ch, k) <=> \E i \in DOMAIN r : r[i] = k
  BY <1>2, <1>4, <1>5, SMTT(30) DEF Distinct
<1> QED BY <1>6, <1>7, <1>8 DEF r

(* The window that WindowAfter makes of ch. *)
After(ch, k) == IF Present(ch, k) THEN CachehashGet(ch, k) ELSE CachehashPut(ch, k)

(* The window r, of size n, after the new key k. *)
WithNew(r, k, n) ==
  [j \in 1 .. (IF Len(r) < n THEN Len(r) + 1 ELSE n) |-> IF j = 1 THEN k ELSE r[j - 1]]

(* A hit moves the key to the front of the window.                         *)
LEMMA AfterGet ==
  ASSUME NEW ch, NEW n \in Nat \ {0}, CacheInv(ch, n), NEW i \in DOMAIN RecentKeys(ch)
  PROVE  /\ CacheInv(After(ch, RecentKeys(ch)[i]), n)
         /\ RecentKeys(After(ch, RecentKeys(ch)[i])) = ToFront(RecentKeys(ch), i)
<1> DEFINE r == RecentKeys(ch)
<1>1. PICK q \in [1 .. n -> 0 .. n - 1] : Ordered(ch, q, n) /\ Filled(ch, q, n)
  BY DEF CacheInv
<1>2. r = [j \in 1 .. ch.currsize |-> ch.key[q[j]]]
  BY <1>1, RecentAt, SMTT(30)
<1>3. Present(ch, r[i])
  BY RecentApart
<1> HIDE DEF r
<1>4. DOMAIN r = 1 .. ch.currsize /\ \A j \in 1 .. ch.currsize : r[j] = ch.key[q[j]]
  BY <1>2
<1>5. i \in 1 .. ch.currsize /\ r[i] = ch.key[q[i]]
  BY <1>4 DEF r
<1>6. After(ch, r[i]) = Use(ch, q[i])
  <2>1. CachehashGet(ch, ch.key[q[i]]) = Use(ch, q[i])
    BY <1>1, <1>5, GetRefreshes, ZenonT(30)
  <2> QED BY <1>3, <1>5, <2>1 DEF After
<1>7. /\ Ordered(Use(ch, q[i]), ToFront(q, i), n) /\ Filled(Use(ch, q[i]), ToFront(q, i), n)
      /\ RecentKeys(Use(ch, q[i])) =
              [j \in 1 .. ch.currsize |->
                 IF j = 1 THEN ch.key[q[i]] ELSE IF j <= i THEN ch.key[q[j - 1]] ELSE ch.key[q[j]]]
  <2>1. Moved(Use(ch, q[i]), ch, q, i, n)
    BY <1>1, <1>5, GetRefreshes, Zenon
  <2> QED BY <2>1 DEF Moved
<1>8. CacheInv(Use(ch, q[i]), n)
  <2>1. ToFront(q, i) \in [1 .. n -> 0 .. n - 1]
    BY <1>7 DEF Ordered, IsOrder
  <2> QED BY <1>7, <2>1, Zenon DEF CacheInv
<1>9. ToFront(r, i) = [j \in 1 .. ch.currsize |->
                 IF j = 1 THEN ch.key[q[i]] ELSE IF j <= i THEN ch.key[q[j - 1]] ELSE ch.key[q[j]]]
  <2>1. ch.currsize \in Nat
    BY <1>1, KeysApart DEF Ordered
  <2>2. \A j \in 1 .. ch.currsize : j # 1 => j - 1 \in 1 .. ch.currsize
    BY <2>1
  <2> QED BY <1>4, <1>5, <2>2, Zenon DEF ToFront
<1> QED BY <1>6, <1>7, <1>8, <1>9 DEF r

(* A miss puts the key there, and the oldest falls out of a full window.   *)
LEMMA AfterPut ==
  ASSUME NEW ch, NEW n \in Nat \ {0}, CacheInv(ch, n), NEW k, ~ Present(ch, k)
  PROVE  CacheInv(After(ch, k), n) /\ RecentKeys(After(ch, k)) = WithNew(RecentKeys(ch), k, n)
<1> DEFINE r == RecentKeys(ch)
           a == After(ch, k)
<1>1. PICK q \in [1 .. n -> 0 .. n - 1] : Ordered(ch, q, n) /\ Filled(ch, q, n)
  BY DEF CacheInv
<1>2. r = [j \in 1 .. ch.currsize |-> ch.key[q[j]]]
  BY <1>1, RecentAt
<1>3. ch.currsize \in Nat /\ ch.currsize <= n
  BY <1>1, KeysApart DEF Ordered
<1> HIDE DEF r
<1>4. Len(r) = ch.currsize /\ DOMAIN r = 1 .. ch.currsize /\ \A j \in 1 .. ch.currsize : r[j] = ch.key[q[j]]
  BY <1>2, <1>3, LenOf
<1>5. a = CachehashPut(ch, k)
  BY DEF After
<1> HIDE DEF a
<1>6. /\ \E f : Ordered(a, f, n) /\ Filled(a, f, n)
      /\ RecentKeys(a) = [j \in 1 .. (IF ch.currsize < n THEN ch.currsize + 1 ELSE n) |->
                            IF j = 1 THEN k ELSE ch.key[q[j - 1]]]
  <2>1. PutDone(a, ch, q, k, n)
    BY <1>1, <1>5, PutEnters
  <2> QED BY <2>1 DEF PutDone
<1>7. CacheInv(a, n)
  <2>1. PICK f : Ordered(a, f, n) /\ Filled(a, f, n)
    BY <1>6
  <2>2. f \in [1 .. n -> 0 .. n - 1]
    BY <2>1 DEF Ordered, IsOrder
  <2> QED BY <2>1, <2>2, Zenon DEF CacheInv
<1>8. WithNew(r, k, n) = [j \in 1 .. (IF ch.currsize < n THEN ch.currsize + 1 ELSE n) |->
                            IF j = 1 THEN k ELSE ch.key[q[j - 1]]]
  <2>1. \A j \in 1 .. (IF ch.currsize < n THEN ch.currsize + 1 ELSE n) : j # 1 => j - 1 \in 1 .. ch.currsize
    BY <1>3, SMTT(30)
  <2> QED BY <1>4, <2>1, SMTT(30) DEF WithNew
<1> QED BY <1>6, <1>7, <1>8 DEF a, r
=============================================================================
