-------------------------- MODULE ShardWalkProofs ---------------------------
(***************************************************************************)
(* Proofs that subshards divide the exponents among them, for every order  *)
(* of the group and every number of subshards below it.                    *)
(***************************************************************************)
EXTENDS ShardWalk, TLAPS

(* Multiplication by a natural number keeps the order: what the prover     *)
(* needs of the products in shard_init.                                    *)
LEMMA ProductMonotone ==
  ASSUME NEW w \in Nat, NEW i \in Nat, NEW j \in Nat, i <= j
  PROVE  w * i \in Nat /\ w * j \in Nat /\ w * i <= w * j
<1>1. PICK d \in Nat : j = i + d
  <2>1. j - i \in Nat /\ j = i + (j - i)
    OBVIOUS
  <2> QED BY <2>1
<1>2. w * j = w * i + w * d
  BY <1>1
<1>3. w * d \in Nat /\ w * i \in Nat
  OBVIOUS
<1> QED BY <1>2, <1>3

(* floor(Q / S) is at least one and fits S times into Q. *)
LEMMA WidthFits ==
  Q \div S \in Nat /\ 1 <= Q \div S /\ (Q \div S) * S <= Q
<1>1. Q \in Nat /\ S \in Nat /\ 0 < S /\ S < Q
  BY ShardWalkAssumption
<1>2. Q \div S \in Nat /\ Q = S * (Q \div S) + (Q % S) /\ Q % S \in 0 .. S - 1
  BY <1>1
<1>3. 1 <= Q \div S
  BY <1>1, <1>2
<1> QED BY <1>1, <1>2, <1>3

(* The ranges Begin(i) .. Limit(i)-1 are not empty, lie within 0 .. Q-1,   *)
(* and follow each other.                                                  *)
LEMMA RangesFollow ==
  ASSUME NEW i \in Shards
  PROVE  /\ Begin(i) \in Nat /\ Limit(i) \in Nat
         /\ Begin(i) < Limit(i) /\ Limit(i) <= Q
         /\ i # S - 1 => /\ i + 1 \in Shards
                         /\ Limit(i) = Begin(i + 1) /\ Limit(i) < Q
                         /\ End(i) = Limit(i)
         /\ i = S - 1 => End(i) = 0
         /\ \A j \in Shards : i < j => Limit(i) <= Begin(j)
<1> DEFINE w == Q \div S
<1>1. Q \in Nat /\ S \in Nat /\ 0 < S /\ S < Q /\ i \in Nat /\ i <= S - 1
  BY ShardWalkAssumption DEF Shards
<1>2. w \in Nat /\ 1 <= w /\ w * S <= Q
  BY WidthFits
<1> HIDE DEF w
<1>3. w * i \in Nat /\ w * (i + 1) = w * i + w /\ w * (i + 1) \in Nat
  BY <1>1, <1>2
<1>4. w * (i + 1) <= w * S /\ w * S \in Nat
  <2>1. i + 1 \in Nat /\ i + 1 <= S
    BY <1>1
  <2> QED BY <1>1, <1>2, <2>1, ProductMonotone
<1>5. Begin(i) = w * i /\ Limit(i) = IF i = S - 1 THEN Q ELSE w * (i + 1)
  BY DEF Begin, Limit, w
<1>6. Begin(i) < Limit(i) /\ Limit(i) <= Q /\ Begin(i) \in Nat /\ Limit(i) \in Nat
  BY <1>1, <1>2, <1>3, <1>4, <1>5
<1>7. ASSUME i # S - 1
      PROVE  /\ i + 1 \in Shards /\ Limit(i) = Begin(i + 1)
             /\ Limit(i) < Q /\ End(i) = Limit(i)
  <2>1. i + 1 \in Shards /\ (i + 1) % S = i + 1 /\ i + 1 <= S - 1 /\ S - 1 \in Nat
    BY <1>1, <1>7 DEF Shards
  <2>2. Begin(i + 1) = w * (i + 1) /\ End(i) = w * (i + 1)
    BY <2>1 DEF Begin, End, w
  <2>3. w * (i + 1) <= w * (S - 1) /\ w * (S - 1) \in Nat
    BY <1>1, <1>2, <2>1, ProductMonotone
  <2>4. w * S = w * (S - 1) + w
    BY <1>1, <1>2
  <2> QED BY <1>1, <1>2, <1>3, <1>4, <1>5, <1>7, <2>1, <2>2, <2>3, <2>4
<1>8. i = S - 1 => End(i) = 0
  <2>1. i = S - 1 => (i + 1) % S = 0
    BY <1>1
  <2>2. w * 0 = 0
    BY <1>2
  <2> QED BY <2>1, <2>2 DEF End, w
<1>9. ASSUME NEW j \in Shards, i < j
      PROVE  Limit(i) <= Begin(j)
  <2>1. j \in Nat /\ j <= S - 1 /\ i + 1 \in Nat /\ i + 1 <= j /\ i # S - 1
    BY <1>1, <1>9 DEF Shards
  <2>2. w * (i + 1) <= w * j
    BY <1>2, <2>1, ProductMonotone
  <2>3. Begin(j) = w * j /\ Limit(i) = w * (i + 1)
    BY <1>5, <2>1 DEF Begin, w
  <2> QED BY <2>2, <2>3
<1> QED BY <1>6, <1>7, <1>8, <1>9

(* A multiplication by the generator takes a subshard to the next exponent *)
(* of its range, and to its end exactly when the range is used up.         *)
LEMMA NextInRange ==
  ASSUME NEW i \in Shards, at[i] \in Nat, Begin(i) <= at[i], at[i] < Limit(i)
  PROVE  /\ NextExponent(i) = End(i) <=> at[i] = Limit(i) - 1
         /\ NextExponent(i) # End(i) => NextExponent(i) = at[i] + 1
<1>1. Q \in Nat /\ S \in Nat /\ 0 < S /\ S < Q
  BY ShardWalkAssumption
<1>2. CASE i # S - 1
  <2>1. End(i) = Limit(i) /\ Limit(i) < Q /\ Limit(i) \in Nat
    BY <1>2, RangesFollow
  <2>2. (at[i] + 1) % Q = at[i] + 1
    BY <1>1, <2>1
  <2> QED BY <1>1, <2>1, <2>2 DEF NextExponent
<1>3. CASE i = S - 1
  <2>1. End(i) = 0 /\ Limit(i) = Q
    BY <1>3, RangesFollow DEF Limit
  <2>2. at[i] + 1 < Q => (at[i] + 1) % Q = at[i] + 1
    BY <1>1
  <2>3. at[i] + 1 = Q => (at[i] + 1) % Q = 0
    BY <1>1
  <2> QED BY <1>1, <2>1, <2>2, <2>3 DEF NextExponent
<1> QED BY <1>2, <1>3

(* shard_init leaves every subshard at the first exponent of its range.    *)
LEMMA InitEstablishesWalkInv ==
  Init => WalkInv
<1> SUFFICES ASSUME Init PROVE WalkInv
  OBVIOUS
<1>1. Q \in Nat
  BY ShardWalkAssumption
<1>2. ASSUME NEW i \in Shards
      PROVE  Begin(i) \in 0 .. Q - 1 /\ Begin(i) < Limit(i) /\ Begin(i) \in Nat
  BY <1>1, RangesFollow
<1>3. \A i \in Shards : {Begin(i)} = Begin(i) .. Begin(i)
  BY <1>2
<1> QED BY <1>2, <1>3 DEF Init, WalkInv

(* A multiplication by the generator keeps a subshard inside its range.    *)
LEMMA NextPreservesWalkInv ==
  WalkInv /\ [Next]_vars => WalkInv'
<1> SUFFICES ASSUME WalkInv, [Next]_vars PROVE WalkInv'
  OBVIOUS
<1>1. Q \in Nat
  BY ShardWalkAssumption
<1>2. ASSUME NEW i \in Shards, Advance(i)
      PROVE  WalkInv'
  <2>1. at[i] \in Nat /\ Begin(i) <= at[i] /\ at[i] < Limit(i)
    BY <1>1 DEF WalkInv
  <2>2. NextExponent(i) = at[i] + 1 /\ at[i] # Limit(i) - 1
    BY <1>2, <2>1, NextInRange DEF Advance
  <2>3. Begin(i) \in Nat /\ Limit(i) \in Nat /\ Limit(i) <= Q
    BY RangesFollow
  <2>4. at[i] + 1 \in 0 .. Q - 1 /\ at[i] + 1 < Limit(i) /\ Begin(i) <= at[i] + 1
    BY <1>1, <2>1, <2>2, <2>3
  <2>5. (Begin(i) .. at[i]) \cup {at[i] + 1} = Begin(i) .. (at[i] + 1)
    BY <2>1, <2>3
  <2>6. /\ at' = [at EXCEPT ![i] = at[i] + 1]
        /\ visited' = [visited EXCEPT ![i] = Begin(i) .. (at[i] + 1)]
        /\ done' = done /\ ~ done[i]
    BY <1>2, <2>2, <2>5, Zenon DEF Advance, WalkInv
  <2>7. Begin(i) .. (at[i] + 1) \in SUBSET (0 .. Q - 1)
    BY <1>1, <2>3, <2>4
  <2> QED BY <2>4, <2>6, <2>7 DEF WalkInv
<1>3. ASSUME NEW i \in Shards, Stop(i)
      PROVE  WalkInv'
  <2>1. at[i] \in Nat /\ Begin(i) <= at[i] /\ at[i] < Limit(i)
    BY <1>1 DEF WalkInv
  <2>2. at[i] = Limit(i) - 1
    BY <1>3, <2>1, NextInRange DEF Stop
  <2> QED BY <1>3, <2>2 DEF Stop, WalkInv
<1>4. CASE UNCHANGED vars
  BY <1>4 DEF WalkInv, vars
<1> QED BY <1>2, <1>3, <1>4 DEF Next

(* Every subshard has walked its range up to where it is, and no further.  *)
THEOREM WalkInvariant == Spec => []WalkInv
BY InitEstablishesWalkInv, NextPreservesWalkInv, PTL DEF Spec

(* No two subshards walk the same exponent, whatever the order of the      *)
(* group and the number of shards and threads (shard_init, shard.c:75-81). *)
THEOREM WalkDisjoint == Spec => []Disjoint
<1>1. WalkInv => Disjoint
  <2> SUFFICES ASSUME WalkInv, NEW i \in Shards, NEW j \in Shards, i < j
               PROVE  visited[i] \cap visited[j] = {}
    BY ShardWalkAssumption DEF Disjoint, Shards
  <2>1. Limit(i) \in Nat /\ Begin(j) \in Nat /\ Begin(i) \in Nat /\ Limit(i) <= Begin(j)
    BY RangesFollow
  <2>2. /\ visited[i] = Begin(i) .. at[i] /\ visited[j] = Begin(j) .. at[j]
        /\ at[i] < Limit(i) /\ at[i] \in Int
    BY ShardWalkAssumption DEF WalkInv
  <2> QED BY <2>1, <2>2
<1> QED BY <1>1, WalkInvariant, PTL

(* Every exponent lies in the range of a subshard: that of its quotient by *)
(* the width, or the last one, which takes the remainder.                  *)
LEMMA RangesCover ==
  ASSUME NEW e \in 0 .. Q - 1
  PROVE  \E i \in Shards : Begin(i) <= e /\ e < Limit(i)
<1> DEFINE w == Q \div S
           k == e \div w
<1>1. Q \in Nat /\ S \in Nat /\ 0 < S /\ S < Q /\ e \in Nat /\ e < Q
  BY ShardWalkAssumption
<1>2. w \in Nat /\ 1 <= w /\ w * S <= Q
  BY WidthFits
<1> HIDE DEF w
<1>3. k \in Nat /\ e = w * k + (e % w) /\ e % w \in 0 .. w - 1
  BY <1>1, <1>2
<1> HIDE DEF k
<1>4. w * k \in Nat /\ w * (k + 1) = w * k + w
  BY <1>2, <1>3
<1>5. w * k <= e /\ e < w * (k + 1)
  BY <1>1, <1>2, <1>3, <1>4
<1>6. CASE k < S - 1
  <2>1. k \in Shards /\ Begin(k) = w * k /\ Limit(k) = w * (k + 1)
    BY <1>1, <1>3, <1>6 DEF Shards, Begin, Limit, w
  <2> QED BY <1>5, <2>1
<1>7. CASE S - 1 <= k
  <2>1. S - 1 \in Shards /\ Begin(S - 1) = w * (S - 1) /\ Limit(S - 1) = Q
    BY <1>1 DEF Shards, Begin, Limit, w
  <2>2. w * (S - 1) <= w * k /\ w * (S - 1) \in Nat
    BY <1>1, <1>2, <1>3, <1>7, ProductMonotone
  <2> QED BY <1>1, <1>4, <1>5, <2>1, <2>2
<1> QED BY <1>1, <1>3, <1>6, <1>7

(* When every subshard is done the whole group has been walked, whatever   *)
(* the remainder of the division (exponent_end, shard.c:80-81).            *)
THEOREM WalkExhaustive == Spec => []Exhaustive
<1>1. WalkInv => Exhaustive
  <2> SUFFICES ASSUME WalkInv, \A i \in Shards : done[i], NEW e \in 0 .. Q - 1
               PROVE  \E i \in Shards : e \in visited[i]
    BY DEF Exhaustive
  <2>1. PICK i \in Shards : Begin(i) <= e /\ e < Limit(i)
    BY RangesCover
  <2>2. Begin(i) \in Nat /\ Limit(i) \in Nat
    BY RangesFollow
  <2>3. visited[i] = Begin(i) .. at[i] /\ at[i] = Limit(i) - 1
    BY DEF WalkInv
  <2> QED BY ShardWalkAssumption, <2>1, <2>2, <2>3
<1> QED BY <1>1, WalkInvariant, PTL

(* The exponents stay in 0 .. Q-1.                                         *)
THEOREM WalkTyped == Spec => []TypeOK
<1>1. WalkInv => TypeOK
  BY DEF WalkInv, TypeOK
<1> QED BY <1>1, WalkInvariant, PTL
=============================================================================
