----------------------------- MODULE ShardWalk ------------------------------
(***************************************************************************)
(* What the iterator promises: the S subshards of a scan divide the        *)
(* exponents 0 .. Q-1 of the generator among them, each walks its own from *)
(* the first to the last, and together they walk all of them.  This is     *)
(* shard.c without the group: an element of the group is represented by    *)
(* its discrete logarithm, less the random offset.  Module Ziterate is     *)
(* checked to implement it.                                                *)
(***************************************************************************)
EXTENDS Integers

CONSTANTS
  Q,  \* the order of the group
  S   \* the number of subshards

(* assert(num_subshards < num_elts) in shard_init. *)
ASSUME ShardWalkAssumption == Q \in Nat /\ S \in Nat \ {0} /\ S < Q

VARIABLES
  at,       \* the exponent at which each subshard is
  done,     \* whether it is ZMAP_SHARD_DONE
  visited   \* the exponents it has been at

vars == <<at, done, visited>>

Shards == 0 .. S - 1

(* exponent_begin, and exponent_end: the first exponent of the next        *)
(* subshard, going round to the first one.                                 *)
Begin(i) == (Q \div S) * i

(* Mutant: the last subshard stops where an even split would. *)
End_NoWrap(i) == (Q \div S) * (i + 1)

(* Mutant: one exponent too many in every subshard. *)
End_OneMore(i) == (Q \div S) * ((i + 1) % S) + 1

End(i) == (Q \div S) * ((i + 1) % S)

Init ==
  /\ at = [i \in Shards |-> Begin(i)]
  /\ done = [i \in Shards |-> FALSE]
  /\ visited = [i \in Shards |-> {Begin(i)}]

(* One multiplication by the generator. *)
NextExponent(i) == (at[i] + 1) % Q

Advance(i) ==
  /\ ~ done[i] /\ NextExponent(i) # End(i)
  /\ at' = [at EXCEPT ![i] = NextExponent(i)]
  /\ visited' = [visited EXCEPT ![i] = @ \cup {NextExponent(i)}]
  /\ UNCHANGED done

Stop(i) ==
  /\ ~ done[i] /\ NextExponent(i) = End(i)
  /\ done' = [done EXCEPT ![i] = TRUE]
  /\ UNCHANGED <<at, visited>>

Next == \E i \in Shards : Advance(i) \/ Stop(i)

Spec == Init /\ [][Next]_vars
-----------------------------------------------------------------------------
TypeOK ==
  /\ at \in [Shards -> 0 .. Q - 1]
  /\ done \in [Shards -> BOOLEAN]
  /\ visited \in [Shards -> SUBSET (0 .. Q - 1)]

(* No exponent is walked by two subshards (shard.c:75-81).                 *)
Disjoint ==
  \A i, j \in Shards : i # j => visited[i] \cap visited[j] = {}

(* When every subshard is done, every exponent has been walked: the last   *)
(* subshard takes the remainder of the division (shard.c:75, 80-81).       *)
Exhaustive ==
  (\A i \in Shards : done[i]) => 0 .. Q - 1 \subseteq UNION {visited[i] : i \in Shards}

(* Where subshard i stops, as a number above all its exponents. *)
Limit(i) == IF i = S - 1 THEN Q ELSE (Q \div S) * (i + 1)

(* The inductive invariant: a subshard has walked exactly the exponents    *)
(* from its begin to where it is, and does not go beyond its limit.        *)
WalkInv ==
  /\ at \in [Shards -> 0 .. Q - 1]
  /\ done \in [Shards -> BOOLEAN]
  /\ visited \in [Shards -> SUBSET (0 .. Q - 1)]
  /\ \A i \in Shards :
       /\ Begin(i) <= at[i] /\ at[i] < Limit(i)
       /\ visited[i] = Begin(i) .. at[i]
       /\ done[i] => at[i] = Limit(i) - 1
=============================================================================
