------------------------------- MODULE Cyclic -------------------------------
(***************************************************************************)
(* The cyclic group behind ZMap's target permutation (src/src/cyclic.c).   *)
(*                                                                         *)
(* A scan walks the multiplicative group of integers modulo a prime,       *)
(* multiplying by a primitive root.  The machine widths are constants, so  *)
(* that TLC can look at a scaled-down machine with the same proportions:   *)
(* W32 stands for 2^32, W64 for 2^64 and MaxRoot for the 2^22 of           *)
(* find_primroot.                                                          *)
(***************************************************************************)
EXTENDS Integers, Sequences, FiniteSets, FiniteSetsExt

CONSTANTS
  Groups,   \* the table groups[]: records [prime, prime_factors], ascending
  W32,      \* number of values of a uint32_t
  W64,      \* number of values of a uint64_t
  MaxRoot   \* max_root of find_primroot

ASSUME CyclicAssumption ==
  /\ W32 \in Nat \ {0} /\ W64 \in Nat \ {0} /\ MaxRoot \in Nat \ {0}
  /\ Groups \in Seq([prime : Nat, prime_factors : SUBSET Nat])
  /\ \A i \in 1 .. Len(Groups) - 1 : Groups[i].prime < Groups[i + 1].prime

(* mpz_powm: GMP has no width, so nothing is truncated. *)
PowMod(b, e, p) ==
  LET pow[i \in 0 .. e] ==
        IF i = 0 THEN 1
        ELSE LET half == pow[i \div 2]
             IN  (half * half * (IF i % 2 = 1 THEN b ELSE 1)) % p
  IN  pow[e] % p

(* get_group: the first group of the table larger than min_size. *)
GetGroup(min_size) ==
  Groups[Min({i \in DOMAIN Groups : Groups[i].prime > min_size})]

(* Mutant:   the zero candidate is not skipped and only the smallest       *)
(* factor is tested.                                                       *)
IsPrimRoot_OneFactor(candidate, group) ==
  PowMod(candidate, (group.prime - 1) \div Min(group.prime_factors),
         group.prime) # 1

(* The test of find_primroot's loop: a candidate is a primitive root when  *)
(* no power (p-1)/q, q a prime factor of p-1, takes it to 1.               *)
IsPrimRoot(candidate, group) ==
  /\ candidate # 0
  /\ \A q \in group.prime_factors :
        PowMod(candidate, (group.prime - 1) \div q, group.prime) # 1

(* find_primroot: step from a random word to the first candidate that      *)
(* passes the test.  The first step reduces by the prime and by max_root;  *)
(* from then on the candidates run modulo the smaller of the two.          *)
FindPrimRoot(word, group) ==
  LET start == (word % group.prime) % W32
      first == (((start + 1) % W32) % group.prime) % MaxRoot
      range == Min({group.prime, MaxRoot})
      candidate(n) == (first + n) % range
      found == {n \in 0 .. range - 1 : IsPrimRoot(candidate(n), group)}
  IN  candidate(Min(found))

(* make_cycle: the first word picks the generator, the second the offset.  *)
MakeCycle(group, words) ==
  [group     |-> group,
   generator |-> FindPrimRoot(words[1] % W32, group),
   offset    |-> (words[2] % W32) % group.prime,
   order     |-> group.prime - 1]
=============================================================================
