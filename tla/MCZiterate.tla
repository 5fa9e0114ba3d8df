----------------------------- MODULE MCZiterate -----------------------------
(* Model-checking instances of Ziterate: a scaled-down group table. *)
EXTENDS Ziterate

\* small primes with the prime factors of p - 1; as in groups[], each is a
\* little larger than a power of two
MCGroups ==
  << [prime |-> 5,   prime_factors |-> {2}],
     [prime |-> 11,  prime_factors |-> {2, 5}],
     [prime |-> 19,  prime_factors |-> {2, 3}],
     [prime |-> 37,  prime_factors |-> {2, 3}],
     [prime |-> 67,  prime_factors |-> {2, 3, 11}],
     [prime |-> 131, prime_factors |-> {2, 5, 13}] >>

AllWords == 0 .. W32 - 1
=============================================================================
