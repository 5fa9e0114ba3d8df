------------------------------- MODULE Shard --------------------------------
(***************************************************************************)
(* The iterator over targets (src/src/shard.c, src/src/iterator.c).        *)
(*                                                                         *)
(* A scan is split into NumShards shards, one ZMap process each, and every *)
(* process into NumThreads subshards, one sender thread each.  A subshard  *)
(* is a range of exponents of the generator; it is walked by multiplying   *)
(* the current group element.  An element e stands for the pair of an      *)
(* address index (e-1) >> bits and a port index, the low bits of e-1.      *)
(* This module holds the subshard record and the functions on it; the      *)
(* programs that drive it are modules of their own.                        *)
(***************************************************************************)
EXTENDS Cyclic

CONSTANTS
  NumAddrs,    \* blocklist_count_allowed()
  NumPorts,    \* zconf.ports->port_count
  NumShards,   \* zconf.total_shards, --shards
  NumThreads,  \* zconf.senders, --sender-threads
  MaxTargets,  \* zsend.max_targets; 0 means no limit
  W16          \* number of values of a uint16_t

NumSubshards == NumShards * NumThreads

(* What the callers and the assertions at the head of shard_init require.  *)
ASSUME ShardAssumption ==
  /\ NumAddrs \in 1 .. W32 - 1 /\ NumPorts \in 1 .. W16
  /\ NumShards \in Nat \ {0} /\ NumThreads \in Nat \ {0}
  /\ MaxTargets \in 0 .. W64 - 1
  /\ NumSubshards <= NumAddrs * NumPorts
  /\ MaxTargets = 0 \/ NumSubshards <= MaxTargets

(* ZMAP_SHARD_DONE: zero, which is no element of the group. *)
ShardDone == 0

(* bits_needed: how many times n-1 can be halved before it is zero. *)
BitsNeeded(n) == Min({r \in 0 .. n : n - 1 < 2 ^ r})

BitsForPort == BitsNeeded(NumPorts)

(* zsend.max_index of iterator_init. *)
MaxIndex == IF NumAddrs > W32 THEN W32 - 1 ELSE NumAddrs % W32

(* The group iterator_init asks for: addresses and ports each rounded up   *)
(* to a power of two.                                                      *)
ScanGroup == GetGroup(2 ^ (BitsNeeded(NumAddrs) + BitsForPort))

(* extract_port, extract_ip: the cast to uint32_t keeps the low 32 bits.   *)
ExtractPort(v) == (v % 2 ^ BitsForPort) % W16
ExtractIp(v)   == (v \div 2 ^ BitsForPort) % W32

(* The blocklist maps an index to an allowed address.  Address 0, that is  *)
(* 0.0.0.0, is never allowed; the order of the others does not matter.     *)
LookupIndex(index) == index + 1

(* zconf.ports->ports[]: distinct port numbers, none of them zero. *)
Port(index) == index + 1

AllTargets == {<<LookupIndex(i), Port(p)>> : i \in 0 .. NumAddrs - 1,
                                             p \in 0 .. NumPorts - 1}

OkTarget(elem) ==
  [ip |-> LookupIndex(ExtractIp(elem - 1)), port |-> Port(ExtractPort(elem - 1)),
   status |-> "OK"]

DoneTarget == [ip |-> 0, port |-> 0, status |-> "DONE"]

(* shard_get_next_elem, in 64-bit arithmetic. *)
NextElem(s) == ((s.current * s.factor) % W64) % s.modulus

(* The candidates shard_get_next_target accepts. *)
Accepts(candidate) ==
  /\ ExtractIp(candidate - 1) < MaxIndex
  /\ ExtractPort(candidate - 1) < NumPorts

(* One round of the loop of shard_get_next_target: the loop returns at the *)
(* first element of the next subshard and at an accepted candidate, and    *)
(* goes round again otherwise.  The loop need not end: the walk ends only  *)
(* if it meets params.last.                                                *)
NextTargetRound(s) ==
  LET candidate == NextElem(s)
  IN  IF candidate = s.last
      THEN [returns |-> TRUE, target |-> DoneTarget,
            shard |-> [s EXCEPT !.current = ShardDone, !.iterations = @ + 1]]
      ELSE IF Accepts(candidate)
      THEN [returns |-> TRUE, target |-> OkTarget(candidate),
            shard |-> [s EXCEPT !.current = candidate, !.iterations = @ + 1]]
      ELSE [returns |-> FALSE, target |-> DoneTarget,
            shard |-> [s EXCEPT !.current = candidate]]

(* shard_get_cur_target. *)
GetCurTarget(s) ==
  IF s.current = ShardDone THEN DoneTarget ELSE OkTarget(s.current)

(* The test of shard_roll_to_valid; here the address index is compared in  *)
(* 64 bits.  An element that fails it is left with shard_get_next_target.  *)
StartsValid(s) ==
  /\ (s.current - 1) \div 2 ^ BitsForPort < MaxIndex
  /\ ExtractPort(s.current - 1) < NumPorts

(* The exponent at which subshard i begins, before the offset. *)
ExponentBegin(cycle, i) == (cycle.order \div NumSubshards) * i

(* Mutant: the last subshard stops where an even split would. *)
ExponentEnd_NoWrap(cycle, i) == (cycle.order \div NumSubshards) * (i + 1)

(* Mutant: one element too many in every subshard. *)
ExponentEnd_OneMore(cycle, i) ==
  (cycle.order \div NumSubshards) * ((i + 1) % NumSubshards) + 1

(* The exponent at which it stops: the first one of the next subshard. *)
ExponentEnd(cycle, i) ==
  (cycle.order \div NumSubshards) * ((i + 1) % NumSubshards)

(* Mutant: the remainder of the division is nobody's. *)
ShareOfTargets_NoRest(i) == (MaxTargets \div NumSubshards) % W32

(* The share of MaxTargets of subshard i, kept in a uint32_t. *)
ShareOfTargets(i) ==
  (MaxTargets \div NumSubshards
     + (IF i < MaxTargets % NumSubshards THEN 1 ELSE 0)) % W32

(* shard_init, up to the call of shard_roll_to_valid at its end. *)
ShardInit(cycle, sub) ==
  LET i     == sub[1] * NumThreads + sub[2]
      power(e) == PowMod(cycle.generator, (e + cycle.offset) % cycle.order,
                         cycle.group.prime)
  IN  [first       |-> power(ExponentBegin(cycle, i)),
       last        |-> power(ExponentEnd(cycle, i)),
       factor      |-> cycle.generator,
       modulus     |-> cycle.group.prime,
       current     |-> power(ExponentBegin(cycle, i)),
       iterations  |-> 0,
       max_targets |-> IF MaxTargets > 0 THEN ShareOfTargets(i)
                       ELSE 0]
=============================================================================
