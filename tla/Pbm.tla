--------------------------------- MODULE Pbm --------------------------------
(***************************************************************************)
(* The paged bitmap (src/lib/pbm.c): one bit for every IPv4 address, in    *)
(* pages that are allocated when a bit of theirs is first set.             *)
(***************************************************************************)
EXTENDS Naturals

CONSTANTS
  PageBits,   \* bits of the offset in a page: 16
  NumPages    \* NUM_PAGES

ASSUME PbmAssumption == PageBits \in Nat /\ NumPages \in Nat \ {0}

NoPage == [allocated |-> FALSE, bits |-> {}]

PbmInit == [p \in 0 .. NumPages - 1 |-> NoPage]

PageOf(v)   == v \div 2 ^ PageBits
OffsetOf(v) == v % 2 ^ PageBits

(* Mutant: a page that is allocated holds all of its bits. *)
PbmCheck_PageOnly(b, v) == b[PageOf(v)].allocated

PbmCheck(b, v) == b[PageOf(v)].allocated /\ OffsetOf(v) \in b[PageOf(v)].bits

PbmSet(b, v) ==
  [b EXCEPT ![PageOf(v)] = [allocated |-> TRUE, bits |-> @.bits \cup {OffsetOf(v)}]]
=============================================================================
