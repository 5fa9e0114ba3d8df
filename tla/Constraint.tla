----------------------------- MODULE Constraint -----------------------------
(***************************************************************************)
(* The address constraint tree (src/lib/constraint.c): a binary trie whose *)
(* leaves carry a value for every address below them.  For the value it is *)
(* painted with, the prefixes of RadixLength bits that lie whole in one    *)
(* leaf are listed in the radix array, and every node counts the addresses *)
(* below it that are not in that array.                                    *)
(***************************************************************************)
EXTENDS Naturals, Sequences

CONSTANTS
  AddrBits,     \* bits of an address: 32
  RadixLength   \* RADIX_LENGTH: 18

ASSUME ConstraintAssumption == AddrBits \in Nat /\ RadixLength \in 0 .. AddrBits

Addrs     == 0 .. 2 ^ AddrBits - 1
RadixSize == 2 ^ (AddrBits - RadixLength)

CreateLeaf(value) == [leaf |-> TRUE, value |-> value, count |-> 0]

IsLeaf(node) == node.leaf

ToLeaf(node, value) == [leaf |-> TRUE, value |-> value, count |-> node.count]

TopBit(prefix) == prefix \div 2 ^ (AddrBits - 1)
ShiftLeft(prefix) == (2 * prefix) % 2 ^ AddrBits

(* Mutant: the values of the two leaves are not compared. *)
Merge_AnyLeaves(node) ==
  IF IsLeaf(node.l) /\ IsLeaf(node.r) THEN ToLeaf(node, node.l.value) ELSE node

(* The tail of _set_recurse: an internal node whose children are leaves    *)
(* with one value becomes a leaf itself.                                   *)
Merge(node) ==
  IF IsLeaf(node.l) /\ IsLeaf(node.r) /\ node.l.value = node.r.value
    THEN ToLeaf(node, node.l.value)
    ELSE node

RECURSIVE SetRecurse(_, _, _, _)
SetRecurse(node, prefix, len, value) ==
  IF len = 0 THEN ToLeaf(node, value)
  ELSE IF IsLeaf(node) /\ node.value = value THEN node
  ELSE LET side(n) == SetRecurse(n, ShiftLeft(prefix), len - 1, value)
           l == IF IsLeaf(node) THEN CreateLeaf(node.value) ELSE node.l
           r == IF IsLeaf(node) THEN CreateLeaf(node.value) ELSE node.r
           right == TopBit(prefix) = 1
       IN  Merge([leaf |-> FALSE, value |-> node.value, count |-> node.count,
                  l |-> IF right THEN l ELSE side(l),
                  r |-> IF right THEN side(r) ELSE r])

(* _lookup_node: the node at the end of the prefix, or the leaf met first. *)
RECURSIVE LookupNode(_, _, _)
LookupNode(node, prefix, len) ==
  IF len = 0 \/ IsLeaf(node) THEN node
  ELSE LookupNode(IF TopBit(prefix) = 1 THEN node.r ELSE node.l,
                  ShiftLeft(prefix), len - 1)

(* _count_ips_recurse without paint. *)
RECURSIVE CountIpsRecurse(_, _, _, _)
CountIpsRecurse(node, value, size, excludeRadix) ==
  IF IsLeaf(node)
    THEN IF node.value # value \/ (excludeRadix /\ size >= RadixSize)
           THEN 0 ELSE size
    ELSE CountIpsRecurse(node.l, value, size \div 2, excludeRadix)
         + CountIpsRecurse(node.r, value, size \div 2, excludeRadix)

(* _count_ips_recurse with paint: every node keeps its own count. *)
RECURSIVE PaintCounts(_, _, _)
PaintCounts(node, value, size) ==
  LET painted == [node EXCEPT !.count = CountIpsRecurse(node, value, size, TRUE)]
  IN  IF IsLeaf(node) THEN painted
      ELSE [painted EXCEPT !.l = PaintCounts(node.l, value, size \div 2),
                           !.r = PaintCounts(node.r, value, size \div 2)]

-----------------------------------------------------------------------------
ConstraintInit(value) ==
  [root |-> CreateLeaf(value), radix |-> << >>, painted |-> FALSE, paintValue |-> 0]

ConstraintSet(con, prefix, len, value) ==
  [con EXCEPT !.root = SetRecurse(con.root, prefix, len, value), !.painted = FALSE]

ConstraintPaintValue(con, value) ==
  LET root == PaintCounts(con.root, value, 2 ^ AddrBits)
      prefixes == [i \in 1 .. 2 ^ RadixLength |-> (i - 1) * RadixSize]
      Whole(prefix) == LET node == LookupNode(root, prefix, RadixLength)
                       IN  IsLeaf(node) /\ node.value = value
  IN  [root |-> root, radix |-> SelectSeq(prefixes, Whole),
       painted |-> TRUE, paintValue |-> value]

ConstraintLookupIp(con, address) == LookupNode(con.root, address, AddrBits).value

ConstraintCountIps(con, value) ==
  IF con.painted /\ con.paintValue = value
    THEN con.root.count + Len(con.radix) * RadixSize
    ELSE CountIpsRecurse(con.root, value, 2 ^ AddrBits, FALSE)

(* _lookup_index: the walk down the counts; half is the mask, the number   *)
(* of addresses under either child.                                        *)
RECURSIVE LookupIndexFrom(_, _, _, _)
LookupIndexFrom(node, n, ip, half) ==
  IF IsLeaf(node) THEN ip + n
  ELSE IF n < node.l.count THEN LookupIndexFrom(node.l, n, ip, half \div 2)
  ELSE LookupIndexFrom(node.r, n - node.l.count, ip + half, half \div 2)

(* Mutant: the addresses in the radix array are not taken off the index. *)
ConstraintLookupIndex_NotReduced(con, index, value) ==
  LET radixIdx == index \div RadixSize
  IN  IF radixIdx < Len(con.radix)
        THEN con.radix[radixIdx + 1] + (index % RadixSize)
        ELSE LookupIndexFrom(con.root, index, 0, 2 ^ (AddrBits - 1))

ConstraintLookupIndex(con, index, value) ==
  LET c == IF con.painted /\ con.paintValue = value
             THEN con ELSE ConstraintPaintValue(con, value)
      radixIdx == index \div RadixSize
  IN  IF radixIdx < Len(c.radix)
        THEN c.radix[radixIdx + 1] + (index % RadixSize)
        ELSE LookupIndexFrom(c.root, index - Len(c.radix) * RadixSize, 0,
                             2 ^ (AddrBits - 1))
=============================================================================
