---------------------------- MODULE MCZblocklist ----------------------------
(* A four-bit address space with a radix of two bits: a prefix of three or *)
(* four bits ends in the tree, a shorter one in the radix array.           *)
EXTENDS Zblocklist

Cidr(a, len) == [kind |-> "ipv4", addrs |-> <<a>>, len |-> len]

SomeEntries ==
  {Cidr(0, 0), Cidr(11, 1), Cidr(4, 2), Cidr(12, 3), Cidr(5, 4),
   [kind |-> "ipv4", addrs |-> <<6, 14>>, len |-> 4],
   [kind |-> "ipv4", addrs |-> << >>, len |-> 4],
   [kind |-> "badlen"], [kind |-> "ipv6"]}
=============================================================================
