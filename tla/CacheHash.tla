------------------------------ MODULE CacheHash -----------------------------
(***************************************************************************)
(* The bounded cache of src/lib/cachehash.c: an array of nodes chained in  *)
(* a doubly linked list, most recently used first, with the free nodes at  *)
(* its tail, and a Judy array from keys to nodes.  A cachehash is a record *)
(* here, and each function of the library an operator from records to      *)
(* records.                                                                *)
(***************************************************************************)
EXTENDS Integers, Sequences, FiniteSets

Null  == -1
NoKey == << >>

(* With one node, its links point outside the array. *)
CachehashInit(maxitems) ==
  LET last == maxitems - 1
  IN  [next |-> [n \in 0 .. last |-> IF n = last /\ n # 0 THEN Null ELSE n + 1],
       prev |-> [n \in 0 .. last |-> IF n = 0 /\ last # 0 THEN Null ELSE n - 1],
       key  |-> [n \in 0 .. last |-> NoKey],
       start |-> 0, end |-> last,   \* first and last node of the list
       currEnd |-> 0,               \* the first free node, while there is one
       currsize |-> 0,
       judy |-> << >>]              \* the node of each key that is present

Full(ch) == ch.currsize = Cardinality(DOMAIN ch.key)

Present(ch, k) == k \in DOMAIN ch.judy

(* Mutant: the last node of the list is moved but stays the last one. *)
Use_KeepsEnd(ch, n) ==
  IF n = ch.start THEN ch
  ELSE LET p == ch.prev[n]
           s == ch.next[n]
       IN  [ch EXCEPT !.next = [@ EXCEPT ![p] = s, ![n] = ch.start],
                      !.prev = [m \in DOMAIN @ |-> IF m = n THEN Null ELSE IF m = ch.start THEN n
                                                   ELSE IF m = s THEN p ELSE @[m]],
                      !.start = n]

(* use: unlink n and put it at the front; nothing to do for the first. *)
Use(ch, n) ==
  IF n = ch.start THEN ch
  ELSE LET p == ch.prev[n]
           s == ch.next[n]
       IN  [ch EXCEPT !.next = [@ EXCEPT ![p] = s, ![n] = ch.start],
                      !.prev = [m \in DOMAIN @ |-> IF m = n THEN Null ELSE IF m = ch.start THEN n
                                                   ELSE IF m = s THEN p ELSE @[m]],
                      !.end = IF s = Null THEN p ELSE @,
                      !.start = n]

(* cachehash_get: a key that is present is used. *)
CachehashGet(ch, k) == IF Present(ch, k) THEN Use(ch, ch.judy[k]) ELSE ch

(* evict: the last node loses its key and becomes the free one. *)
Evict(ch) ==
  [ch EXCEPT !.judy = [k \in DOMAIN @ \ {ch.key[ch.end]} |-> @[k]],
             !.key[ch.end] = NoKey, !.currsize = @ - 1, !.currEnd = ch.end]

CachehashEvictIfFull(ch) == IF Full(ch) THEN Evict(ch) ELSE ch

(* cachehash_put of a key that is not present: it goes into the free node, *)
(* and the node after it is the next free one.                             *)
CachehashPut(ch, k) ==
  LET c == CachehashEvictIfFull(ch)
      n == c.currEnd
      s == c.next[n]
      d == IF n = c.end THEN c ELSE [c EXCEPT !.currEnd = s, !.prev[s] = n]
  IN  [Use(d, n) EXCEPT !.key[n] = k, !.currsize = @ + 1,
                        !.judy = [j \in DOMAIN @ \cup {k} |-> IF j = k THEN n ELSE @[j]]]
-----------------------------------------------------------------------------
(* The nodes in list order, as far as the links lead. *)
Chain(ch) ==
  LET at[i \in 1 .. Cardinality(DOMAIN ch.key)] == IF i = 1 THEN ch.start ELSE ch.next[at[i - 1]]
  IN  at

(* The keys present, the last used first. *)
RecentKeys(ch) == [i \in 1 .. ch.currsize |-> ch.key[Chain(ch)[i]]]
-----------------------------------------------------------------------------
(* What holds of a cachehash of n nodes between calls, proved in module    *)
(* WindowProofs.  The list visits the nodes in the order q, and its links  *)
(* agree in both directions.                                               *)
IsOrder(q, n) ==
  q \in [1 .. n -> 0 .. n - 1] /\ \A i, j \in 1 .. n : q[i] = q[j] => i = j

Links(next, prev, q, n) ==
  /\ next \in [0 .. n - 1 -> Int] /\ prev \in [0 .. n - 1 -> Int]
  /\ \A i \in 1 .. n - 1 : next[q[i]] = q[i + 1] /\ prev[q[i + 1]] = q[i]
  /\ n > 1 => next[q[n]] = Null

Ordered(ch, q, n) ==
  /\ DOMAIN ch = {"next", "prev", "key", "start", "end", "currEnd", "currsize", "judy"}
  /\ IsOrder(q, n) /\ Links(ch.next, ch.prev, q, n)
  /\ ch.start = q[1] /\ ch.end = q[n]

(* The first nodes hold the keys that the Judy array leads to, and the     *)
(* next one is free.                                                       *)
Filled(ch, q, n) ==
  /\ ch.currsize \in 0 .. n /\ DOMAIN ch.key = 0 .. n - 1
  /\ ch.currsize < n => ch.currEnd = q[ch.currsize + 1]
  /\ DOMAIN ch.judy = {ch.key[q[i]] : i \in 1 .. ch.currsize}
  /\ \A i \in 1 .. ch.currsize : ch.judy[ch.key[q[i]]] = q[i]

CacheInv(ch, n) ==
  \E q \in [1 .. n -> 0 .. n - 1] : Ordered(ch, q, n) /\ Filled(ch, q, n)
=============================================================================
