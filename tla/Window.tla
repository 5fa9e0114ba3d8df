-------------------------------- MODULE Window ------------------------------
(***************************************************************************)
(* What the receiver expects of its cache of recent responses              *)
(* (src/src/recv.c:123-132): a window of the WindowSize most recently seen *)
(* keys, the latest first.                                                 *)
(***************************************************************************)
EXTENDS Naturals, Sequences

CONSTANTS WindowKeys, WindowSize

VARIABLE recent

WindowInit == recent = << >>

(* The key at place i becomes the latest. *)
Refresh(i) ==
  recent' = [j \in DOMAIN recent |->
               IF j = 1 THEN recent[i] ELSE IF j <= i THEN recent[j - 1] ELSE recent[j]]

(* A new key becomes the latest, and the oldest falls out of a full window. *)
Enter(key) ==
  recent' = [j \in 1 .. (IF Len(recent) < WindowSize THEN Len(recent) + 1 ELSE WindowSize) |->
               IF j = 1 THEN key ELSE recent[j - 1]]

See(key) ==
  \/ \E i \in DOMAIN recent : recent[i] = key /\ Refresh(i)
  \/ (\A i \in DOMAIN recent : recent[i] # key) /\ Enter(key)

WindowSpec == WindowInit /\ [][\E key \in WindowKeys : See(key)]_recent
=============================================================================
