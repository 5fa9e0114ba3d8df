---------------------------- MODULE WindowProofs ----------------------------
(***************************************************************************)
(* Proofs about window deduplication (recv.c on the cache of cachehash.c), *)
(* for a window of any size and any packets in any order:                  *)
(*                                                                         *)
(*   - the keys read along the list of the cache are a window of the last  *)
(*     keys: the receiver's steps are steps of module Window, or leave it  *)
(*     alone;                                                              *)
(*   - a target that responded is in that window, or has been pushed out   *)
(*     by as many others as it holds (WindowInv).                          *)
(***************************************************************************)
EXTENDS RecvProofs, CacheHashProofs

(* A lookup, with the put after a miss, is a step of the window. *)
LEMMA WindowSees ==
  ASSUME CacheInv(window, WindowSize), NEW key, window' = WindowAfter(key)
  PROVE  CacheInv(window, WindowSize)' /\ W!See(key)
<1> DEFINE r == RecentKeys(window)
<1>0. WindowSize \in Nat \ {0} /\ window' = After(window, key)
  BY RecvAssumption DEF WindowAfter, After
<1>1. CASE Present(window, key)
  <2>1. PICK i \in DOMAIN r : r[i] = key
    BY <1>0, <1>1, RecentApart
  <2>2. CacheInv(window', WindowSize) /\ RecentKeys(window') = ToFront(r, i)
    BY <1>0, <2>1, AfterGet
  <2>3. W!Refresh(i)
    BY <2>2 DEF W!Refresh, ToFront
  <2> QED BY <2>1, <2>2, <2>3 DEF W!See
<1>2. CASE ~ Present(window, key)
  <2>1. \A i \in DOMAIN r : r[i] # key
    BY <1>0, <1>2, RecentApart
  <2>2. CacheInv(window', WindowSize) /\ RecentKeys(window') = WithNew(r, key, WindowSize)
    BY <1>0, <1>2, AfterPut
  <2>3. W!Enter(key)
    BY <2>2 DEF W!Enter, WithNew
  <2> QED BY <2>1, <2>2, <2>3 DEF W!See
<1> QED BY <1>1, <1>2

(* Only a packet that is accepted with window deduplication touches it.    *)
LEMMA OthersKeepWindow ==
  ASSUME [RecvNext]_<<recvVars, stateVars>>
  PROVE  \/ UNCHANGED window
         \/ \E p \in Responses : \E padding \in Paddings : \E word \in StackWords :
              AcceptPacket(p, padding, word) /\ window' = WindowAfter(CacheKey(p, padding))
<1>1. CASE UNCHANGED <<recvVars, stateVars>>
  BY <1>1 DEF recvVars
<1>2. CASE CreateReceiver \/ CoolDown \/ SendersComplete \/ RecvFinished \/ ReceiverFails
  BY <1>2 DEF CreateReceiver, CoolDown, SendersComplete, RecvFinished, ReceiverFails,
              OpenCaptureFails, CaptureFails, recvVars
<1>3. CASE ReceiverStep
  BY <1>3 DEF ReceiverStep, OpenCapture, AnnounceReady, CountRow, LeaveLoop, FinalStats,
              CloseCapture, CompleteRecv
<1>4. CASE CaptureStep
  <2>1. PICK p \in Responses : Receive(p)
    BY <1>4 DEF CaptureStep
  <2>2. CASE DropPacket(p) \/ RejectPacket(p)
    BY <2>2 DEF DropPacket, RejectPacket
  <2>3. ASSUME NEW padding \in Paddings, NEW word \in StackWords, AcceptPacket(p, padding, word)
        PROVE  \/ UNCHANGED window
               \/ window' = WindowAfter(CacheKey(p, padding))
    BY <2>3 DEF AcceptPacket
  <2> QED BY <2>1, <2>2, <2>3 DEF Receive
<1> QED BY <1>1, <1>2, <1>3, <1>4 DEF RecvNext

(* The cache starts as an empty window. *)
LEMMA InitWindow == RecvInit => CacheInv(window, WindowSize) /\ W!WindowInit
BY RecvAssumption, InitOrdered DEF RecvInit, W!WindowInit

(* Each step of the receiver is a step of the window, or leaves it alone.  *)
LEMMA StepWindow ==
  ASSUME CacheInv(window, WindowSize), [RecvNext]_<<recvVars, stateVars>>
  PROVE  /\ CacheInv(window, WindowSize)'
         /\ [\E key \in {CacheKey(p, padding) : p \in Responses, padding \in Paddings} :
               W!See(key)]_(RecentKeys(window))
<1>1. CASE UNCHANGED window
  BY <1>1
<1>2. ASSUME NEW p \in Responses, NEW padding \in Paddings, window' = WindowAfter(CacheKey(p, padding))
      PROVE  /\ CacheInv(window, WindowSize)' /\ W!See(CacheKey(p, padding))
             /\ CacheKey(p, padding) \in {CacheKey(x, y) : x \in Responses, y \in Paddings}
  BY <1>2, WindowSees
<1> QED BY <1>1, <1>2, OthersKeepWindow

(* The cache of cachehash.c, used as handle_packet uses it (a put after    *)
(* each get that misses), is a window of the last keys: a get refreshes a  *)
(* key, a put forgets the one unused for longest, and nothing else is ever *)
(* forgotten.                                                              *)
THEOREM RecvImplementsWindow == RecvSpec => ImplementsWindow
<1>1. RecvAloneInit => CacheInv(window, WindowSize) /\ W!WindowInit
  BY InitWindow DEF RecvAloneInit
<1>2. CacheInv(window, WindowSize) /\ [RecvNext]_<<recvVars, stateVars>> =>
        /\ CacheInv(window, WindowSize)'
        /\ [\E key \in {CacheKey(p, padding) : p \in Responses, padding \in Paddings} :
               W!See(key)]_(RecentKeys(window))
  BY StepWindow
<1> QED BY <1>1, <1>2, PTL DEF RecvSpec, ImplementsWindow, W!WindowSpec
-----------------------------------------------------------------------------

(* There are finitely many targets in Since. *)
LEMMA SinceFinite ==
  ASSUME NEW cap, NEW k \in Nat, NEW m \in Nat
  PROVE  IsFiniteSet(Since(cap, k, m))
<1> DEFINE I == {i \in k + 1 .. m : cap[i].valid}
           f == [i \in I |-> Key(cap[i])]
<1>1. IsFiniteSet(I)
  <2>1. IsFiniteSet(k + 1 .. m)
    BY FS_Interval
  <2>2. I \in SUBSET (k + 1 .. m)
    OBVIOUS
  <2> HIDE DEF I
  <2> QED BY <2>1, <2>2, FS_Subset, Zenon
<1>2. f \in Surjection(I, Since(cap, k, m))
  BY DEF Since, Surjection
<1> HIDE DEF I, f
<1> QED BY <1>1, <1>2, FS_Surjection

(* A packet more adds its target, if it is valid. *)
LEMMA SinceGrows ==
  ASSUME NEW cap, NEW cap2, NEW L \in Nat, \A i \in 1 .. L : cap2[i] = cap[i], NEW k \in 1 .. L
  PROVE  /\ \A m \in 0 .. L : Since(cap2, k, m) = Since(cap, k, m)
         /\ cap2[L + 1].valid =>
              \A x : x \in Since(cap2, k, L + 1) <=> x \in Since(cap, k, L) \/ x = Key(cap2[L + 1])
         /\ ~ cap2[L + 1].valid => Since(cap2, k, L + 1) = Since(cap, k, L)
<1>1. ASSUME NEW m \in 0 .. L, NEW x
      PROVE  x \in Since(cap2, k, m) <=> x \in Since(cap, k, m)
  <2>1. \A i \in k + 1 .. m : cap2[i] = cap[i]
    OBVIOUS
  <2> QED BY <2>1 DEF Since
<1>2. ASSUME NEW x
      PROVE  x \in Since(cap2, k, L + 1) <=>
               x \in Since(cap, k, L) \/ (cap2[L + 1].valid /\ x = Key(cap2[L + 1]))
  <2>1. \A i : i \in k + 1 .. L + 1 <=> i \in k + 1 .. L \/ i = L + 1
    OBVIOUS
  <2>2. \A i \in k + 1 .. L : cap2[i] = cap[i]
    OBVIOUS
  <2> QED BY <2>1, <2>2 DEF Since
<1>3. \A m \in 0 .. L : Since(cap2, k, m) = Since(cap, k, m)
  BY <1>1, Zenon
<1> QED BY <1>2, <1>3

(* Many since remains many. *)
LEMMA ManyGrows ==
  ASSUME NEW cap, NEW cap2, NEW L \in Nat, \A i \in 1 .. L : cap2[i] = cap[i], NEW k \in 1 .. L
  PROVE  /\ \A m \in 0 .. L : ManySince(cap2, k, m) <=> ManySince(cap, k, m)
         /\ ManySince(cap, k, L) => ManySince(cap2, k, L + 1)
<1>1. cap2[k] = cap[k]
  OBVIOUS
<1>2. \A m \in 0 .. L : ManySince(cap2, k, m) <=> ManySince(cap, k, m)
  <2>1. \A m \in 0 .. L : Since(cap2, k, m) = Since(cap, k, m)
    BY SinceGrows
  <2> QED BY <1>1, <2>1 DEF ManySince
<1>3. ASSUME ManySince(cap, k, L) PROVE ManySince(cap2, k, L + 1)
  <2> DEFINE S == Since(cap, k, L) \ {Key(cap[k])}
             T == Since(cap2, k, L + 1) \ {Key(cap[k])}
  <2>1. S \in SUBSET T
    BY SinceGrows
  <2>2. IsFiniteSet(Since(cap2, k, L + 1))
    BY SinceFinite
  <2>3. IsFiniteSet(T)
    BY <2>2, FS_RemoveElement
  <2>4. Cardinality(S) >= WindowSize
    BY <1>3 DEF ManySince
  <2>5. T = Since(cap2, k, L + 1) \ {Key(cap2[k])}
    BY <1>1
  <2> HIDE DEF S, T
  <2>6. Cardinality(S) <= Cardinality(T) /\ Cardinality(S) \in Nat /\ Cardinality(T) \in Nat
    BY <2>1, <2>3, FS_Subset, FS_CardinalityType
  <2>7. Cardinality(T) >= WindowSize
    BY <2>4, <2>6, RecvAssumption
  <2> QED BY <2>5, <2>7 DEF ManySince
<1> QED BY <1>2, <1>3

(* A row stays right when another packet is captured. *)
LEMMA RowGrows ==
  ASSUME NEW cap, NEW cap2, Len(cap) \in Nat, Len(cap2) = Len(cap) + 1,
         \A i \in 1 .. Len(cap) : cap2[i] = cap[i], NEW r, WindowRow(cap, r)
  PROVE  WindowRow(cap2, r)
<1>1. r.nth \in 1 .. Len(cap) /\ cap[r.nth].valid /\ Key(cap[r.nth]) = Key(r)
  BY DEF WindowRow
<1>2. r.nth \in 1 .. Len(cap2) /\ cap2[r.nth] = cap[r.nth]
  BY <1>1
<1>3. ASSUME NEW k \in 1 .. r.nth - 1, ~ r.repeat, cap2[k].valid, Key(cap2[k]) = Key(r)
      PROVE  ManySince(cap2, k, r.nth - 1)
  <2>1. k \in 1 .. Len(cap) /\ cap2[k] = cap[k] /\ r.nth - 1 \in 0 .. Len(cap)
    BY <1>1, SMTT(30)
  <2>2. ManySince(cap, k, r.nth - 1)
    BY <1>3, <2>1 DEF WindowRow
  <2> QED BY <2>1, <2>2, ManyGrows, Zenon
<1> QED BY <1>1, <1>2, <1>3 DEF WindowRow

(* A key stays behind targets of a larger set when one of them is refreshed. *)
LEMMA RefreshBehind ==
  ASSUME NEW c \in Nat, NEW r, DOMAIN r = 1 .. c, NEW S, NEW T, S \subseteq T, NEW padding,
         NEW a \in 1 .. c, NEW K \in T, r[a] = CacheKeyed(K, padding),
         NEW key, Behind(r, key, S, padding)
  PROVE  Behind(ToFront(r, a), key, T, padding)
<1> DEFINE f == ToFront(r, a)
           In(x) == \E L \in T : x = CacheKeyed(L, padding)
<1>1. DOMAIN f = 1 .. c
  BY DEF ToFront
<1>2. \A j \in 1 .. c : f[j] = IF j = 1 THEN r[a] ELSE IF j <= a THEN r[j - 1] ELSE r[j]
  BY DEF ToFront
<1>3. PICK i \in 1 .. c : /\ r[i] = key
                          /\ \A j \in 1 .. i - 1 : \E L \in S : r[j] = CacheKeyed(L, padding)
  BY DEF Behind
<1>4. (\A j \in 1 .. i - 1 : In(r[j])) /\ In(r[a])
  BY <1>3
<1> SUFFICES ASSUME TRUE PROVE \E b \in 1 .. c : f[b] = key /\ \A j \in 1 .. b - 1 : In(f[j])
  BY <1>1 DEF Behind
<1> HIDE DEF f, In
<1>5. CASE a = i
  <2>1. 1 \in 1 .. c /\ f[1] = key /\ 1 .. 1 - 1 = {}
    BY <1>2, <1>3, <1>5
  <2> QED BY <2>1
<1>6. CASE i < a
  <2>1. i + 1 \in 1 .. c /\ i + 1 # 1 /\ i + 1 <= a /\ (i + 1) - 1 = i
    BY <1>6
  <2>2. f[i + 1] = key
    BY <1>2, <1>3, <2>1
  <2>3. ASSUME NEW j \in 1 .. i PROVE In(f[j])
    <3>1. CASE j = 1
      BY <1>2, <1>4, <3>1
    <3>2. CASE j # 1
      <4>1. j - 1 \in 1 .. i - 1 /\ j \in 1 .. c /\ j <= a
        BY <1>6, <3>2
      <4> QED BY <1>2, <1>4, <3>2, <4>1
    <3> QED BY <3>1, <3>2
  <2> QED BY <2>1, <2>2, <2>3
<1>7. CASE i > a
  <2>1. f[i] = key
    BY <1>2, <1>3, <1>7
  <2>2. ASSUME NEW j \in 1 .. i - 1 PROVE In(f[j])
    <3>1. j \in 1 .. c /\ (j # 1 => j - 1 \in 1 .. i - 1)
      OBVIOUS
    <3>2. f[j] = r[a] \/ (j # 1 /\ f[j] = r[j - 1]) \/ f[j] = r[j]
      BY <1>2, <3>1
    <3> QED BY <1>4, <3>1, <3>2
  <2> QED BY <2>1, <2>2
<1> QED BY <1>5, <1>6, <1>7

(* A whole window of targets of T that does not hold the key. *)
Forgotten(f, key, T, padding, n) ==
  /\ DOMAIN f = 1 .. n
  /\ \A j \in 1 .. n : f[j] # key /\ \E L \in T : f[j] = CacheKeyed(L, padding)

(* A new key enters: the key stays behind a larger set, or was the last of *)
(* a full window and leaves it.                                            *)
LEMMA EnterBehind ==
  ASSUME NEW n \in Nat \ {0}, NEW r, Len(r) \in 0 .. n, DOMAIN r = 1 .. Len(r),
         \A i, j \in DOMAIN r : r[i] = r[j] => i = j,
         NEW S, NEW T, S \subseteq T, NEW padding, NEW K \in T,
         \A i \in DOMAIN r : r[i] # CacheKeyed(K, padding),
         NEW key, Behind(r, key, S, padding)
  PROVE  LET f == WithNew(r, CacheKeyed(K, padding), n)
         IN  Behind(f, key, T, padding) \/ Forgotten(f, key, T, padding, n)
<1> DEFINE f == WithNew(r, CacheKeyed(K, padding), n)
           In(x) == \E L \in T : x = CacheKeyed(L, padding)
           c == IF Len(r) < n THEN Len(r) + 1 ELSE n
<1>1. DOMAIN f = 1 .. c /\ \A j \in 1 .. c : f[j] = IF j = 1 THEN CacheKeyed(K, padding) ELSE r[j - 1]
  BY DEF WithNew
<1>2. PICK i \in 1 .. Len(r) : /\ r[i] = key
                               /\ \A j \in 1 .. i - 1 : \E L \in S : r[j] = CacheKeyed(L, padding)
  BY DEF Behind
<1>3. \A j \in 1 .. i - 1 : In(r[j])
  BY <1>2
<1>4. In(CacheKeyed(K, padding))
  OBVIOUS
<1> HIDE DEF f, In
<1>5. \A j \in 1 .. i : j \in 1 .. c /\ In(f[j])
  <2> TAKE j \in 1 .. i
  <2>1. j \in 1 .. c /\ (j # 1 => j - 1 \in 1 .. i - 1)
    OBVIOUS
  <2> QED BY <1>1, <1>3, <1>4, <2>1
<1>6. CASE i + 1 <= c
  <2>1. i + 1 \in 1 .. c /\ i + 1 # 1 /\ (i + 1) - 1 = i
    BY <1>6
  <2>2. f[i + 1] = key
    BY <1>1, <1>2, <2>1
  <2>3. \E b \in DOMAIN f : f[b] = key /\ \A j \in 1 .. b - 1 : In(f[j])
    <3> HIDE DEF c
    <3> QED BY <1>1, <1>5, <2>1, <2>2
  <2> QED BY <2>3 DEF Behind, In, f
<1>7. CASE ~ (i + 1 <= c)
  <2>0. ASSUME NEW l \in 0 .. n, i \in 1 .. l, ~ (i + 1 <= IF l < n THEN l + 1 ELSE n)
        PROVE  i = n /\ (IF l < n THEN l + 1 ELSE n) = n /\ l = n
    BY <2>0
  <2>1. i = n /\ c = n /\ Len(r) = n
    BY <1>7, <2>0, Zenon
  <2>2. ASSUME NEW j \in 1 .. n PROVE f[j] # key /\ In(f[j])
    <3>1. In(f[j])
      BY <1>5, <2>1
    <3>2. CASE j = 1
      <4>1. f[j] = CacheKeyed(K, padding)
        BY <1>1, <2>1, <3>2
      <4> QED BY <1>2, <3>1, <4>1
    <3>3. CASE j # 1
      <4>1. j - 1 \in 1 .. Len(r) /\ j - 1 # i /\ f[j] = r[j - 1]
        BY <1>1, <2>1, <3>3
      <4> QED BY <1>2, <3>1, <4>1
    <3> QED BY <3>2, <3>3
  <2>3. DOMAIN f = 1 .. n
    BY <1>1, <2>1
  <2> QED BY <2>2, <2>3 DEF Forgotten, In, f
<1> QED BY <1>6, <1>7

(* There are then as many such targets as the window has places. *)
LEMMA ManyForgotten ==
  ASSUME NEW n \in Nat \ {0}, NEW f, \A i, j \in 1 .. n : f[i] = f[j] => i = j,
         NEW T, IsFiniteSet(T), NEW padding, NEW K, Forgotten(f, CacheKeyed(K, padding), T, padding, n)
  PROVE  Cardinality(T \ {K}) >= n
<1> DEFINE U == T \ {K}
           h == [j \in 1 .. n |-> CHOOSE L \in U : f[j] = CacheKeyed(L, padding)]
<1>1. \A j \in 1 .. n : \E L \in U : f[j] = CacheKeyed(L, padding)
  BY DEF Forgotten
<1> HIDE DEF U
<1>2. \A j \in 1 .. n : h[j] \in U /\ f[j] = CacheKeyed(h[j], padding)
  BY <1>1
<1>3. h \in [1 .. n -> U]
  BY <1>2
<1>4. DOMAIN h = 1 .. n
  OBVIOUS
<1> HIDE DEF h
<1>5. h \in Injection(1 .. n, U)
  BY <1>2, <1>3, <1>4 DEF Injection, IsInjective
<1>6. IsFiniteSet(U)
  BY FS_RemoveElement DEF U
<1>7. Cardinality(1 .. n) <= Cardinality(U) /\ Cardinality(U) \in Nat
  BY <1>5, <1>6, FS_Injection, FS_CardinalityType
<1>8. Cardinality(1 .. n) = n
  BY FS_Interval
<1> QED BY <1>7, <1>8 DEF U

(* cap2 is cap and one packet more. *)
OneMore(cap, cap2) ==
  Len(cap) \in Nat /\ Len(cap2) = Len(cap) + 1 /\ \A i \in 1 .. Len(cap) : cap2[i] = cap[i]

(* An accepted packet is remembered, and those before it are or are long past. *)
LEMMA AcceptRemembered ==
  ASSUME NEW cap, NEW cap2, OneMore(cap, cap2), NEW p, p = cap2[Len(cap2)], p.valid,
         NEW ch, CacheInv(ch, WindowSize), NEW padding, Remembered(cap, RecentKeys(ch), padding)
  PROVE  Remembered(cap2, RecentKeys(After(ch, CacheKey(p, padding))), padding)
<1> DEFINE r == RecentKeys(ch)
           L == Len(cap)
           ck == CacheKey(p, padding)
           a == After(ch, ck)
           f == RecentKeys(a)
<1>1. /\ L \in Nat /\ Len(cap2) = L + 1 /\ p = cap2[L + 1]
      /\ \A i \in 1 .. L : cap2[i] = cap[i]
      /\ WindowSize \in Nat \ {0}
  BY RecvAssumption DEF OneMore
<1>2. \A x : CacheKey(x, padding) = CacheKeyed(Key(x), padding)
  BY DEF CacheKey, CacheKeyed, Key
<1>3. /\ Len(r) \in 0 .. WindowSize /\ DOMAIN r = 1 .. Len(r) /\ Len(r) \in Nat
      /\ \A i, j \in DOMAIN r : r[i] = r[j] => i = j
      /\ Present(ch, ck) <=> \E i \in DOMAIN r : r[i] = ck
  BY <1>1, RecentApart
<1>4. CacheInv(a, WindowSize)
  <2>1. CASE Present(ch, ck)
    <3>1. PICK i \in DOMAIN r : r[i] = ck
      BY <1>3, <2>1
    <3> QED BY <1>1, <3>1, AfterGet
  <2>2. CASE ~ Present(ch, ck)
    BY <1>1, <2>2, AfterPut
  <2> QED BY <2>1, <2>2
<1>5. \A i, j \in DOMAIN f : f[i] = f[j] => i = j
  BY <1>1, <1>4, RecentApart
<1>6. 1 \in DOMAIN f /\ f[1] = ck
  <2>1. CASE Present(ch, ck)
    <3>1. PICK i \in DOMAIN r : r[i] = ck
      BY <1>3, <2>1
    <3>2. f = ToFront(r, i)
      BY <1>1, <3>1, AfterGet
    <3>3. 1 \in DOMAIN r
      BY <1>3
    <3> QED BY <3>1, <3>2, <3>3 DEF ToFront
  <2>2. CASE ~ Present(ch, ck)
    <3>1. f = WithNew(r, ck, WindowSize)
      BY <1>1, <2>2, AfterPut
    <3>2. 1 \in 1 .. (IF Len(r) < WindowSize THEN Len(r) + 1 ELSE WindowSize)
      BY <1>1, <1>3
    <3> QED BY <3>1, <3>2 DEF WithNew
  <2> QED BY <2>1, <2>2
<1> SUFFICES ASSUME NEW k \in 1 .. L + 1, cap2[k].valid
             PROVE  \/ Behind(f, CacheKey(cap2[k], padding), Since(cap2, k, L + 1), padding)
                    \/ ManySince(cap2, k, L + 1)
  BY <1>1 DEF Remembered
<1>7. CASE k = L + 1
  <2>1. 1 .. 1 - 1 = {} /\ cap2[k] = p
    BY <1>1, <1>7
  <2> QED BY <1>6, <2>1 DEF Behind
<1>8. CASE k # L + 1
  <2> DEFINE S == Since(cap, k, L)
             T == Since(cap2, k, L + 1)
             key == CacheKey(cap[k], padding)
  <2>1. k \in 1 .. L /\ cap2[k] = cap[k]
    BY <1>1, <1>8
  <2>2. T = S \cup {Key(p)}
    <3>1. cap2[L + 1].valid /\ cap2[L + 1] = p
      BY <1>1
    <3> HIDE DEF L
    <3>2. \A x : x \in Since(cap2, k, L + 1) <=> x \in Since(cap, k, L) \/ x = Key(cap2[L + 1])
      <4>1. L \in Nat /\ (\A i \in 1 .. L : cap2[i] = cap[i]) /\ k \in 1 .. L
        BY <1>1, <2>1
      <4> QED BY ONLY <3>1, <4>1, SinceGrows, Zenon
    <3> QED BY <3>1, <3>2
  <2>3. S \subseteq T /\ Key(p) \in T /\ ck = CacheKeyed(Key(p), padding)
    BY <1>2, <2>2
  <2>4. IsFiniteSet(T)
    BY <1>1, <2>1, SinceFinite
  <2>5. Behind(r, key, S, padding) \/ ManySince(cap, k, L)
    BY <2>1 DEF Remembered
  <2> HIDE DEF S, T, key, r, ck, a, f, L
  <2>6. CASE ManySince(cap, k, L)
    BY <1>1, <2>1, <2>6, ManyGrows, SMTT(30)
  <2>7. CASE Behind(r, key, S, padding) /\ Present(ch, ck)
    <3>1. PICK i \in 1 .. Len(r) : r[i] = ck
      BY <1>3, <2>7
    <3>2. f = ToFront(r, i)
      <4>1. i \in DOMAIN RecentKeys(ch) /\ RecentKeys(ch)[i] = ck
        BY <1>3, <3>1 DEF r
      <4> QED BY <1>1, <4>1, AfterGet DEF r, f, a
    <3>3. r[i] = CacheKeyed(Key(p), padding)
      BY <2>3, <3>1
    <3>4. Behind(ToFront(r, i), key, T, padding)
      BY <1>3, <2>3, <2>7, <3>3, RefreshBehind
    <3> QED BY <2>1, <3>2, <3>4 DEF T, key
  <2>8. CASE Behind(r, key, S, padding) /\ ~ Present(ch, ck)
    <3>1. f = WithNew(r, CacheKeyed(Key(p), padding), WindowSize)
      BY <1>1, <2>3, <2>8, AfterPut DEF r, f, a
    <3>2. \A i \in DOMAIN r : r[i] # CacheKeyed(Key(p), padding)
      BY <1>3, <2>3, <2>8
    <3>3. Behind(f, key, T, padding) \/ Forgotten(f, key, T, padding, WindowSize)
      BY <1>1, <1>3, <2>3, <2>8, <3>1, <3>2, EnterBehind, Zenon
    <3>4. ASSUME Forgotten(f, key, T, padding, WindowSize) PROVE ManySince(cap2, k, L + 1)
      <4>1. key = CacheKeyed(Key(cap[k]), padding)
        BY <1>2 DEF key
      <4>2. DOMAIN f = 1 .. WindowSize
        BY <3>4 DEF Forgotten
      <4>3. Cardinality(T \ {Key(cap[k])}) >= WindowSize
        BY <1>1, <1>5, <2>4, <3>4, <4>1, <4>2, ManyForgotten, Zenon
      <4> QED BY <2>1, <4>3 DEF ManySince, T
    <3> QED BY <2>1, <3>3, <3>4 DEF T, key
  <2> QED BY <2>5, <2>6, <2>7, <2>8
<1> QED BY <1>7, <1>8

(* A packet that is not valid changes nothing. *)
LEMMA RejectRemembered ==
  ASSUME NEW cap, NEW cap2, OneMore(cap, cap2), ~ cap2[Len(cap2)].valid,
         NEW r, NEW padding, Remembered(cap, r, padding)
  PROVE  Remembered(cap2, r, padding)
<1> DEFINE L == Len(cap)
<1>1. L \in Nat /\ Len(cap2) = L + 1 /\ \A i \in 1 .. L : cap2[i] = cap[i]
  BY DEF OneMore
<1> SUFFICES ASSUME NEW k \in 1 .. L + 1, cap2[k].valid
             PROVE  \/ Behind(r, CacheKey(cap2[k], padding), Since(cap2, k, L + 1), padding)
                    \/ ManySince(cap2, k, L + 1)
  BY <1>1 DEF Remembered
<1>2. k \in 1 .. L /\ cap2[k] = cap[k]
  BY <1>1
<1>3. Since(cap2, k, L + 1) = Since(cap, k, L)
  <2>1. ~ cap2[L + 1].valid
    BY <1>1
  <2> HIDE DEF L
  <2> QED BY <1>1, <1>2, <2>1, SinceGrows
<1> QED BY <1>2, <1>3 DEF Remembered, ManySince
-----------------------------------------------------------------------------

(* What capturing a packet does to the history of packets. *)
LEMMA CapturedMore ==
  ASSUME RecvTypeOK, NEW p \in Responses, captured' = Append(captured, p)
  PROVE  OneMore(captured, captured') /\ captured'[Len(captured')] = p
<1>1. captured \in Seq(Responses) /\ Len(captured) \in Nat
  BY DEF RecvTypeOK
<1>2. /\ Len(captured') = Len(captured) + 1
      /\ \A k \in 1 .. Len(captured) : captured'[k] = captured[k]
      /\ captured'[Len(captured) + 1] = p
  BY <1>1, AppendProperties
<1> QED BY <1>1, <1>2 DEF OneMore

(* The rows that are output stay right. *)
LEMMA RowsGrow ==
  ASSUME OneMore(captured, captured'), rows' = rows, HistoryInv
  PROVE  \A j \in DOMAIN rows' : WindowRow(captured', rows'[j])
<1>1. \A r : WindowRow(captured, r) => WindowRow(captured', r)
  BY RowGrows DEF OneMore
<1> QED BY <1>1 DEF HistoryInv

(* Counting a validation leaves filter_success alone. *)
LEMMA SameLimit ==
  ASSUME RecvTypeOK, NEW S, Count(S), "filter_success" \notin S
  PROVE  AtMaxResults' <=> AtMaxResults
<1>1. stats \in [Counters -> Nat] /\ "filter_success" \in Counters
  BY DEF RecvTypeOK, Counters
<1>2. stats'["filter_success"] = stats["filter_success"]
  BY <1>1, CountAdds
<1> QED BY <1>2 DEF AtMaxResults

(* A packet is dropped or rejected. *)
LEMMA DropHistory ==
  ASSUME RecvTypeOK, HistoryInv, NEW p \in Responses, DropPacket(p) \/ RejectPacket(p)
  PROVE  HistoryInv'
<1>1. /\ rpc = "poll" /\ rpc' = "poll" /\ captured' = Append(captured, p)
      /\ UNCHANGED <<window, rows>>
  BY DEF DropPacket, RejectPacket
<1>2. OneMore(captured, captured') /\ captured'[Len(captured')] = p
  BY <1>1, CapturedMore
<1>3. \A j \in DOMAIN rows' : WindowRow(captured', rows'[j])
  BY <1>1, <1>2, RowsGrow
<1>4. ~ AtMaxResults' => \A padding \in Paddings : Remembered(captured', RecentKeys(window'), padding)
  <2>1. CASE DropPacket(p)
    <3>1. AtMaxResults'
      BY <2>1 DEF DropPacket, AtMaxResults
    <3> QED BY <3>1
  <2>2. CASE RejectPacket(p)
    <3>1. ~ AtMaxResults /\ ~ p.valid
      BY <2>2 DEF RejectPacket
    <3>2. \A padding \in Paddings : Remembered(captured, RecentKeys(window), padding)
      BY <3>1 DEF HistoryInv
    <3>3. ~ captured'[Len(captured')].valid
      BY <1>2, <3>1
    <3>4. \A padding \in Paddings : Remembered(captured', RecentKeys(window), padding)
      BY <1>2, <3>2, <3>3, RejectRemembered
    <3> QED BY <1>1, <3>4
  <2> QED BY <2>1, <2>2
<1> QED BY <1>1, <1>3, <1>4 DEF HistoryInv

(* A packet is accepted: the row in hand is a repeat if its target is in   *)
(* the window, and otherwise that target is long past.                     *)
LEMMA AcceptHistory ==
  ASSUME OnePadding, RecvTypeOK, CacheInv(window, WindowSize), HistoryInv,
         Dedups("WINDOW"),
         NEW p \in Responses, NEW padding \in Paddings, NEW word \in StackWords,
         AcceptPacket(p, padding, word)
  PROVE  HistoryInv'
<1> DEFINE ck == CacheKey(p, padding)
<1>1. /\ captured' = Append(captured, p) /\ ~ AtMaxResults /\ p.valid /\ Count({"validation_passed"})
      /\ row' = [ip |-> p.ip, port |-> p.port, src_ip |-> IF conf.ipv6 THEN word ELSE p.ip,
                 success |-> p.success, repeat |-> IsRepeat(p, ck),
                 cooldown |-> send_complete, nth |-> Len(captured) + 1]
      /\ window' = After(window, ck) /\ rows' = rows
  BY DEF AcceptPacket, WindowAfter, After
<1>2. OneMore(captured, captured') /\ captured'[Len(captured')] = p
  BY <1>1, CapturedMore
<1>3. \A j \in DOMAIN rows' : WindowRow(captured', rows'[j])
  BY <1>1, <1>2, RowsGrow
<1>4. ~ AtMaxResults'
  BY <1>1, SameLimit
<1>5. Paddings = {padding} /\ Remembered(captured, RecentKeys(window), padding)
  BY <1>1 DEF OnePadding, HistoryInv
<1>6. Remembered(captured', RecentKeys(window'), padding)
  <2>1. Remembered(captured', RecentKeys(After(window, CacheKey(p, padding))), padding)
    BY <1>1, <1>2, <1>5, AcceptRemembered, Zenon
  <2> QED BY <1>1, <2>1
<1>7. WindowRow(captured', row')
  <2> DEFINE L == Len(captured)
  <2>1. L \in Nat /\ Len(captured') = L + 1 /\ \A i \in 1 .. L : captured'[i] = captured[i]
    BY <1>2 DEF OneMore
  <2>2. row'.nth = L + 1 /\ Key(row') = Key(p) /\ (row'.repeat <=> Present(window, ck))
    <3>1. ~ Dedups("FULL")
      BY DEF Dedups
    <3>2. IsRepeat(p, ck) <=> Present(window, ck)
      BY <3>1, Zenon DEF IsRepeat
    <3>3. row'.nth = L + 1 /\ Key(row') = Key(p) /\ row'.repeat = IsRepeat(p, ck)
      BY <1>1 DEF Key
    <3> QED BY <3>2, <3>3
  <2>3. row'.nth \in 1 .. Len(captured') /\ captured'[row'.nth] = p
    BY <1>2, <2>1, <2>2
  <2>4. ASSUME NEW k \in 1 .. L, ~ Present(window, ck), captured'[k].valid, Key(captured'[k]) = Key(p)
        PROVE  ManySince(captured', k, L)
    <3>1. captured'[k] = captured[k]
      BY <2>1
    <3>2. CacheKey(captured[k], padding) = ck
      BY <2>4, <3>1 DEF Key, CacheKey
    <3>3. ~ Behind(RecentKeys(window), ck, Since(captured, k, L), padding)
      <4>1. WindowSize \in Nat \ {0}
        BY RecvAssumption
      <4>2. \A i \in DOMAIN RecentKeys(window) : RecentKeys(window)[i] # ck
        BY <2>4, <4>1, RecentApart
      <4> QED BY <4>2 DEF Behind
    <3>4. ManySince(captured, k, L)
      BY <1>5, <2>4, <3>1, <3>2, <3>3 DEF Remembered
    <3>5. L \in 0 .. L
      BY <2>1
    <3> HIDE DEF L
    <3> QED BY <2>1, <3>4, <3>5, ManyGrows
  <2>5. row'.nth - 1 = L
    BY <2>1, <2>2
  <2> HIDE DEF L, ck
  <2> QED BY <1>1, <2>2, <2>3, <2>4, <2>5 DEF WindowRow
<1> QED BY <1>3, <1>4, <1>5, <1>6, <1>7 DEF HistoryInv

(* The row in hand is counted and, if kept, output. *)
LEMMA CountHistory ==
  ASSUME RecvTypeOK, HistoryInv, CountRow
  PROVE  HistoryInv'
<1>1. /\ rpc = "count" /\ rpc' = "poll" /\ UNCHANGED <<captured, window>>
      /\ rows' = IF Kept(row) THEN Append(rows, row) ELSE rows
  BY DEF CountRow
<1>2. /\ WindowRow(captured, row) /\ ~ AtMaxResults
      /\ \A j \in DOMAIN rows : WindowRow(captured, rows[j])
      /\ \A padding \in Paddings : Remembered(captured, RecentKeys(window), padding)
  BY <1>1 DEF HistoryInv
<1>3. \A j \in DOMAIN rows' : WindowRow(captured, rows'[j])
  <2>1. rows \in Seq(Row) /\ row \in Row /\ Len(rows) \in Nat /\ DOMAIN rows = 1 .. Len(rows)
    BY LenProperties DEF RecvTypeOK
  <2>2. CASE Kept(row)
    <3>1. rows' = Append(rows, row)
      BY <1>1, <2>2
    <3>2. /\ rows' \in Seq(Row) /\ Len(rows') = Len(rows) + 1
          /\ \A i \in 1 .. Len(rows) : rows'[i] = rows[i]
          /\ rows'[Len(rows) + 1] = row
      BY <2>1, <3>1, AppendProperties
    <3>3. DOMAIN rows' = 1 .. Len(rows')
      BY <3>2, LenProperties
    <3>4. \A j \in DOMAIN rows' : j \in DOMAIN rows \/ j = Len(rows) + 1
      BY <2>1, <3>2, <3>3
    <3> QED BY <1>2, <2>1, <3>2, <3>4
  <2> QED BY <1>1, <1>2, <2>2
<1> QED BY <1>1, <1>2, <1>3 DEF HistoryInv

(* The other steps touch nothing of the history. *)
LEMMA SameHistory ==
  ASSUME HistoryInv, UNCHANGED <<captured, window, row, rows, stats>>, rpc = "count" <=> rpc' = "count"
  PROVE  HistoryInv'
BY DEF HistoryInv, AtMaxResults

(* The invariant of window deduplication is kept. *)
LEMMA StepHistory ==
  ASSUME OnePadding, WindowInv, RecvTypeOK', [RecvNext]_<<recvVars, stateVars>>
  PROVE  WindowInv'
<1>1. RecvTypeOK /\ CacheInv(window, WindowSize)
  BY DEF WindowInv
<1>2. CacheInv(window, WindowSize)'
  BY <1>1, StepWindow
<1>3. conf' = conf
  BY Zenon
     DEF RecvNext, CreateReceiver, ReceiverStep, CaptureStep, ReceiverFails, CoolDown, SendersComplete,
         RecvFinished, OpenCapture, AnnounceReady, CountRow, LeaveLoop, FinalStats, CloseCapture,
         CompleteRecv, Receive, DropPacket, RejectPacket, AcceptPacket, OpenCaptureFails,
         CaptureFails, recvVars
<1>4. ASSUME Dedups("WINDOW") PROVE HistoryInv'
  <2>1. HistoryInv
    BY <1>4 DEF WindowInv
  <2>2. CASE CaptureStep
    <3>1. PICK p \in Responses : Receive(p)
      BY <2>2 DEF CaptureStep
    <3>2. CASE DropPacket(p) \/ RejectPacket(p)
      BY <1>1, <2>1, <3>2, DropHistory
    <3>3. ASSUME NEW padding \in Paddings, NEW word \in StackWords, AcceptPacket(p, padding, word)
          PROVE  HistoryInv'
      BY <1>1, <1>4, <2>1, <3>3, AcceptHistory
    <3> QED BY <3>1, <3>2, <3>3 DEF Receive
  <2>3. CASE CountRow
    BY <1>1, <2>1, <2>3, CountHistory
  <2>4. CASE OpenCapture \/ AnnounceReady \/ LeaveLoop \/ FinalStats \/ CloseCapture \/ CompleteRecv
    BY <2>1, <2>4, SameHistory
       DEF OpenCapture, AnnounceReady, LeaveLoop, FinalStats, CloseCapture, CompleteRecv
  <2>5. CASE CreateReceiver \/ CoolDown
    BY <2>1, <2>5, SameHistory DEF CreateReceiver, CoolDown
  <2>6. CASE ReceiverFails \/ SendersComplete \/ RecvFinished \/ UNCHANGED <<recvVars, stateVars>>
    BY <2>1, <2>6, SameHistory
       DEF ReceiverFails, OpenCaptureFails, CaptureFails, SendersComplete, RecvFinished, recvVars
  <2> QED BY <2>2, <2>3, <2>4, <2>5, <2>6 DEF RecvNext, ReceiverStep
<1>5. Dedups("WINDOW")' => Dedups("WINDOW")
  BY <1>3 DEF Dedups
<1> QED BY <1>2, <1>4, <1>5 DEF WindowInv

(* It holds before any packet is captured. *)
LEMMA InitHistory == StateInit /\ RecvInit => WindowInv
<1> SUFFICES ASSUME StateInit, RecvInit PROVE WindowInv
  OBVIOUS
<1>1. RecvTypeOK /\ CacheInv(window, WindowSize)
  BY InitDedup, InitWindow DEF DedupInv
<1>2. captured = << >> /\ rows = << >> /\ rpc = "none"
  BY DEF RecvInit
<1>3. Len(captured) = 0 /\ DOMAIN rows = {} /\ 1 .. 0 = {}
  BY <1>2
<1>4. HistoryInv
  BY <1>2, <1>3 DEF HistoryInv, Remembered
<1> QED BY <1>1, <1>4 DEF WindowInv

(* The invariant of window deduplication, the well-formed list of          *)
(* cachehash.c and the history of the packets, holds throughout            *)
(* handle_packet's calls, if the padding of the key does not vary; the     *)
(* history is only kept over IPv4, where the window is used.               *)
THEOREM RecvWindowInvariant ==
  ASSUME OnePadding
  PROVE  RecvSpec => []WindowInv
<1>1. RecvAloneInit => WindowInv
  BY InitHistory DEF RecvAloneInit
<1>2. DedupInv' => RecvTypeOK'
  BY DEF DedupInv
<1>3. WindowInv /\ DedupInv' /\ [RecvNext]_<<recvVars, stateVars>> => WindowInv'
  BY <1>2, StepHistory
<1> QED BY <1>1, <1>3, RecvDedupInvariant, PTL DEF RecvSpec

(* Window deduplication over IPv4 (recv.c:126-131): when a target is       *)
(* output and not marked as a repeat, at least WindowSize other targets    *)
(* have responded since its last response; if the padding of the key does  *)
(* not vary.                                                               *)
THEOREM RecvWindowDedup ==
  ASSUME OnePadding
  PROVE  RecvSpec => []WindowDedup
<1>1. WindowInv => WindowDedup
  <2> SUFFICES ASSUME WindowInv, Dedups("WINDOW"), NEW j \in DOMAIN rows,
                      NEW k \in 1 .. rows[j].nth - 1,
                      ~ rows[j].repeat, captured[k].valid, Key(captured[k]) = Key(rows[j])
               PROVE  Cardinality({Key(captured[i]) :
                                     i \in {i \in k + 1 .. rows[j].nth - 1 : captured[i].valid}}
                                    \ {Key(rows[j])}) >= WindowSize
    BY Zenon DEF WindowDedup
  <2>1. WindowRow(captured, rows[j])
    BY DEF WindowInv, HistoryInv
  <2>2. ManySince(captured, k, rows[j].nth - 1)
    BY <2>1 DEF WindowRow
  <2> QED BY <2>2 DEF ManySince, Since
<1> QED BY <1>1, RecvWindowInvariant, PTL
=============================================================================
