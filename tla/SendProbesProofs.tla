-------------------------- MODULE SendProbesProofs --------------------------
(***************************************************************************)
(* Proofs about which probes the sender threads send: none twice and, if   *)
(* the network refuses none, all of them but those of the first target.    *)
(* They hold for any number of threads, targets, streams and retries, any  *)
(* size of the batch, with and without a list of addresses.                *)
(***************************************************************************)
EXTENDS SendProofs

(* The sequences of a thread's record. *)
LEMMA ThreadSeqs ==
  ASSUME NEW r \in Thread
  PROVE  /\ r.wire \in Seq(Packets) /\ r.batch \in Seq(Packets)
         /\ Len(r.wire) \in Nat /\ Len(r.batch) \in Nat
         /\ DOMAIN r.wire = 1 .. Len(r.wire) /\ DOMAIN r.batch = 1 .. Len(r.batch)
         /\ r.vec \in Nat /\ r.pos \in Nat \ {0} /\ r.stream \in Nat /\ r.pc \in SPC
<1>1. r.wire \in Seq(Packets) /\ r.batch \in Seq(Packets)
  BY DEF Thread
<1>2. r.vec \in Nat /\ r.pos \in Nat \ {0} /\ r.stream \in Nat /\ r.pc \in SPC
  BY DEF Thread
<1> QED BY <1>1, <1>2, LenProperties

(* A step that moves the thread and touches neither the batch nor what was *)
(* sent keeps the order and the cover of the probes, if it makes no probe  *)
(* and passes over none that is due.                                       *)
LEMMA MoveProbes ==
  ASSUME NEW t \in Senders, NEW r \in Thread, NEW q \in Thread,
         OrderInv(t, r), CoverInv(t, r),
         q.wire = r.wire, q.batch = r.batch, q.vec = r.vec,
         q.packets_failed = r.packets_failed, q.packets_sent = r.packets_sent,
         r.pc \in Ended => q.pc \in Ended,
         \A p \in 1 .. Len(Walk[t]), s \in 0 .. PacketStreams - 1 : Made(r, p, s) => Made(q, p, s),
         \A p \in 2 .. Len(Walk[t]), s \in 0 .. PacketStreams - 1 :
           Due(t, p) /\ Made(q, p, s) => Made(r, p, s)
  PROVE  OrderInv(t, q) /\ CoverInv(t, q)
<1>1. \A x : IsMade(t, r, x) => IsMade(t, q, x)
  BY DEF IsMade
<1>2. OrderInv(t, q)
  BY <1>1 DEF OrderInv
<1>3. CoverInv(t, q)
  BY DEF CoverInv, Whole
<1> QED BY <1>2, <1>3

(* A target is known by its address and its port.                          *)
LEMMA SamePair ==
  ASSUME NEW a \in Ips \X Ips, NEW b \in Ips \X Ips, a[1] = b[1], a[2] = b[2]
  PROVE  a = b
OBVIOUS

(* A probe that was not made yet is appended to the batch. *)
LEMMA AppendProbes ==
  ASSUME NEW t \in Senders, NEW r \in Thread, NEW q \in Thread, DistinctTargets,
         OrderInv(t, r), CoverInv(t, r),
         r.pos \in 1 .. Len(Walk[t]), r.stream < PacketStreams, r.vec = 0,
         q.wire = r.wire, q.batch = Append(r.batch, Probe(t, r.pos, r.stream)), q.vec = r.vec,
         q.packets_failed = r.packets_failed, r.pc = "probe",
         q.pos = r.pos, Streams(q) = r.stream + 1
  PROVE  OrderInv(t, q) /\ CoverInv(t, q)
<1> DEFINE x == Probe(t, r.pos, r.stream)
           L == 1 .. Len(Walk[t])
           S == 0 .. PacketStreams - 1
<1>1. /\ r.wire \in Seq(Packets) /\ r.batch \in Seq(Packets) /\ r.pos \in Nat /\ r.stream \in Nat
      /\ Len(r.wire) \in Nat /\ Len(r.batch) \in Nat
      /\ DOMAIN r.wire = 1 .. Len(r.wire) /\ DOMAIN r.batch = 1 .. Len(r.batch)
  BY ThreadSeqs
<1>w. Walk[t] \in Seq(Ips \X Ips) /\ Len(Walk[t]) \in Nat /\ DOMAIN Walk[t] = L
  BY SendAssumption, LenProperties
<1>2. Streams(r) = r.stream
  BY DEF Streams
<1>3. \A p \in L, s \in S : Made(q, p, s) <=> Made(r, p, s) \/ (p = r.pos /\ s = r.stream)
  BY <1>1, <1>2, SendConstants, SMTT(30) DEF Made
<1>4. ASSUME NEW p \in L, NEW s \in S, x = Probe(t, p, s) PROVE p = r.pos /\ s = r.stream
  <2>1. Probed(t, p)[1] = Probed(t, r.pos)[1] /\ Probed(t, p)[2] = Probed(t, r.pos)[2] /\ s = r.stream
    BY <1>4 DEF Probe
  <2>2. \A k \in L : Walk[t][k] \in Ips \X Ips
    BY <1>w, ElementOfSeq
  <2>3. CASE p = 1 \/ r.pos = 1
    BY <2>1, <2>2, <2>3, SMTT(30) DEF Probed, Ips
  <2>4. CASE p # 1 /\ r.pos # 1
    <3>1. Walk[t][p][1] = Walk[t][r.pos][1] /\ Walk[t][p][2] = Walk[t][r.pos][2]
      BY <2>1, <2>4 DEF Probed
    <3>a. Walk[t][p] \in Ips \X Ips /\ Walk[t][r.pos] \in Ips \X Ips
      BY <2>2
    <3>2. Walk[t][p] = Walk[t][r.pos]
      BY <3>1, <3>a, SamePair, Zenon
    <3> QED BY <2>1, <3>2, SMTT(30) DEF DistinctTargets
  <2> QED BY <2>3, <2>4
<1>5. ~ IsMade(t, r, x)
  BY <1>1, <1>2, <1>4 DEF IsMade, Made
<1>6. \A y : IsMade(t, r, y) => IsMade(t, q, y)
  BY <1>3 DEF IsMade
<1>7. IsMade(t, q, x)
  <2>1. r.stream \in S
    BY <1>1, SendConstants
  <2> QED BY <1>3, <2>1 DEF IsMade
<1>8. /\ q.batch \in Seq(Packets) /\ Len(q.batch) = Len(r.batch) + 1
      /\ \A i \in 1 .. Len(r.batch) : q.batch[i] = r.batch[i]
      /\ q.batch[Len(r.batch) + 1] = x
      /\ DOMAIN q.batch = 1 .. Len(r.batch) + 1
  <2>1. q.batch \in Seq(Packets)
    BY ThreadSeqs
  <2>2. x \in Packets
    <3>1. Probed(t, r.pos)[1] \in Nat /\ Probed(t, r.pos)[2] \in Nat
      BY <1>w, ElementOfSeq, SMTT(30) DEF Probed, Ips
    <3> QED BY <1>1, <3>1 DEF Probe, Packets
  <2> HIDE DEF x
  <2>3. /\ Len(q.batch) = Len(r.batch) + 1 /\ \A i \in 1 .. Len(r.batch) : q.batch[i] = r.batch[i]
        /\ q.batch[Len(r.batch) + 1] = x
    BY <1>1, <2>2, AppendProperties DEF x
  <2> QED BY <2>1, <2>3, LenProperties
<1>9. OrderInv(t, q)
  <2> HIDE DEF x
  <2>1. \A i \in DOMAIN q.batch : i \in DOMAIN r.batch \/ i = Len(r.batch) + 1
    BY <1>1, <1>8, SMTT(30)
  <2>2. /\ \A i \in DOMAIN q.wire : IsMade(t, q, q.wire[i])
        /\ \A i \in DOMAIN q.batch : IsMade(t, q, q.batch[i])
    BY <1>1, <1>6, <1>7, <1>8, <2>1 DEF OrderInv
  <2>3. \A i \in DOMAIN r.batch : r.batch[i] # x
    BY <1>5 DEF OrderInv
  <2>4. \A i, j \in DOMAIN q.batch : q.batch[i] = q.batch[j] => i = j
    BY <1>1, <1>8, <2>1, <2>3 DEF OrderInv
  <2>5. \A i \in DOMAIN q.wire, j \in DOMAIN q.batch : j > q.vec => q.wire[i] # q.batch[j]
    BY <1>1, <1>5, <1>8, <2>1, SMTT(30) DEF OrderInv
  <2> QED BY <2>2, <2>4, <2>5 DEF OrderInv
<1>10. CoverInv(t, q)
  <2> SUFFICES ASSUME Whole(q), NEW p \in 2 .. Len(Walk[t]), NEW s \in S, Due(t, p), Made(q, p, s)
               PROVE  \/ \E i \in DOMAIN q.wire : q.wire[i] = Probe(t, p, s)
                      \/ \E j \in DOMAIN q.batch : j > q.vec /\ q.batch[j] = Probe(t, p, s)
    BY SMTT(30) DEF CoverInv
  <2>1. CASE p = r.pos /\ s = r.stream
    <3>1. Len(r.batch) + 1 \in DOMAIN q.batch /\ Len(r.batch) + 1 > q.vec
      BY <1>1, <1>8, SMTT(30)
    <3> QED BY <1>8, <2>1, <3>1, SMTT(30)
  <2>2. CASE Made(r, p, s)
    <3>1. Whole(r)
      BY DEF Whole, Ended
    <3>2. \/ \E i \in DOMAIN r.wire : r.wire[i] = Probe(t, p, s)
          \/ \E j \in DOMAIN r.batch : j > r.vec /\ r.batch[j] = Probe(t, p, s)
      BY <2>2, <3>1 DEF CoverInv
    <3>3. \A j \in DOMAIN r.batch : j \in DOMAIN q.batch /\ q.batch[j] = r.batch[j]
      BY <1>1, <1>8
    <3> QED BY <3>2, <3>3
  <2> QED BY <1>3, <1>w, <2>1, <2>2, SMTT(30)
<1> QED BY <1>9, <1>10

(* What w \o SubSeq(b, v + 1, v + n) holds: w, then the part of b. *)
LEMMA HandedSeq ==
  ASSUME NEW S, NEW w \in Seq(S), NEW b \in Seq(S), NEW v \in Nat, NEW n \in Nat, v + n <= Len(b),
         NEW x, x = w \o SubSeq(b, v + 1, v + n)
  PROVE  /\ DOMAIN x = 1 .. Len(w) + n
         /\ \A i \in 1 .. Len(w) : x[i] = w[i]
         /\ \A k \in 1 .. n : x[Len(w) + k] = b[v + k]
<1> DEFINE u == SubSeq(b, v + 1, v + n)
<1>1. Len(w) \in Nat /\ Len(b) \in Nat
  BY LenProperties
<1>2. u \in Seq(S) /\ Len(u) = n /\ \A i \in 1 .. n : u[i] = b[v + i]
  <2>1. \A i \in v + 1 .. v + n : b[i] \in S
    BY <1>1, ElementOfSeq
  <2>2. v + 1 \in Int /\ v + n \in Int
    OBVIOUS
  <2>3. /\ u \in Seq(S)
        /\ Len(u) = IF v + 1 <= v + n THEN (v + n) - (v + 1) + 1 ELSE 0
        /\ \A i \in 1 .. (v + n) - (v + 1) + 1 : u[i] = b[(v + 1) + i - 1]
    BY <2>1, <2>2, SubSeqProperties
  <2> HIDE DEF u
  <2>4. (v + n) - (v + 1) + 1 = n /\ (v + 1 <= v + n <=> n # 0) /\ \A i \in 1 .. n : (v + 1) + i - 1 = v + i
    OBVIOUS
  <2> QED BY <2>3, <2>4
<1> HIDE DEF u
<1>3. x = w \o u
  BY DEF u
<1>4. /\ w \o u \in Seq(S) /\ Len(w \o u) = Len(w) + Len(u)
      /\ \A i \in 1 .. Len(w) + Len(u) : (w \o u)[i] = IF i <= Len(w) THEN w[i] ELSE u[i - Len(w)]
  BY <1>2, ConcatProperties, ZenonT(30)
<1>5. DOMAIN x = 1 .. Len(w) + n
  BY <1>2, <1>3, <1>4, LenProperties
<1> HIDE DEF u
<1>6. \A i \in 1 .. Len(w) + n : x[i] = IF i <= Len(w) THEN w[i] ELSE u[i - Len(w)]
  BY <1>2, <1>3, <1>4
<1>7. ASSUME NEW i \in 1 .. Len(w) PROVE x[i] = w[i]
  <2>1. i \in 1 .. Len(w) + n /\ i <= Len(w)
    BY <1>1
  <2> QED BY <1>6, <2>1
<1>8. ASSUME NEW k \in 1 .. n PROVE x[Len(w) + k] = b[v + k]
  <2>1. Len(w) + k \in 1 .. Len(w) + n /\ ~ (Len(w) + k <= Len(w)) /\ (Len(w) + k) - Len(w) = k
    BY <1>1
  <2>2. x[Len(w) + k] = u[(Len(w) + k) - Len(w)]
    BY <1>6, <2>1, Zenon
  <2> QED BY <1>2, <2>1, <2>2
<1> QED BY <1>5, <1>7, <1>8

(* The network takes n packets of the batch from vec on; the batch then    *)
(* stays, with vec moved, or is emptied, when nothing of it is lost or the *)
(* loss shows in the counts.                                               *)
LEMMA HandedProbes ==
  ASSUME NEW t \in Senders, NEW r \in Thread, NEW q \in Thread, NEW n \in Nat,
         OrderInv(t, r), CoverInv(t, r),
         r.vec + n <= Len(r.batch),
         q.wire = r.wire \o SubSeq(r.batch, r.vec + 1, r.vec + n),
         \/ q.batch = r.batch /\ q.vec = r.vec + n
         \/ q.batch = <<>> /\ q.vec = 0 /\ (Whole(q) => r.vec + n = Len(r.batch)),
         Whole(q) => Whole(r),
         \A p \in 1 .. Len(Walk[t]), s \in 0 .. PacketStreams - 1 : Made(r, p, s) <=> Made(q, p, s)
  PROVE  OrderInv(t, q) /\ CoverInv(t, q)
<1> DEFINE w == r.wire
           b == r.batch
           v == r.vec
           x == q.wire
           c == q.batch
<1>1. /\ w \in Seq(Packets) /\ b \in Seq(Packets) /\ Len(w) \in Nat /\ Len(b) \in Nat /\ v \in Nat
      /\ DOMAIN w = 1 .. Len(w) /\ DOMAIN b = 1 .. Len(b)
  BY ThreadSeqs
<1>2. v + n <= Len(b) /\ x = w \o SubSeq(b, v + 1, v + n)
  OBVIOUS
<1>3. /\ \/ c = b /\ q.vec = v + n
         \/ c = << >> /\ (Whole(q) => v + n = Len(b))
  OBVIOUS
<1>4. /\ \A i \in DOMAIN w : IsMade(t, r, w[i])
      /\ \A i \in DOMAIN b : IsMade(t, r, b[i])
      /\ \A i, j \in DOMAIN w : w[i] = w[j] => i = j
      /\ \A i, j \in DOMAIN b : b[i] = b[j] => i = j
      /\ \A i \in DOMAIN w, j \in DOMAIN b : j > v => w[i] # b[j]
  BY DEF OrderInv
<1>5. \A y : IsMade(t, r, y) => IsMade(t, q, y)
  BY DEF IsMade
<1> HIDE DEF w, b, v, x, c
<1>6. /\ DOMAIN x = 1 .. Len(w) + n
      /\ \A i \in 1 .. Len(w) : x[i] = w[i]
      /\ \A k \in 1 .. n : x[Len(w) + k] = b[v + k]
  BY <1>1, <1>2, HandedSeq, SMTT(30)
<1>7. \A k \in 1 .. n : v + k \in DOMAIN b /\ v + k > v
  BY <1>1, <1>2
<1>8. ASSUME NEW i \in DOMAIN x
      PROVE  \/ i \in DOMAIN w /\ x[i] = w[i]
             \/ \E k \in 1 .. n : i = Len(w) + k /\ x[i] = b[v + k]
  <2>1. i \in 1 .. Len(w) \/ (i - Len(w) \in 1 .. n /\ i = Len(w) + (i - Len(w)))
    BY <1>1, <1>6, SMTT(30)
  <2> QED BY <1>1, <1>6, <2>1, Zenon
<1>9. /\ \A i \in DOMAIN x : IsMade(t, q, x[i])
      /\ \A i, j \in DOMAIN x : x[i] = x[j] => i = j
  <2>1. \A i \in DOMAIN x : IsMade(t, q, x[i])
    BY <1>4, <1>5, <1>7, <1>8, Zenon
  <2>2. ASSUME NEW i \in DOMAIN x, NEW j \in DOMAIN x, x[i] = x[j] PROVE i = j
    <3>1. CASE i \in DOMAIN w /\ x[i] = w[i] /\ j \in DOMAIN w /\ x[j] = w[j]
      BY <1>4, <2>2, <3>1, Zenon
    <3>2. ASSUME NEW k \in 1 .. n, NEW l \in 1 .. n, i = Len(w) + k, j = Len(w) + l,
                 x[i] = b[v + k], x[j] = b[v + l]
          PROVE  i = j
      <4>1. v + k = v + l
        BY <1>4, <1>7, <2>2, <3>2
      <4>2. k = l
        BY <1>1, <4>1
      <4> QED BY <3>2, <4>2
    <3> QED BY <1>4, <1>7, <1>8, <2>2, <3>1, <3>2
  <2> QED BY <2>1, <2>2
<1>10. /\ \A j \in DOMAIN c : IsMade(t, q, c[j])
       /\ \A i, j \in DOMAIN c : c[i] = c[j] => i = j
       /\ \A i \in DOMAIN x, j \in DOMAIN c : j > q.vec => x[i] # c[j]
  <2>1. CASE c = << >>
    <3>1. DOMAIN c = {}
      BY <2>1
    <3> QED BY <3>1
  <2>2. CASE c = b /\ q.vec = v + n
    <3>1. ASSUME NEW i \in DOMAIN x, NEW j \in DOMAIN b, j > v + n PROVE x[i] # b[j]
      <4>1. j > v /\ \A k \in 1 .. n : v + k # j
        BY <1>1, <3>1, SMTT(30)
      <4> QED BY <1>4, <1>7, <1>8, <4>1, SMTT(30)
    <3> QED BY <1>4, <1>5, <2>2, <3>1
  <2> QED BY <1>3, <2>1, <2>2
<1>11. OrderInv(t, q)
  BY <1>9, <1>10, Zenon DEF OrderInv, x, c
<1>12. CoverInv(t, q)
  <2> SUFFICES ASSUME Whole(q), NEW p \in 2 .. Len(Walk[t]), NEW s \in 0 .. PacketStreams - 1,
                      Due(t, p), Made(q, p, s)
               PROVE  \/ \E i \in DOMAIN x : x[i] = Probe(t, p, s)
                      \/ \E j \in DOMAIN c : j > q.vec /\ c[j] = Probe(t, p, s)
    BY Zenon DEF CoverInv, x, c
  <2>0. p \in 1 .. Len(Walk[t])
    BY SendAssumption, LenProperties
  <2>1. \/ \E i \in DOMAIN w : w[i] = Probe(t, p, s)
        \/ \E j \in DOMAIN b : j > v /\ b[j] = Probe(t, p, s)
    BY <2>0, Zenon DEF CoverInv, w, b, v
  <2>2. \A i \in DOMAIN w : i \in DOMAIN x /\ x[i] = w[i]
    BY <1>1, <1>6
  <2>3. ASSUME NEW j \in DOMAIN b, j > v, j <= v + n PROVE \E i \in DOMAIN x : x[i] = b[j]
    <3>0. j \in Nat /\ v \in Nat /\ Len(w) \in Nat
      BY <1>1
    <3>1. j - v \in 1 .. n /\ v + (j - v) = j
      BY <2>3, <3>0, SMTT(30)
    <3>2. \A m \in Nat, k \in 1 .. n : m + k \in 1 .. m + n
      OBVIOUS
    <3>3. Len(w) + (j - v) \in DOMAIN x
      BY <1>6, <3>0, <3>1, <3>2, Zenon
    <3> QED BY <1>6, <3>1, <3>3
  <2>4. ASSUME NEW j \in DOMAIN b, ~ (j <= v + n) PROVE c = b /\ j > q.vec
    <3>0. j \in Nat /\ v + n \in Nat /\ j <= Len(b)
      BY <1>1
    <3>1. v + n # Len(b) /\ j > v + n
      BY <2>4, <3>0
    <3> QED BY <1>3, <3>1
  <2> QED BY <2>1, <2>2, <2>3, <2>4, SMTT(30)
<1> QED BY <1>11, <1>12

(* A step that leaves the position and the streams made. *)
LEMMA StillProbes ==
  ASSUME NEW t \in Senders, NEW r \in Thread, NEW q \in Thread,
         OrderInv(t, r), CoverInv(t, r), SameBatch(q, r),
         r.pc \in Ended => q.pc \in Ended,
         q.pos = r.pos, Streams(q) = Streams(r)
  PROVE  OrderInv(t, q) /\ CoverInv(t, q)
<1>1. \A p, s : Made(q, p, s) <=> Made(r, p, s)
  BY DEF Made
<1> QED BY <1>1, MoveProbes DEF SameBatch

(* The thread starts, and completes: pc moves and nothing else.            *)
LEMMA PlaceProbes ==
  ASSUME NEW t \in Senders, th \in [Senders -> Thread], th'[t] \in Thread,
         AtTarget(t, th[t]), OrderInv(t, th[t]), CoverInv(t, th[t]),
         \/ Create(t) \/ ThreadInit(t) \/ FirstTarget(t)
         \/ ShardCompleteLocks(t) \/ ShardCompleteUnlocks(t)
  PROVE  AtTarget(t, th'[t]) /\ OrderInv(t, th'[t]) /\ CoverInv(t, th'[t])
<1> DEFINE r == th[t]
           q == th'[t]
<1>1. r \in Thread /\ q \in Thread
  OBVIOUS
<1>2. PICK pc \in SPC : /\ q = [r EXCEPT !.pc = pc]
                        /\ \/ r.pc \in {"none", "init", "first"} /\ pc \in {"init", "first", "search", "check"}
                           \/ r.pc \in Ended /\ pc \in {"totals", "done"}
                        /\ pc = "search" => UseList
  BY DEF Create, ThreadInit, FirstTarget, ShardCompleteLocks, ShardCompleteUnlocks, Becomes, SPC, Ended
<1>3. /\ q.pc = pc /\ q.pos = r.pos /\ q.ip = r.ip /\ q.port = r.port /\ SameBatch(q, r)
  BY <1>1, <1>2 DEF Thread, SameBatch
<1> HIDE DEF q, r
<1>4. Streams(q) = 0 /\ Streams(r) = 0 /\ (r.pc \in Ended => q.pc \in Ended)
  BY <1>2, <1>3 DEF Streams, Ended
<1>5. OrderInv(t, r) /\ CoverInv(t, r) /\ AtTarget(t, r)
  BY DEF r
<1>6. OrderInv(t, q) /\ CoverInv(t, q)
  BY <1>1, <1>3, <1>4, <1>5, StillProbes
<1>7. AtTarget(t, q)
  BY <1>2, <1>3, <1>5 DEF AtTarget, Ended
<1> QED BY <1>6, <1>7 DEF q

(* The checks at the head of the loop let through a position of the walk.  *)
LEMMA CheckProbes ==
  ASSUME NEW t \in Senders, th \in [Senders -> Thread], th'[t] \in Thread,
         AtTarget(t, th[t]), OrderInv(t, th[t]), CoverInv(t, th[t]), Check(t)
  PROVE  AtTarget(t, th'[t]) /\ OrderInv(t, th'[t]) /\ CoverInv(t, th'[t])
<1> DEFINE r == th[t]
           q == th'[t]
<1>1. r \in Thread /\ q \in Thread /\ r.pc = "check"
  BY DEF Check
<1>2. PICK pc \in {"flush", "probe"} : /\ q = [r EXCEPT !.pc = pc, !.stream = 0]
                                       /\ pc = "probe" => ~ Depleted(t, r.pos)
  BY Zenon DEF Check, Becomes, MustStop
<1>3. /\ q.pc = pc /\ q.pos = r.pos /\ q.ip = r.ip /\ q.port = r.port /\ q.stream = 0 /\ SameBatch(q, r)
  BY <1>1, <1>2 DEF Thread, SameBatch
<1> HIDE DEF q, r
<1>4. Streams(q) = 0 /\ Streams(r) = 0 /\ r.pc \notin Ended
  BY <1>1, <1>2, <1>3 DEF Streams, Ended
<1>5. OrderInv(t, r) /\ CoverInv(t, r) /\ AtTarget(t, r)
  BY DEF r
<1>6. OrderInv(t, q) /\ CoverInv(t, q)
  BY <1>1, <1>3, <1>4, <1>5, StillProbes
<1>7. AtTarget(t, q)
  BY <1>1, <1>2, <1>3, <1>5, SendConstants DEF AtTarget, Ended
<1> QED BY <1>6, <1>7 DEF q

(* Going on to the next position passes over no probe that is due.         *)
LEMMA PassProbes ==
  ASSUME NEW t \in Senders, NEW r \in Thread, NEW q \in Thread,
         AtTarget(t, r), OrderInv(t, r), CoverInv(t, r), SameBatch(q, r),
         q.pos = r.pos + 1, r.pc \in {"search", "next", "skip"}, r.pc # "next" => ~ Listed(r.ip),
         q.pc \in {"search", "skip", "check", "flush"}
  PROVE  OrderInv(t, q) /\ CoverInv(t, q)
<1>0. r.pos \in Nat \ {0} /\ Len(Walk[t]) \in Nat
  BY ThreadSeqs, SendAssumption, LenProperties
<1>1. Streams(q) = 0 /\ (r.pc = "next" => Streams(r) = PacketStreams) /\ (r.pc # "next" => Streams(r) = 0)
  BY DEF Streams
<1>2. \A p \in 1 .. Len(Walk[t]), s \in 0 .. PacketStreams - 1 : Made(r, p, s) => Made(q, p, s)
  BY <1>0 DEF Made
<1>3. ASSUME NEW p \in 2 .. Len(Walk[t]), NEW s \in 0 .. PacketStreams - 1, Due(t, p), Made(q, p, s)
      PROVE  Made(r, p, s)
  <2>1. p < r.pos \/ p = r.pos
    BY <1>0, <1>1, <1>3 DEF Made
  <2>2. CASE p = r.pos /\ r.pc = "next"
    BY <1>1, <2>2, SendConstants DEF Made
  <2>3. CASE p = r.pos /\ r.pc # "next"
    <3>1. ~ Depleted(t, r.pos) /\ r.pos # 1
      BY <1>0, <2>3 DEF Depleted
    <3>2. r.ip = Walk[t][p][1] /\ UseList
      BY <2>3, <3>1 DEF AtTarget, Probed, Ended
    <3> QED BY <1>3, <2>3, <3>2 DEF Due
  <2> QED BY <2>1, <2>2, <2>3 DEF Made
<1>4. r.pc \notin Ended
  BY DEF Ended
<1> QED BY <1>2, <1>3, <1>4, MoveProbes DEF SameBatch

(* The search of the list, before and in the loop, and the next target.    *)
LEMMA TargetProbes ==
  ASSUME NEW t \in Senders, th \in [Senders -> Thread], th'[t] \in Thread, OnePort,
         AtTarget(t, th[t]), OrderInv(t, th[t]), CoverInv(t, th[t]),
         SearchList(t) \/ NextTarget(t) \/ SkipUnlisted(t)
  PROVE  AtTarget(t, th'[t]) /\ OrderInv(t, th'[t]) /\ CoverInv(t, th'[t])
<1> DEFINE r == th[t]
           q == th'[t]
           next == r.pos + 1
           ip == TargetAt(t, next)[1]
           port == TargetAt(t, next)[2]
<1>1. r \in Thread /\ q \in Thread /\ r.pc \in {"search", "next", "skip"} /\ r.pos \in Nat \ {0}
  BY ThreadSeqs DEF SearchList, NextTarget, SkipUnlisted
<1>2. \/ r.pc # "next" /\ q = [r EXCEPT !.pc = "check"]
      \/ /\ r.pc = "search" /\ ~ Listed(r.ip)
         /\ q = [r EXCEPT !.pc = IF Depleted(t, next) THEN "flush" ELSE "search", !.pos = next,
                          !.ip = ip, !.port = port]
      \/ /\ r.pc = "next"
         /\ q = [r EXCEPT !.pc = IF UseList /\ ~ Depleted(t, next) THEN "skip" ELSE "check",
                          !.pos = next, !.ip = ip, !.port = port]
      \/ /\ r.pc = "skip" /\ ~ Listed(r.ip)
         /\ q = [r EXCEPT !.pc = IF Depleted(t, next) THEN "flush" ELSE "skip", !.pos = next, !.ip = ip]
  <2>1. CASE SearchList(t)
    BY <2>1 DEF SearchList, Becomes
  <2>2. CASE NextTarget(t)
    BY <2>2 DEF NextTarget, Becomes
  <2>3. CASE SkipUnlisted(t)
    BY <2>3 DEF SkipUnlisted, Becomes
  <2> QED BY <2>1, <2>2, <2>3
<1>3. SameBatch(q, r)
  BY <1>1, <1>2, ZenonT(30) DEF Thread, SameBatch
<1>4. OrderInv(t, r) /\ CoverInv(t, r) /\ AtTarget(t, r)
  OBVIOUS
<1>5. ASSUME ~ Depleted(t, next)
      PROVE  ip = Probed(t, next)[1] /\ port = Probed(t, next)[2] /\ ~ Depleted(t, r.pos)
             /\ (r.pc = "skip" => r.port = Probed(t, next)[2])
  <2>1. next # 1 /\ Len(Walk[t]) \in Nat /\ next \in 1 .. Len(Walk[t]) /\ r.pos \in 1 .. Len(Walk[t])
    BY <1>1, <1>5, SendAssumption, LenProperties, SMTT(30) DEF Depleted
  <2>2. ip = Probed(t, next)[1] /\ port = Probed(t, next)[2] /\ ~ Depleted(t, r.pos)
    BY <1>1, <1>5, <2>1 DEF TargetAt, Probed, Depleted
  <2>3. ASSUME r.pc = "skip" PROVE r.port = Probed(t, next)[2]
    <3>1. UseList /\ r.pos # 1 /\ r.port = Probed(t, r.pos)[2]
      BY <1>4, <1>1, <2>2, <2>3 DEF AtTarget, Ended
    <3> QED BY <2>1, <3>1 DEF OnePort, Probed
  <2> QED BY <2>2, <2>3
<1> HIDE DEF q, r, ip, port
<1>6. CASE r.pc # "next" /\ q = [r EXCEPT !.pc = "check"]
  <2>1. q.pc = "check" /\ q.pos = r.pos /\ q.ip = r.ip /\ q.port = r.port
    BY <1>1, <1>6 DEF Thread
  <2>2. Streams(q) = 0 /\ Streams(r) = 0 /\ r.pc \notin Ended
    BY <1>1, <1>6, <2>1 DEF Streams, Ended
  <2>3. OrderInv(t, q) /\ CoverInv(t, q)
    BY <1>1, <1>3, <1>4, <2>1, <2>2, StillProbes
  <2>4. AtTarget(t, q)
    BY <1>1, <1>4, <2>1 DEF AtTarget, Ended
  <2> QED BY <2>3, <2>4 DEF q
<1>7. CASE /\ r.pc = "search" /\ ~ Listed(r.ip)
           /\ q = [r EXCEPT !.pc = IF Depleted(t, next) THEN "flush" ELSE "search", !.pos = next,
                            !.ip = ip, !.port = port]
  <2>1. q.pc = (IF Depleted(t, next) THEN "flush" ELSE "search") /\ q.pos = next
        /\ q.ip = ip /\ q.port = port
    BY <1>1, <1>7 DEF Thread
  <2>2. OrderInv(t, q) /\ CoverInv(t, q)
    BY <1>1, <1>3, <1>4, <1>7, <2>1, PassProbes, Zenon
  <2>3. AtTarget(t, q)
    BY <1>4, <1>5, <1>7, <2>1 DEF AtTarget, Ended
  <2> QED BY <2>2, <2>3 DEF q
<1>8. CASE /\ r.pc = "next"
           /\ q = [r EXCEPT !.pc = IF UseList /\ ~ Depleted(t, next) THEN "skip" ELSE "check",
                            !.pos = next, !.ip = ip, !.port = port]
  <2>1. q.pc = (IF UseList /\ ~ Depleted(t, next) THEN "skip" ELSE "check") /\ q.pos = next
        /\ q.ip = ip /\ q.port = port
    BY <1>1, <1>8 DEF Thread
  <2>2. OrderInv(t, q) /\ CoverInv(t, q)
    BY <1>1, <1>3, <1>4, <1>8, <2>1, PassProbes, Zenon
  <2>3. AtTarget(t, q)
    BY <1>1, <1>4, <1>5, <1>8, <2>1 DEF AtTarget, Ended
  <2> QED BY <2>2, <2>3 DEF q
<1>9. CASE /\ r.pc = "skip" /\ ~ Listed(r.ip)
           /\ q = [r EXCEPT !.pc = IF Depleted(t, next) THEN "flush" ELSE "skip", !.pos = next, !.ip = ip]
  <2>1. q.pc = (IF Depleted(t, next) THEN "flush" ELSE "skip") /\ q.pos = next
        /\ q.ip = ip /\ q.port = r.port
    BY <1>1, <1>9 DEF Thread
  <2>2. OrderInv(t, q) /\ CoverInv(t, q)
    BY <1>1, <1>3, <1>4, <1>9, <2>1, PassProbes, Zenon
  <2>3. AtTarget(t, q)
    BY <1>1, <1>4, <1>5, <1>9, <2>1 DEF AtTarget, Ended
  <2> QED BY <2>2, <2>3 DEF q
<1> QED BY <1>2, <1>6, <1>7, <1>8, <1>9

(* What Counted changes and what it leaves.                                *)
LEMMA CountedFields ==
  ASSUME NEW r \in Thread
  PROVE  /\ Counted(r).pc = (IF r.stream + 1 = PacketStreams THEN "next" ELSE "probe")
         /\ Counted(r).stream = r.stream + 1 /\ Counted(r).pos = r.pos
         /\ Counted(r).ip = r.ip /\ Counted(r).port = r.port
         /\ Counted(r).batch = r.batch /\ Counted(r).vec = r.vec /\ Counted(r).wire = r.wire
         /\ Counted(r).packets_failed = r.packets_failed
BY DEF Counted, Thread

(* A probe enters the batch.                                               *)
LEMMA MakeProbes ==
  ASSUME NEW t \in Senders, th \in [Senders -> Thread], th'[t] \in Thread, DistinctTargets,
         ThreadInv(t, th[t]),
         AtTarget(t, th[t]), OrderInv(t, th[t]), CoverInv(t, th[t]), MakeProbe(t)
  PROVE  AtTarget(t, th'[t]) /\ OrderInv(t, th'[t]) /\ CoverInv(t, th'[t])
<1> DEFINE r == th[t]
           q == th'[t]
           x == <<r.ip, r.port, r.stream>>
           f == [r EXCEPT !.batch = Append(r.batch, x)]
<1>1. /\ r \in Thread /\ q \in Thread /\ r.pc = "probe" /\ r.vec = 0
      /\ r.pos \in Nat \ {0} /\ r.stream \in Nat /\ r.batch \in Seq(Packets)
  BY ThreadSeqs DEF MakeProbe, ThreadInv
<1>2. q = [f EXCEPT !.pc = "send"] \/ q = Counted(f)
  BY DEF MakeProbe, Becomes
<1>3. f \in Thread
  <2>1. x \in Packets
    BY <1>1 DEF Thread, Packets
  <2>2. Append(r.batch, x) \in Seq(Packets)
    BY <1>1, <2>1, AppendProperties
  <2> QED BY <1>1, <2>2, Zenon DEF Thread
<1>4. OrderInv(t, r) /\ CoverInv(t, r) /\ AtTarget(t, r)
  OBVIOUS
<1>5. /\ f.pc = r.pc /\ f.pos = r.pos /\ f.ip = r.ip /\ f.port = r.port /\ f.stream = r.stream
      /\ f.batch = Append(r.batch, x) /\ f.vec = r.vec /\ f.wire = r.wire
      /\ f.packets_failed = r.packets_failed
  BY <1>1, Zenon DEF Thread
<1> HIDE DEF q, r, f, x
<1>6. /\ r.pos \in 1 .. Len(Walk[t]) /\ r.stream < PacketStreams /\ ~ Depleted(t, r.pos)
      /\ r.ip = Probed(t, r.pos)[1] /\ r.port = Probed(t, r.pos)[2]
  BY <1>1, <1>4, SendAssumption, LenProperties DEF AtTarget, Depleted, Ended
<1>7. x = Probe(t, r.pos, r.stream)
  BY <1>6 DEF x, Probe
<1>8. /\ q.batch = Append(r.batch, x) /\ q.vec = r.vec /\ q.wire = r.wire /\ q.pos = r.pos
      /\ q.packets_failed = r.packets_failed /\ q.ip = r.ip /\ q.port = r.port
      /\ \/ q.pc = "send" /\ q.stream = r.stream
         \/ q.pc = "next" /\ r.stream + 1 = PacketStreams
         \/ q.pc = "probe" /\ q.stream = r.stream + 1 /\ r.stream + 1 # PacketStreams
  <2>1. CASE q = [f EXCEPT !.pc = "send"]
    <3>1. /\ q.pc = "send" /\ q.stream = f.stream /\ q.batch = f.batch /\ q.vec = f.vec /\ q.wire = f.wire
          /\ q.pos = f.pos /\ q.packets_failed = f.packets_failed /\ q.ip = f.ip /\ q.port = f.port
      BY <1>3, <2>1 DEF Thread
    <3> QED BY <1>5, <3>1
  <2>2. CASE q = Counted(f)
    BY <1>3, <1>5, <2>2, CountedFields
  <2> QED BY <1>2, <2>1, <2>2
<1>9. Streams(q) = r.stream + 1
  BY <1>8 DEF Streams
<1>10. OrderInv(t, q) /\ CoverInv(t, q)
  BY <1>1, <1>4, <1>6, <1>7, <1>8, <1>9, AppendProbes, SMTT(30)
<1>11. AtTarget(t, q)
  BY <1>1, <1>6, <1>8, SendConstants, SMTT(30) DEF AtTarget, Ended
<1> QED BY <1>10, <1>11 DEF q

(* A sendmmsg call hands over packets of the batch.                        *)
LEMMA SendmmsgProbes ==
  ASSUME NEW t \in Senders, th \in [Senders -> Thread], th'[t] \in Thread,
         AtTarget(t, th[t]), OrderInv(t, th[t]), CoverInv(t, th[t]),
         NEW rv \in Nat, Sendmmsg(t, rv)
  PROVE  AtTarget(t, th'[t]) /\ OrderInv(t, th'[t]) /\ CoverInv(t, th'[t])
<1> DEFINE r == th[t]
           q == th'[t]
<1>1. /\ r \in Thread /\ q \in Thread /\ r.pc \in {"send", "flush"}
      /\ rv <= Len(r.batch) - r.vec
      /\ q = [r EXCEPT !.attempt = r.attempt + 1, !.vec = r.vec + rv, !.wire = r.wire \o Unsent(r, rv)]
  BY DEF Sendmmsg, Becomes
<1>2. OrderInv(t, r) /\ CoverInv(t, r) /\ AtTarget(t, r)
  OBVIOUS
<1> HIDE DEF q, r
<1>3. /\ q.pc = r.pc /\ q.pos = r.pos /\ q.ip = r.ip /\ q.port = r.port /\ q.stream = r.stream
      /\ q.batch = r.batch /\ q.vec = r.vec + rv /\ q.packets_failed = r.packets_failed
      /\ q.wire = r.wire \o Unsent(r, rv)
  BY <1>1, Zenon DEF Thread
<1>4. Len(r.batch) \in Nat /\ r.vec \in Nat
  BY <1>1, ThreadSeqs
<1>5. r.vec + rv <= Len(r.batch) /\ q.wire = r.wire \o SubSeq(r.batch, r.vec + 1, r.vec + rv)
  <2>1. \A b, v \in Nat : rv <= b - v => v + rv <= b
    OBVIOUS
  <2>2. r.vec + rv <= Len(r.batch)
    BY <1>1, <1>4, <2>1
  <2>3. q.wire = r.wire \o SubSeq(r.batch, r.vec + 1, r.vec + rv)
    BY <1>3 DEF Unsent
  <2> QED BY <2>2, <2>3
<1>6. Whole(q) => Whole(r)
  BY <1>1, <1>3 DEF Whole, Ended
<1>7. \A p, s : Made(r, p, s) <=> Made(q, p, s)
  BY <1>3 DEF Made, Streams
<1>8. OrderInv(t, q) /\ CoverInv(t, q)
  BY <1>1, <1>2, <1>3, <1>5, <1>6, <1>7, HandedProbes, ZenonT(30)
<1>9. AtTarget(t, q)
  BY <1>1, <1>2, <1>3 DEF AtTarget, Ended
<1> QED BY <1>8, <1>9 DEF q

(* What Emptied leaves, and what it hands over: in a dry run the batch,    *)
(* else nothing.                                                           *)
LEMMA EmptiedProbes ==
  ASSUME NEW t \in Senders, NEW r \in Thread, ThreadInv(t, r)
  PROVE  /\ Emptied(r).pos = r.pos /\ Emptied(r).stream = r.stream
         /\ Emptied(r).ip = r.ip /\ Emptied(r).port = r.port
         /\ \E n \in Nat :
              /\ r.vec + n <= Len(r.batch)
              /\ Emptied(r).wire = r.wire \o SubSeq(r.batch, r.vec + 1, r.vec + n)
              /\ FailedIn(r) = Len(r.batch) - (r.vec + n)
<1>1. /\ r.batch \in Seq(Packets) /\ r.wire \in Seq(Packets)
      /\ Len(r.batch) \in Nat /\ Len(r.wire) \in Nat /\ r.vec \in Nat
  BY ThreadSeqs
<1>2. r.vec <= Len(r.batch) /\ (Dryrun => r.vec = 0)
  BY DEF ThreadInv
<1>3. /\ Emptied(r).pos = r.pos /\ Emptied(r).stream = r.stream
      /\ Emptied(r).ip = r.ip /\ Emptied(r).port = r.port
      /\ Emptied(r).wire = IF Dryrun THEN r.wire \o r.batch ELSE r.wire
  BY DEF Emptied, Thread
<1>4. CASE Dryrun
  <2>1. SubSeq(r.batch, 0 + 1, 0 + Len(r.batch)) = r.batch
    <3>1. SubSeq(r.batch, 1, Len(r.batch)) = r.batch
      BY <1>1, SubSeqFull
    <3> QED BY <1>1, <3>1
  <2>2. FailedIn(r) = 0 /\ Len(r.batch) - (0 + Len(r.batch)) = 0 /\ 0 + Len(r.batch) <= Len(r.batch)
    BY <1>1, <1>4 DEF FailedIn
  <2> QED BY <1>1, <1>2, <1>3, <1>4, <2>1, <2>2, Zenon
<1>5. CASE ~ Dryrun
  <2>1. SubSeq(r.batch, r.vec + 1, r.vec + 0) = << >>
    <3>1. r.vec + 1 \in Int /\ r.vec + 0 \in Int /\ r.vec + 0 < r.vec + 1
      BY <1>1
    <3> QED BY <3>1, SubSeqEmpty
  <2>2. r.wire \o << >> = r.wire
    BY <1>1, ConcatEmptySeq
  <2>3. FailedIn(r) = Len(r.batch) - (r.vec + 0) /\ r.vec + 0 <= Len(r.batch)
    BY <1>1, <1>2, <1>5 DEF FailedIn
  <2> QED BY <1>3, <1>5, <2>1, <2>2, <2>3, Zenon
<1> QED BY <1>3, <1>4, <1>5, Zenon

(* send_batch returns to the loop.                                         *)
LEMMA ReturnProbes ==
  ASSUME NEW t \in Senders, th \in [Senders -> Thread], th'[t] \in Thread, ThreadInv(t, th[t]),
         AtTarget(t, th[t]), OrderInv(t, th[t]), CoverInv(t, th[t]), SendReturns(t)
  PROVE  AtTarget(t, th'[t]) /\ OrderInv(t, th'[t]) /\ CoverInv(t, th'[t])
<1> DEFINE r == th[t]
           q == th'[t]
           e == Emptied(r)
           f == [e EXCEPT !.packets_failed = e.packets_failed + FailedIn(r)]
<1>1. r \in Thread /\ q \in Thread /\ r.pc = "send" /\ ThreadInv(t, r) /\ q = Counted(f)
  BY DEF SendReturns, Becomes
<1>2. OrderInv(t, r) /\ CoverInv(t, r) /\ AtTarget(t, r)
  OBVIOUS
<1> HIDE DEF q, r
<1>3. /\ e \in Thread /\ e.batch = <<>> /\ e.vec = 0 /\ e.packets_failed = r.packets_failed
      /\ FailedIn(r) \in Nat /\ e.pos = r.pos /\ e.stream = r.stream /\ e.ip = r.ip /\ e.port = r.port
  BY <1>1, EmptiedBalance, EmptiedProbes
<1>4. PICK n \in Nat : /\ r.vec + n <= Len(r.batch)
                       /\ e.wire = r.wire \o SubSeq(r.batch, r.vec + 1, r.vec + n)
                       /\ FailedIn(r) = Len(r.batch) - (r.vec + n)
  BY <1>1, EmptiedProbes, Zenon
<1> HIDE DEF e
<1>5. r.packets_failed \in Nat /\ e.packets_failed + FailedIn(r) \in Nat
  <2>1. r.packets_failed \in Nat
    BY <1>1 DEF Thread
  <2> QED BY <1>3, <2>1
<1>6. /\ f \in Thread /\ f.batch = e.batch /\ f.vec = e.vec /\ f.pos = e.pos /\ f.stream = e.stream
      /\ f.ip = e.ip /\ f.port = e.port /\ f.wire = e.wire
      /\ f.packets_failed = e.packets_failed + FailedIn(r)
  BY <1>3, <1>5, Zenon DEF Thread
<1> HIDE DEF f
<1>7. /\ q.batch = <<>> /\ q.vec = 0 /\ q.pos = r.pos /\ q.ip = r.ip /\ q.port = r.port
      /\ q.wire = r.wire \o SubSeq(r.batch, r.vec + 1, r.vec + n)
      /\ q.packets_failed = r.packets_failed + FailedIn(r)
      /\ q.pc = (IF r.stream + 1 = PacketStreams THEN "next" ELSE "probe") /\ q.stream = r.stream + 1
  <2>1. /\ q.pc = (IF f.stream + 1 = PacketStreams THEN "next" ELSE "probe")
        /\ q.stream = f.stream + 1 /\ q.pos = f.pos /\ q.ip = f.ip /\ q.port = f.port
        /\ q.batch = f.batch /\ q.vec = f.vec /\ q.wire = f.wire
        /\ q.packets_failed = f.packets_failed
    BY <1>1, <1>6, CountedFields
  <2> QED BY <1>3, <1>4, <1>6, <2>1
<1>8. Whole(q) => Whole(r) /\ r.vec + n = Len(r.batch)
  <2> SUFFICES ASSUME Whole(q) PROVE Whole(r) /\ r.vec + n = Len(r.batch)
    OBVIOUS
  <2>1. r.packets_failed + FailedIn(r) = 0
    BY <1>7 DEF Whole
  <2>2. r.packets_failed = 0 /\ FailedIn(r) = 0
    BY <1>3, <1>5, <2>1
  <2>3. Len(r.batch) \in Nat /\ r.vec \in Nat
    BY <1>1, ThreadSeqs
  <2> QED BY <1>1, <1>4, <2>2, <2>3, SMTT(30) DEF Whole, Ended
<1>9. Streams(q) = Streams(r)
  BY <1>1, <1>7 DEF Streams
<1>10. \A p, s : Made(r, p, s) <=> Made(q, p, s)
  BY <1>7, <1>9 DEF Made
<1>11. OrderInv(t, q) /\ CoverInv(t, q)
  BY <1>1, <1>2, <1>4, <1>7, <1>8, <1>10, HandedProbes, Zenon
<1>12. AtTarget(t, q)
  <2>1. r.stream \in Nat
    BY <1>1, ThreadSeqs
  <2> QED BY <1>1, <1>2, <1>7, <2>1, SendConstants, SMTT(30) DEF AtTarget, Ended
<1> QED BY <1>11, <1>12 DEF q

(* Cleanup: a packet it loses shows as one that is counted and not sent.   *)
LEMMA FlushProbes ==
  ASSUME NEW t \in Senders, th \in [Senders -> Thread], th'[t] \in Thread, ThreadInv(t, th[t]),
         AtTarget(t, th[t]), OrderInv(t, th[t]), CoverInv(t, th[t]), FlushReturns(t)
  PROVE  AtTarget(t, th'[t]) /\ OrderInv(t, th'[t]) /\ CoverInv(t, th'[t])
<1> DEFINE r == th[t]
           q == th'[t]
           e == Emptied(r)
<1>1. r \in Thread /\ q \in Thread /\ r.pc = "flush" /\ ThreadInv(t, r) /\ q = [e EXCEPT !.pc = "callback"]
  BY DEF FlushReturns, Becomes
<1>2. OrderInv(t, r) /\ CoverInv(t, r) /\ AtTarget(t, r)
  OBVIOUS
<1> HIDE DEF q, r
<1>3. /\ e \in Thread /\ e.batch = <<>> /\ e.vec = 0 /\ e.packets_failed = r.packets_failed
      /\ e.packets_sent = r.packets_sent /\ FailedIn(r) \in Nat /\ e.pos = r.pos
      /\ Len(e.wire) + FailedIn(r) = Len(r.wire) + Len(r.batch) - r.vec
  BY <1>1, EmptiedBalance, EmptiedProbes
<1>4. PICK n \in Nat : /\ r.vec + n <= Len(r.batch)
                       /\ e.wire = r.wire \o SubSeq(r.batch, r.vec + 1, r.vec + n)
                       /\ FailedIn(r) = Len(r.batch) - (r.vec + n)
  BY <1>1, EmptiedProbes, Zenon
<1> HIDE DEF e
<1>5. /\ q.pc = "callback" /\ q.batch = <<>> /\ q.vec = 0 /\ q.pos = r.pos /\ q.wire = e.wire
      /\ q.packets_failed = r.packets_failed /\ q.packets_sent = r.packets_sent
  BY <1>1, <1>3 DEF Thread
<1>6. Whole(q) => Whole(r) /\ r.vec + n = Len(r.batch)
  <2> SUFFICES ASSUME Whole(q) PROVE Whole(r) /\ r.vec + n = Len(r.batch)
    OBVIOUS
  <2>1. r.packets_failed = 0 /\ Len(e.wire) = r.packets_sent
    BY <1>5 DEF Whole, Ended
  <2>2. r.packets_sent + 0 = Len(r.wire) + r.packets_failed + Len(r.batch) - r.vec
    BY <1>1 DEF ThreadInv, Ended, Uncounted
  <2>3. Len(r.batch) \in Nat /\ r.vec \in Nat /\ Len(r.wire) \in Nat /\ Len(e.wire) \in Nat
    BY <1>1, <1>3, ThreadSeqs
  <2>4. FailedIn(r) = 0
    <3> DEFINE a == Len(e.wire)
               b == Len(r.wire)
               c == Len(r.batch)
               d == r.vec
               f == FailedIn(r)
               g == r.packets_sent
    <3>1. a \in Nat /\ b \in Nat /\ c \in Nat /\ d \in Nat /\ f \in Nat
      BY <1>3, <2>3
    <3>2. a + f = b + c - d /\ a = g /\ g + 0 = b + 0 + c - d
      BY <1>3, <2>1, <2>2
    <3> HIDE DEF a, b, c, d, f, g
    <3>3. f = 0
      BY <3>1, <3>2
    <3> QED BY <3>3 DEF f
  <2> QED BY <1>1, <1>4, <2>1, <2>3, <2>4, SMTT(30) DEF Whole, Ended
<1>7. \A p, s : Made(r, p, s) <=> Made(q, p, s)
  BY <1>1, <1>5 DEF Made, Streams
<1>8. OrderInv(t, q) /\ CoverInv(t, q)
  BY <1>1, <1>2, <1>4, <1>5, <1>6, <1>7, HandedProbes, ZenonT(30)
<1>9. AtTarget(t, q)
  BY <1>5 DEF AtTarget, Ended
<1> QED BY <1>8, <1>9 DEF q

(* Every step of a sender keeps what holds of the probes it makes.         *)
LEMMA SenderProbes ==
  ASSUME DistinctTargets, OnePort, ThreadsInv, ProbesInv,
         NEW t \in Senders, Create(t) \/ SenderStep(t)
  PROVE  ProbesInv'
<1>1. th \in [Senders -> Thread] /\ ThreadInv(t, th[t])
      /\ AtTarget(t, th[t]) /\ OrderInv(t, th[t]) /\ CoverInv(t, th[t])
  BY DEF ThreadsInv, ProbesInv
<1>2. th'[t] \in Thread
  BY SenderKeeps DEF ThreadsInv
<1>3. \A u \in Senders \ {t} : th'[u] = th[u]
  <2>1. CASE ShardCompleteLocks(t) \/ ShardCompleteUnlocks(t)
    BY <1>1, <2>1 DEF ShardCompleteLocks, ShardCompleteUnlocks
  <2> QED BY <1>1, <2>1, OwnStep
<1>4. AtTarget(t, th'[t]) /\ OrderInv(t, th'[t]) /\ CoverInv(t, th'[t])
  <2>1. CASE Create(t) \/ ThreadInit(t) \/ FirstTarget(t) \/ ShardCompleteLocks(t) \/ ShardCompleteUnlocks(t)
    BY <1>1, <1>2, <2>1, PlaceProbes
  <2>2. CASE SearchList(t) \/ NextTarget(t) \/ SkipUnlisted(t)
    BY <1>1, <1>2, <2>2, TargetProbes
  <2>3. CASE Check(t)
    BY <1>1, <1>2, <2>3, CheckProbes
  <2>4. CASE MakeProbe(t)
    BY <1>1, <1>2, <2>4, MakeProbes
  <2>5. ASSUME NEW rv \in 0 .. Batch, Sendmmsg(t, rv)
        PROVE  AtTarget(t, th'[t]) /\ OrderInv(t, th'[t]) /\ CoverInv(t, th'[t])
    <3>1. rv \in Nat
      BY SendConstants
    <3> QED BY <1>1, <1>2, <2>5, <3>1, SendmmsgProbes
  <2>6. CASE SendReturns(t)
    BY <1>1, <1>2, <2>6, ReturnProbes
  <2>7. CASE FlushReturns(t)
    BY <1>1, <1>2, <2>7, FlushProbes
  <2> QED BY <2>1, <2>2, <2>3, <2>4, <2>5, <2>6, <2>7 DEF SenderStep
<1>5. ASSUME NEW u \in Senders PROVE AtTarget(u, th'[u]) /\ OrderInv(u, th'[u]) /\ CoverInv(u, th'[u])
  BY <1>3, <1>4 DEF ProbesInv
<1>6. (ProbesInv)' <=> \A u \in Senders : AtTarget(u, th'[u]) /\ OrderInv(u, th'[u]) /\ CoverInv(u, th'[u])
  BY DEF ProbesInv, AtTarget, OrderInv, CoverInv, IsMade, Made, Streams, Whole
<1> QED BY <1>5, <1>6

(* Before the first probe there is nothing to keep.                        *)
LEMMA InitProbes ==
  ASSUME SendInit PROVE ProbesInv
<1> SUFFICES ASSUME NEW t \in Senders
             PROVE  AtTarget(t, th[t]) /\ OrderInv(t, th[t]) /\ CoverInv(t, th[t])
  BY DEF ProbesInv
<1>1. /\ th[t].pc = "none" /\ th[t].pos = 1 /\ th[t].ip = 0 /\ th[t].port = 0
      /\ th[t].wire = << >> /\ th[t].batch = << >>
  BY DEF SendInit
<1>2. DOMAIN th[t].wire = {} /\ DOMAIN th[t].batch = {}
  BY <1>1
<1>3. AtTarget(t, th[t])
  BY <1>1 DEF AtTarget, Probed, Ended
<1>4. OrderInv(t, th[t])
  BY <1>2 DEF OrderInv
<1>5. \A p \in 2 .. Len(Walk[t]) : \A s : ~ Made(th[t], p, s)
  <2>1. Len(Walk[t]) \in Nat /\ Streams(th[t]) = 0
    BY <1>1, SendAssumption, LenProperties DEF Streams
  <2> QED BY <1>1, <2>1 DEF Made
<1>6. CoverInv(t, th[t])
  BY <1>5 DEF CoverInv
<1> QED BY <1>3, <1>4, <1>6

(* The steps of the senders by themselves.                                 *)
LEMMA NextProbes ==
  ASSUME DistinctTargets, OnePort, ThreadsInv, ProbesInv, [SendNext]_sendSpecVars
  PROVE  ProbesInv'
<1>1. CASE UNCHANGED th
  BY <1>1 DEF ProbesInv, AtTarget, OrderInv, CoverInv, IsMade, Made, Streams, Whole
<1>2. ASSUME NEW t \in Senders, Create(t) \/ SenderStep(t) PROVE ProbesInv'
  BY <1>2, SenderProbes
<1>3. ASSUME NEW t \in Senders, ThreadInitFails(t) PROVE UNCHANGED th
  BY <1>3 DEF ThreadInitFails, sendVars
<1>4. TimeUp \/ ReceiverStops \/ SendFinished \/ UNCHANGED sendSpecVars => UNCHANGED th
  BY DEF TimeUp, ReceiverStops, SendFinished, sendVars, sendSpecVars
<1> QED BY <1>1, <1>2, <1>3, <1>4 DEF SendNext

(* The probes of every thread, for subshards that yield no target twice    *)
(* and, with a list of addresses, have one port.                           *)
THEOREM ProbesInvariant ==
  ASSUME DistinctTargets, OnePort
  PROVE  SendSpec => []ProbesInv
<1>1. SendAloneInit => ProbesInv
  BY InitProbes DEF SendAloneInit
<1>2. ThreadsInv /\ ProbesInv /\ [SendNext]_sendSpecVars => ProbesInv'
  BY NextProbes
<1> QED BY <1>1, <1>2, ThreadsInvariant, PTL DEF SendSpec, sendSpecVars

(* What the invariants say of a thread that ran to the end of its subshard *)
(* and lost no packet.                                                     *)
LEMMA ProbesRest == ThreadsInv /\ ProbesInv => RestProbed
<1> SUFFICES ASSUME ThreadsInv, ProbesInv, NEW t \in Senders, th[t].pc = "done",
                    Depleted(t, th[t].pos), th[t].packets_failed = 0,
                    Len(th[t].wire) = th[t].packets_sent,
                    NEW p \in 2 .. Len(Walk[t]), NEW s \in 0 .. PacketStreams - 1,
                    ~ UseList \/ Listed(Walk[t][p][1])
             PROVE  \E i \in DOMAIN th[t].wire : th[t].wire[i] = <<Walk[t][p][1], Walk[t][p][2], s>>
  BY Zenon DEF RestProbed
<1> DEFINE r == th[t]
<1>1. r \in Thread /\ CoverInv(t, r) /\ r.batch = << >>
  BY DEF ThreadsInv, ThreadInv, ProbesInv, Ended
<1>2. Whole(r) /\ Due(t, p)
  BY DEF Whole, Due
<1>3. p # 1 /\ p < r.pos
  BY <1>1, ThreadSeqs, SendAssumption, LenProperties, SMTT(30) DEF Depleted
<1>4. Made(r, p, s)
  BY <1>3 DEF Made
<1>5. Probe(t, p, s) = <<Walk[t][p][1], Walk[t][p][2], s>>
  BY <1>3 DEF Probe, Probed
<1>6. DOMAIN r.batch = {}
  BY <1>1
<1> HIDE DEF r
<1>7. \E i \in DOMAIN r.wire : r.wire[i] = Probe(t, p, s)
  BY <1>1, <1>2, <1>4, <1>6 DEF CoverInv
<1> QED BY <1>5, <1>7 DEF r

(* No probe goes out twice (send-linux.c:105-128).                         *)
THEOREM SendNoProbeTwice ==
  ASSUME DistinctTargets, OnePort
  PROVE  SendSpec => []NoProbeTwice
<1>1. ProbesInv => NoProbeTwice
  BY DEF ProbesInv, OrderInv, NoProbeTwice
<1> QED BY <1>1, ProbesInvariant, PTL

(* A thread that ran to the end of its subshard and lost no packet probed  *)
(* every target but the first, with every stream (send.c:437-519).         *)
THEOREM SendRestProbed ==
  ASSUME DistinctTargets, OnePort
  PROVE  SendSpec => []RestProbed
BY ProbesRest, ProbesInvariant, ThreadsInvariant, PTL
=============================================================================
