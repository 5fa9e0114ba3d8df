----------------------------- MODULE SendProofs -----------------------------
(***************************************************************************)
(* Proofs about the sender threads, for any number of threads, targets,    *)
(* streams and retries and any size of the batch.                          *)
(***************************************************************************)
EXTENDS Send, SequenceTheorems, TLAPS

(* The shape of the constants the steps below use. *)
LEMMA SendConstants ==
  /\ PacketStreams \in Nat /\ 0 < PacketStreams
  /\ Batch \in Nat /\ 0 < Batch
  /\ Attempts \in Nat /\ 0 < Attempts
  /\ MaxTargets \in [Senders -> Nat]
  /\ Dryrun \in BOOLEAN
BY SendAssumption DEF Attempts

(* The target at a position is a pair of numbers, <<0, 0>> past the end.   *)
LEMMA TargetIsPair ==
  ASSUME NEW t \in Senders, NEW p \in Nat \ {0}
  PROVE  TargetAt(t, p)[1] \in Nat /\ TargetAt(t, p)[2] \in Nat
<1>1. Walk[t] \in Seq(Ips \X Ips)
  BY SendAssumption
<1>2. CASE Depleted(t, p)
  BY <1>2 DEF TargetAt
<1>3. CASE ~ Depleted(t, p)
  <2>1. Len(Walk[t]) \in Nat
    BY <1>1, LenProperties
  <2>2. p \in 1 .. Len(Walk[t])
    BY <1>3, <2>1 DEF Depleted
  <2>3. Walk[t][p] \in Ips \X Ips
    BY <1>1, <2>2, ElementOfSeq
  <2> QED BY <1>3, <2>3 DEF TargetAt, Ips
<1> QED BY <1>2, <1>3

(* The types of the fields of a thread's record.                           *)
LEMMA ThreadFields ==
  ASSUME NEW r \in Thread
  PROVE  /\ r.pc \in SPC /\ r.pos \in Nat \ {0} /\ r.ip \in Nat /\ r.port \in Nat
         /\ r.stream \in Nat /\ r.attempt \in Nat /\ r.vec \in Nat
         /\ r.packets_sent \in Nat /\ r.targets_scanned \in Nat /\ r.packets_failed \in Nat
         /\ r.batch \in Seq(Packets) /\ r.wire \in Seq(Packets)
BY Zenon DEF Thread

(* One more than a count is a count.                                       *)
LEMMA Successor ==
  ASSUME NEW n \in Nat
  PROVE  n + 1 \in Nat
OBVIOUS

(* The lengths of a thread's sequences are numbers.                        *)
LEMMA ThreadLengths ==
  ASSUME NEW r \in Thread
  PROVE  Len(r.batch) \in Nat /\ Len(r.wire) \in Nat
<1>1. r.batch \in Seq(Packets) /\ r.wire \in Seq(Packets)
  BY DEF Thread
<1> QED BY <1>1, LenProperties

(* Two records with the same batch and the same counts. *)
SameBatch(q, r) ==
  /\ q.vec = r.vec /\ q.batch = r.batch /\ q.wire = r.wire
  /\ q.targets_scanned = r.targets_scanned
  /\ q.packets_sent = r.packets_sent /\ q.packets_failed = r.packets_failed

(* A thread that only moves to another place of the code, and to another   *)
(* target or stream, keeps the invariant.                                  *)
LEMMA MoveKeeps ==
  ASSUME NEW t \in Senders, NEW r \in Thread, NEW q \in Thread, ThreadInv(t, r),
         SameBatch(q, r),
         r.pc \notin Ended \cup {"send", "flush"},
         q.pc \notin Ended \cup {"send"},
         q.pc = "probe" => MaxTargets[t] = 0 \/ r.targets_scanned < MaxTargets[t]
  PROVE  ThreadInv(t, q)
BY DEF ThreadInv, Uncounted, Ended, SameBatch

(* One more packet is counted: the batch is not full, its packets are      *)
(* accounted for but for the one just made or just sent.                   *)
LEMMA CountedKeeps ==
  ASSUME NEW t \in Senders, NEW r \in Thread,
         r.vec = 0, Len(r.batch) < Batch,
         MaxTargets[t] # 0 => r.targets_scanned < MaxTargets[t],
         r.packets_sent + 1 = Len(r.wire) + r.packets_failed + Len(r.batch)
  PROVE  ThreadInv(t, Counted(r))
<1> DEFINE q == Counted(r)
<1>1. CASE r.stream + 1 = PacketStreams
  <2>1. q = [r EXCEPT !.pc = "next", !.stream = r.stream + 1,
                      !.packets_sent = r.packets_sent + 1,
                      !.targets_scanned = r.targets_scanned + 1]
    BY <1>1 DEF Counted
  <2> HIDE DEF q
  <2>a. r.stream + 1 \in Nat /\ r.packets_sent + 1 \in Nat /\ r.targets_scanned + 1 \in Nat
    BY ThreadFields, Successor, Zenon
  <2>b. q \in Thread
    BY <2>1, <2>a, ZenonT(30) DEF Thread, SPC
  <2>2. /\ q \in Thread /\ q.pc = "next" /\ q.vec = 0
        /\ q.batch = r.batch /\ q.wire = r.wire
        /\ q.packets_sent = r.packets_sent + 1 /\ q.packets_failed = r.packets_failed
        /\ q.targets_scanned = r.targets_scanned + 1
    BY <2>1, <2>b DEF Thread
  <2>3. /\ Len(r.batch) \in Nat /\ Len(r.wire) \in Nat /\ r.targets_scanned \in Nat
        /\ MaxTargets[t] \in Nat /\ r.packets_failed \in Nat /\ r.packets_sent \in Nat
    BY ThreadLengths, ThreadFields, SendConstants
  <2>4. ThreadInv(t, q)
    BY <2>2, <2>3, SMTT(30) DEF ThreadInv, Uncounted, Ended
  <2> QED BY <2>4 DEF q
<1>2. CASE r.stream + 1 # PacketStreams
  <2>1. q = [r EXCEPT !.pc = "probe", !.stream = r.stream + 1,
                      !.packets_sent = r.packets_sent + 1,
                      !.targets_scanned = r.targets_scanned]
    BY <1>2 DEF Counted
  <2> HIDE DEF q
  <2>a. r.stream + 1 \in Nat /\ r.packets_sent + 1 \in Nat /\ r.targets_scanned \in Nat
    BY ThreadFields, Successor, Zenon
  <2>b. q \in Thread
    BY <2>1, <2>a, ZenonT(30) DEF Thread, SPC
  <2>2. /\ q \in Thread /\ q.pc = "probe" /\ q.vec = 0
        /\ q.batch = r.batch /\ q.wire = r.wire
        /\ q.packets_sent = r.packets_sent + 1 /\ q.packets_failed = r.packets_failed
        /\ q.targets_scanned = r.targets_scanned
    BY <2>1, <2>b DEF Thread
  <2>3. /\ Len(r.batch) \in Nat /\ Len(r.wire) \in Nat /\ r.targets_scanned \in Nat
        /\ MaxTargets[t] \in Nat /\ r.packets_failed \in Nat /\ r.packets_sent \in Nat
    BY ThreadLengths, ThreadFields, SendConstants
  <2>4. ThreadInv(t, q)
    BY <2>2, <2>3, SMTT(30) DEF ThreadInv, Uncounted, Ended
  <2> QED BY <2>4 DEF q
<1> QED BY <1>1, <1>2

(* The record of thread t after a step that is not part of shard_complete  *)
(* satisfies its invariant.  One lemma per kind of action: here those that *)
(* move on, start_send and the first steps of send_run.                    *)
LEMMA StartKeeps ==
  ASSUME NEW t \in Senders, th \in [Senders -> Thread], ThreadInv(t, th[t]),
         Create(t) \/ ThreadInit(t) \/ FirstTarget(t)
  PROVE  ThreadInv(t, th'[t])
<1>1. PICK pc \in {"init", "first", "search", "check"} : th'[t] = [th[t] EXCEPT !.pc = pc]
  BY DEF Create, ThreadInit, FirstTarget, Becomes
<1>2. th[t] \in Thread /\ th[t].pc \in {"none", "init", "first"}
  BY DEF Create, ThreadInit, FirstTarget
<1>3. th'[t] \in Thread /\ SameBatch(th'[t], th[t]) /\ th'[t].pc = pc
  BY <1>1, <1>2, ZenonT(30) DEF Thread, SPC, SameBatch
<1> QED BY <1>2, <1>3, MoveKeeps DEF Ended

(* The searches of the list and the fetch of the next target change where  *)
(* the thread is in its subshard.                                          *)
LEMMA TargetKeeps ==
  ASSUME NEW t \in Senders, th \in [Senders -> Thread], ThreadInv(t, th[t]),
         SearchList(t) \/ NextTarget(t) \/ SkipUnlisted(t)
  PROVE  ThreadInv(t, th'[t])
<1>1. th[t] \in Thread /\ th[t].pc \in {"search", "next", "skip"}
  BY DEF SearchList, NextTarget, SkipUnlisted
<1> DEFINE next == th[t].pos + 1
           ip   == TargetAt(t, next)[1]
           port == TargetAt(t, next)[2]
<1>2. next \in Nat \ {0}
  BY <1>1, ThreadFields
<1>3. ip \in Nat /\ port \in Nat
  BY <1>2, TargetIsPair
<1> DEFINE Moved(pc) ==
             \/ th'[t] = [th[t] EXCEPT !.pc = pc]
             \/ th'[t] = [th[t] EXCEPT !.pc = pc, !.pos = next, !.ip = ip]
             \/ th'[t] = [th[t] EXCEPT !.pc = pc, !.pos = next, !.ip = ip, !.port = port]
<1>4. Moved("search") \/ Moved("check") \/ Moved("skip") \/ Moved("flush")
  <2>1. CASE SearchList(t)
    <3>1. CASE Listed(th[t].ip)
      BY <2>1, <3>1 DEF SearchList, Becomes
    <3>2. CASE ~ Listed(th[t].ip) /\ Depleted(t, next)
      BY <2>1, <3>2 DEF SearchList, Becomes
    <3>3. CASE ~ Listed(th[t].ip) /\ ~ Depleted(t, next)
      BY <2>1, <3>3 DEF SearchList, Becomes
    <3> QED BY <3>1, <3>2, <3>3
  <2>2. CASE NextTarget(t)
    BY <2>2, Zenon DEF NextTarget, Becomes
  <2>3. CASE SkipUnlisted(t)
    <3>1. CASE Listed(th[t].ip)
      BY <2>3, <3>1 DEF SkipUnlisted, Becomes
    <3>2. CASE ~ Listed(th[t].ip) /\ Depleted(t, next)
      BY <2>3, <3>2 DEF SkipUnlisted, Becomes
    <3>3. CASE ~ Listed(th[t].ip) /\ ~ Depleted(t, next)
      BY <2>3, <3>3 DEF SkipUnlisted, Becomes
    <3> QED BY <3>1, <3>2, <3>3
  <2> QED BY <2>1, <2>2, <2>3
<1> HIDE DEF next, ip, port
<1>5. ASSUME NEW pc \in {"search", "check", "skip", "flush"}, Moved(pc)
      PROVE  th'[t] \in Thread /\ SameBatch(th'[t], th[t]) /\ th'[t].pc = pc
  <2>1. CASE th'[t] = [th[t] EXCEPT !.pc = pc]
    BY <1>1, <2>1, ZenonT(30) DEF Thread, SPC, SameBatch
  <2>2. CASE th'[t] = [th[t] EXCEPT !.pc = pc, !.pos = next, !.ip = ip]
    <3>1. th'[t] \in Thread
      BY <1>1, <1>2, <1>3, <2>2, ZenonT(30) DEF Thread, SPC
    <3>2. SameBatch(th'[t], th[t]) /\ th'[t].pc = pc
      BY <1>1, <2>2 DEF Thread, SameBatch
    <3> QED BY <3>1, <3>2
  <2>3. CASE th'[t] = [th[t] EXCEPT !.pc = pc, !.pos = next, !.ip = ip, !.port = port]
    <3>1. th'[t] \in Thread
      BY <1>1, <1>2, <1>3, <2>3, ZenonT(30) DEF Thread, SPC
    <3>2. SameBatch(th'[t], th[t]) /\ th'[t].pc = pc
      BY <1>1, <2>3 DEF Thread, SameBatch
    <3> QED BY <3>1, <3>2
  <2> QED BY <1>5, <2>1, <2>2, <2>3
<1> HIDE DEF Moved
<1>6. PICK pc \in {"search", "check", "skip", "flush"} : Moved(pc)
  BY <1>4
<1> QED BY <1>1, <1>5, <1>6, MoveKeeps DEF Ended

(* The checks at the head of the loop: no probe is begun at the limit.     *)
LEMMA CheckKeeps ==
  ASSUME NEW t \in Senders, th \in [Senders -> Thread], ThreadInv(t, th[t]), Check(t)
  PROVE  ThreadInv(t, th'[t])
<1>1. th[t] \in Thread /\ th[t].pc = "check"
  BY DEF Check
<1>2. PICK pc \in {"flush", "probe"}, stream \in Nat :
        /\ th'[t] = [th[t] EXCEPT !.pc = pc, !.stream = stream]
        /\ pc = "probe" => ~ MustStop(t)
  <2>1. CASE MustStop(t)
    BY <2>1, Zenon DEF Check, Becomes
  <2>2. CASE ~ MustStop(t)
    BY <2>2, Zenon DEF Check, Becomes
  <2> QED BY <2>1, <2>2, Zenon
<1>3. th'[t] \in Thread
  BY <1>1, <1>2, ZenonT(30) DEF Thread, SPC
<1>4. SameBatch(th'[t], th[t]) /\ th'[t].pc = pc
  BY <1>1, <1>2 DEF Thread, SameBatch
<1>5. pc = "probe" => MaxTargets[t] = 0 \/ th[t].targets_scanned < MaxTargets[t]
  BY <1>1, <1>2, SendConstants, SMTT(30) DEF MustStop, Thread
<1>6. th[t].pc \notin Ended \cup {"send", "flush"} /\ th'[t].pc \notin Ended \cup {"send"}
  BY <1>1, <1>2, <1>4 DEF Ended
<1>7. th'[t].pc = "probe" => MaxTargets[t] = 0 \/ th[t].targets_scanned < MaxTargets[t]
  BY <1>4, <1>5, Zenon
<1> QED BY <1>1, <1>3, <1>4, <1>6, <1>7, MoveKeeps, Zenon

(* A probe goes into the batch; it is counted at once unless it fills it.  *)
LEMMA ProbeKeeps ==
  ASSUME NEW t \in Senders, th \in [Senders -> Thread], ThreadInv(t, th[t]), MakeProbe(t)
  PROVE  ThreadInv(t, th'[t])
<1> DEFINE r == th[t]
           probe == <<r.ip, r.port, r.stream>>
           filled == [r EXCEPT !.batch = Append(r.batch, probe)]
<1>1. r \in Thread /\ r.pc = "probe"
  BY DEF MakeProbe
<1>2. /\ r.batch \in Seq(Packets) /\ probe \in Packets
      /\ Len(r.batch) \in Nat /\ Len(r.wire) \in Nat
      /\ r.packets_sent \in Nat /\ r.packets_failed \in Nat
      /\ r.targets_scanned \in Nat /\ MaxTargets[t] \in Nat /\ Batch \in Nat
  BY <1>1, ThreadFields, ThreadLengths, SendConstants DEF Packets
<1>3. Append(r.batch, probe) \in Seq(Packets)
      /\ Len(Append(r.batch, probe)) = Len(r.batch) + 1
  BY <1>2, AppendProperties
<1>4. /\ r.vec = 0 /\ Len(r.batch) < Batch
      /\ MaxTargets[t] # 0 => r.targets_scanned < MaxTargets[t]
      /\ r.packets_sent = Len(r.wire) + r.packets_failed + Len(r.batch)
  BY <1>1, <1>2 DEF ThreadInv, Uncounted, Ended
<1>5. th'[t] = IF Len(filled.batch) = Batch
               THEN [filled EXCEPT !.pc = "send"] ELSE Counted(filled)
  BY DEF MakeProbe, Becomes
<1>6. /\ filled \in Thread /\ filled.pc = "probe" /\ filled.vec = 0
      /\ filled.wire = r.wire /\ filled.batch = Append(r.batch, probe)
      /\ filled.packets_sent = r.packets_sent /\ filled.packets_failed = r.packets_failed
      /\ filled.targets_scanned = r.targets_scanned
  BY <1>1, <1>3, <1>4, Zenon DEF Thread
<1> HIDE DEF filled, probe, r
<1>7. CASE Len(filled.batch) = Batch
  <2> DEFINE q == [filled EXCEPT !.pc = "send"]
  <2>1. q \in Thread
    BY <1>6, ZenonT(30) DEF Thread, SPC
  <2>2. q.pc = "send" /\ SameBatch(q, filled)
    BY <1>6, Zenon DEF Thread, SameBatch
  <2> HIDE DEF q
  <2>a. /\ q.vec = 0 /\ Len(q.batch) = Batch /\ Len(q.batch) = Len(r.batch) + 1
        /\ q.wire = r.wire /\ q.packets_sent = r.packets_sent
        /\ q.packets_failed = r.packets_failed /\ q.targets_scanned = r.targets_scanned
    BY <1>3, <1>6, <1>7, <2>2 DEF SameBatch
  <2>b. q.packets_sent + 1 = Len(q.wire) + q.packets_failed + Len(q.batch) - q.vec
    BY <1>2, <1>4, <2>a, SMTT(30)
  <2>3. ThreadInv(t, q)
    BY <1>2, <1>4, <2>1, <2>2, <2>a, <2>b, SMTT(30) DEF ThreadInv, Uncounted, Ended
  <2> QED BY <1>5, <1>7, <2>3 DEF q
<1>8. CASE Len(filled.batch) # Batch
  <2>1. Len(filled.batch) < Batch
    BY <1>2, <1>3, <1>4, <1>6, <1>8, SMTT(30)
  <2>a. /\ filled.packets_sent + 1
             = Len(filled.wire) + filled.packets_failed + Len(filled.batch)
        /\ MaxTargets[t] # 0 => filled.targets_scanned < MaxTargets[t]
    <3>1. Len(filled.batch) = Len(r.batch) + 1
      BY <1>3, <1>6
    <3>2. filled.packets_sent = Len(filled.wire) + filled.packets_failed + Len(r.batch)
      BY <1>4, <1>6
    <3>3. Len(filled.wire) \in Nat /\ filled.packets_failed \in Nat /\ Len(r.batch) \in Nat
      BY <1>2, <1>6
    <3>4. MaxTargets[t] # 0 => filled.targets_scanned < MaxTargets[t]
      BY <1>4, <1>6
    <3> QED BY <3>1, <3>2, <3>3, <3>4, SMTT(30)
  <2>2. ThreadInv(t, Counted(filled))
    BY <1>6, <2>1, <2>a, CountedKeeps, Zenon
  <2> QED BY <1>5, <1>8, <2>2
<1> QED BY <1>7, <1>8

(* A sendmmsg call moves packets from the batch to the network.            *)
LEMMA SendmmsgKeeps ==
  ASSUME NEW t \in Senders, th \in [Senders -> Thread], ThreadInv(t, th[t]),
         NEW rv \in Nat, Sendmmsg(t, rv)
  PROVE  ThreadInv(t, th'[t])
<1> DEFINE r == th[t]
           more == Unsent(r, rv)
<1>1. /\ r \in Thread /\ r.pc \in {"send", "flush"} /\ ~ Dryrun
      /\ rv \in 0 .. Len(r.batch) - r.vec
      /\ th'[t] = [r EXCEPT !.attempt = r.attempt + 1, !.vec = r.vec + rv,
                            !.wire = r.wire \o more]
  BY DEF Sendmmsg, Becomes
<1>2. /\ r.batch \in Seq(Packets) /\ r.wire \in Seq(Packets)
      /\ Len(r.batch) \in Nat /\ Len(r.wire) \in Nat
      /\ r.vec \in Nat /\ r.attempt \in Nat
      /\ r.packets_sent \in Nat /\ r.packets_failed \in Nat
  BY <1>1, ThreadFields, ThreadLengths
<1>3. more \in Seq(Packets) /\ Len(more) = rv
  <2>1. \A i \in r.vec + 1 .. r.vec + rv : r.batch[i] \in Packets
    BY <1>1, <1>2, ElementOfSeq, SMTT(30)
  <2> DEFINE m == r.vec + 1
             n == r.vec + rv
  <2>2. m \in Int /\ n \in Int /\ n - m + 1 = rv /\ (m <= n <=> rv # 0)
    BY <1>2, SMTT(30)
  <2>3. more = SubSeq(r.batch, m, n)
    BY DEF Unsent
  <2>4. \A i \in m .. n : r.batch[i] \in Packets
    BY <2>1
  <2> HIDE DEF m, n, more, r
  <2>5. /\ SubSeq(r.batch, m, n) \in Seq(Packets)
        /\ Len(SubSeq(r.batch, m, n)) = IF m <= n THEN n - m + 1 ELSE 0
    BY <2>2, <2>4, SubSeqProperties
  <2> QED BY <2>2, <2>3, <2>5
<1> HIDE DEF more
<1>4. r.wire \o more \in Seq(Packets) /\ Len(r.wire \o more) = Len(r.wire) + rv
  BY <1>2, <1>3, ConcatProperties, Zenon
<1>5. r.vec + rv \in Nat /\ r.attempt + 1 \in Nat
  BY <1>2, SMTT(30)
<1> DEFINE q == th'[t]
<1>6. q \in Thread
  BY <1>1, <1>4, <1>5, ZenonT(30) DEF Thread
<1>7. /\ q.pc = r.pc /\ q.batch = r.batch /\ q.vec = r.vec + rv
      /\ q.wire = r.wire \o more
      /\ q.packets_sent = r.packets_sent /\ q.packets_failed = r.packets_failed
      /\ q.targets_scanned = r.targets_scanned
  BY <1>1, Zenon DEF Thread
<1>8. /\ q.vec <= Len(q.batch)
      /\ Len(q.wire) + q.packets_failed + Len(q.batch) - q.vec
          = Len(r.wire) + r.packets_failed + Len(r.batch) - r.vec
  <2> DEFINE w == Len(r.wire)
             b == Len(r.batch)
  <2>1. /\ Len(q.wire) = w + rv /\ Len(q.batch) = b /\ q.vec = r.vec + rv
        /\ q.packets_failed = r.packets_failed
    BY <1>4, <1>7
  <2>2. /\ w \in Nat /\ b \in Nat /\ r.vec \in Nat /\ r.packets_failed \in Nat
        /\ rv \in Nat /\ rv <= b - r.vec
    BY <1>1, <1>2
  <2> HIDE DEF w, b, q, r
  <2>3. r.vec + rv <= b /\ (w + rv) + r.packets_failed + b - (r.vec + rv)
                              = w + r.packets_failed + b - r.vec
    BY <2>2
  <2> QED BY <2>1, <2>3 DEF w, b
<1>9. Uncounted(q) = Uncounted(r)
  BY <1>7 DEF Uncounted
<1>10. ThreadInv(t, r)
  OBVIOUS
<1>11. r.pc \notin Ended /\ ~ Dryrun /\ r.pc \in {"send", "flush"}
  BY <1>1 DEF Ended
<1> HIDE DEF q, r
<1>12. ThreadInv(t, q)
  <2>1. q.packets_sent + Uncounted(q)
          = Len(q.wire) + q.packets_failed + Len(q.batch) - q.vec
    BY <1>7, <1>8, <1>9, <1>10, <1>11 DEF ThreadInv
  <2> QED BY <1>6, <1>7, <1>8, <1>10, <1>11, <2>1 DEF ThreadInv
<1> QED BY <1>12 DEF q

(* The batch after send_batch: empty, and what a dry run printed counts as *)
(* taken by the network.  With the failures no packet is lost.             *)
LEMMA EmptiedBalance ==
  ASSUME NEW t \in Senders, NEW r \in Thread, ThreadInv(t, r)
  PROVE  /\ Emptied(r) \in Thread
         /\ Emptied(r).pc = r.pc /\ Emptied(r).batch = <<>> /\ Emptied(r).vec = 0
         /\ Emptied(r).packets_sent = r.packets_sent
         /\ Emptied(r).packets_failed = r.packets_failed
         /\ Emptied(r).targets_scanned = r.targets_scanned
         /\ FailedIn(r) \in Nat /\ FailedIn(r) <= Len(r.batch)
         /\ Len(Emptied(r).wire) + FailedIn(r) = Len(r.wire) + Len(r.batch) - r.vec
<1>1. /\ r.batch \in Seq(Packets) /\ r.wire \in Seq(Packets)
      /\ Len(r.batch) \in Nat /\ Len(r.wire) \in Nat /\ r.vec \in Nat
  BY ThreadLengths DEF Thread
<1>2. r.vec <= Len(r.batch) /\ (Dryrun => r.vec = 0)
  BY DEF ThreadInv
<1>3. PICK wire \in Seq(Packets), batch \in Seq(Packets), attempt \in Nat, vec \in Nat :
        /\ wire = IF Dryrun THEN r.wire \o r.batch ELSE r.wire
        /\ batch = <<>> /\ attempt = 0 /\ vec = 0
  BY <1>1, ConcatProperties, EmptySeq, Zenon
<1>4. Emptied(r) = [r EXCEPT !.batch = batch, !.attempt = attempt, !.vec = vec,
                             !.wire = wire]
  BY <1>3 DEF Emptied
<1>5. Emptied(r) \in Thread
  BY <1>4, ZenonT(30) DEF Thread
<1>6. /\ Emptied(r).pc = r.pc /\ Emptied(r).batch = batch /\ Emptied(r).vec = vec
      /\ Emptied(r).packets_sent = r.packets_sent
      /\ Emptied(r).packets_failed = r.packets_failed
      /\ Emptied(r).targets_scanned = r.targets_scanned
      /\ Emptied(r).wire = wire
  BY <1>4 DEF Thread
<1>7. FailedIn(r) \in Nat /\ FailedIn(r) <= Len(r.batch)
  BY <1>1, <1>2 DEF FailedIn
<1>8. Len(wire) + FailedIn(r) = Len(r.wire) + Len(r.batch) - r.vec
  <2>1. CASE Dryrun
    <3>1. Len(wire) = Len(r.wire) + Len(r.batch)
      BY <1>1, <1>3, <2>1, ConcatProperties
    <3>2. FailedIn(r) = 0 /\ r.vec = 0
      BY <1>2, <2>1 DEF FailedIn
    <3> QED BY <1>1, <3>1, <3>2
  <2>2. CASE ~ Dryrun
    <3>1. wire = r.wire /\ FailedIn(r) = Len(r.batch) - r.vec
      BY <1>3, <2>2 DEF FailedIn
    <3> QED BY <1>1, <3>1
  <2> QED BY <2>1, <2>2
<1> QED BY <1>3, <1>5, <1>6, <1>7, <1>8, Zenon

(* After send_batch in the loop the packet that filled the batch counts.   *)
LEMMA SendReturnsKeeps ==
  ASSUME NEW t \in Senders, th \in [Senders -> Thread], ThreadInv(t, th[t]), SendReturns(t)
  PROVE  ThreadInv(t, th'[t])
<1> DEFINE r == th[t]
           e == Emptied(r)
           q == [e EXCEPT !.packets_failed = e.packets_failed + FailedIn(r)]
<1>1. r \in Thread /\ r.pc = "send" /\ ThreadInv(t, r) /\ th'[t] = Counted(q)
  BY DEF SendReturns, Becomes
<1> HIDE DEF r
<1>2. /\ Len(r.batch) \in Nat /\ Len(r.wire) \in Nat /\ r.vec \in Nat
      /\ r.packets_failed \in Nat /\ r.packets_sent \in Nat
  BY <1>1, ThreadLengths, Zenon DEF Thread
<1>3. /\ e \in Thread /\ e.batch = <<>> /\ e.vec = 0
      /\ e.packets_sent = r.packets_sent /\ e.packets_failed = r.packets_failed
      /\ e.targets_scanned = r.targets_scanned
      /\ FailedIn(r) \in Nat
      /\ Len(e.wire) + FailedIn(r) = Len(r.wire) + Len(r.batch) - r.vec
  BY <1>1, EmptiedBalance
<1> HIDE DEF e
<1>4. e.packets_failed + FailedIn(r) \in Nat /\ Len(e.wire) \in Nat
  BY <1>2, <1>3, ThreadLengths, SMTT(30)
<1>5. q \in Thread
  BY <1>3, <1>4, Zenon DEF Thread
<1>6. /\ q.vec = 0 /\ q.batch = <<>> /\ q.wire = e.wire
      /\ q.packets_sent = r.packets_sent /\ q.targets_scanned = r.targets_scanned
      /\ q.packets_failed = r.packets_failed + FailedIn(r)
  BY <1>3 DEF Thread
<1> HIDE DEF q
<1>7. /\ r.packets_sent + 1 = Len(r.wire) + r.packets_failed + Len(r.batch) - r.vec
      /\ MaxTargets[t] # 0 => r.targets_scanned < MaxTargets[t]
  BY <1>1 DEF ThreadInv, Uncounted, Ended
<1>8. Len(q.batch) = 0
  BY <1>6, EmptySeq
<1>9. r.packets_sent + 1 = Len(e.wire) + (r.packets_failed + FailedIn(r)) + 0
  <2>1. /\ Len(e.wire) + FailedIn(r) = Len(r.wire) + Len(r.batch) - r.vec
        /\ FailedIn(r) \in Nat
    BY <1>3
  <2>2. r.packets_sent + 1 = Len(e.wire) + (r.packets_failed + FailedIn(r))
    <3> DEFINE sent == r.packets_sent
               wire == Len(r.wire)
               wire2 == Len(e.wire)
               failed == r.packets_failed
               batch == Len(r.batch)
               vec == r.vec
               lost == FailedIn(r)
    <3>1. /\ sent \in Nat /\ wire \in Nat /\ wire2 \in Nat /\ failed \in Nat
          /\ batch \in Nat /\ vec \in Nat /\ lost \in Nat
      BY <1>2, <1>4, <2>1
    <3>2. wire2 + lost = wire + batch - vec /\ sent + 1 = wire + failed + batch - vec
      BY <1>7, <2>1
    <3> HIDE DEF sent, wire, wire2, failed, batch, vec, lost
    <3>3. sent + 1 = wire2 + (failed + lost)
      BY <3>1, <3>2
    <3> QED BY <3>3 DEF sent, wire, wire2, failed, batch, vec, lost
  <2> QED BY <1>2, <1>4, <2>1, <2>2
<1>10. /\ q.packets_sent + 1 = Len(q.wire) + q.packets_failed + Len(q.batch)
       /\ Len(q.batch) < Batch
       /\ MaxTargets[t] # 0 => q.targets_scanned < MaxTargets[t]
  BY <1>6, <1>7, <1>8, <1>9, SendConstants
<1>11. ThreadInv(t, Counted(q))
  <2>1. q.vec = 0
    BY <1>6
  <2> QED BY <1>5, <1>10, <2>1, CountedKeeps
<1> QED BY <1>1, <1>11

(* Cleanup leaves less than one batch of packets uncounted.                *)
LEMMA FlushKeeps ==
  ASSUME NEW t \in Senders, th \in [Senders -> Thread], ThreadInv(t, th[t]), FlushReturns(t)
  PROVE  ThreadInv(t, th'[t])
<1> DEFINE r == th[t]
           e == Emptied(r)
           q == [e EXCEPT !.pc = "callback"]
<1>1. r \in Thread /\ r.pc = "flush" /\ ThreadInv(t, r) /\ th'[t] = q
  BY DEF FlushReturns, Becomes
<1> HIDE DEF r
<1>2. /\ Len(r.batch) \in Nat /\ Len(r.wire) \in Nat /\ r.vec \in Nat
      /\ r.packets_failed \in Nat /\ r.packets_sent \in Nat /\ Batch \in Nat
  BY <1>1, ThreadLengths, SendConstants, Zenon DEF Thread
<1>3. /\ e \in Thread /\ e.batch = <<>> /\ e.vec = 0
      /\ e.packets_sent = r.packets_sent /\ e.packets_failed = r.packets_failed
      /\ e.targets_scanned = r.targets_scanned
      /\ FailedIn(r) \in Nat /\ FailedIn(r) <= Len(r.batch)
      /\ Len(e.wire) + FailedIn(r) = Len(r.wire) + Len(r.batch) - r.vec
  BY <1>1, EmptiedBalance
<1> HIDE DEF e
<1>4. q \in Thread
  BY <1>3, Zenon DEF Thread, SPC
<1>5. /\ q.pc = "callback" /\ q.vec = 0 /\ q.batch = <<>> /\ q.wire = e.wire
      /\ q.packets_sent = r.packets_sent /\ q.targets_scanned = r.targets_scanned
      /\ q.packets_failed = r.packets_failed
  BY <1>3 DEF Thread
<1> HIDE DEF q
<1>6. /\ r.packets_sent = Len(r.wire) + r.packets_failed + Len(r.batch) - r.vec
      /\ Len(r.batch) < Batch
      /\ MaxTargets[t] # 0 => r.targets_scanned <= MaxTargets[t]
  BY <1>1, <1>2 DEF ThreadInv, Uncounted, Ended
<1>7. Len(e.wire) \in Nat /\ Len(q.batch) = 0
  BY <1>3, <1>5, ThreadLengths, EmptySeq
<1>8. r.packets_sent - Len(e.wire) - r.packets_failed \in 0 .. Batch - 1
  <2>1. /\ Len(e.wire) + FailedIn(r) = Len(r.wire) + Len(r.batch) - r.vec
        /\ FailedIn(r) \in Nat /\ FailedIn(r) <= Len(r.batch)
    BY <1>3
  <2>2. r.packets_sent - Len(e.wire) - r.packets_failed = FailedIn(r)
    <3> DEFINE sent == r.packets_sent
               wire == Len(r.wire)
               wire2 == Len(e.wire)
               failed == r.packets_failed
               batch == Len(r.batch)
               vec == r.vec
               lost == FailedIn(r)
    <3>1. /\ sent \in Nat /\ wire \in Nat /\ wire2 \in Nat /\ failed \in Nat
          /\ batch \in Nat /\ vec \in Nat /\ lost \in Nat
      BY <1>2, <1>7, <2>1
    <3>2. wire2 + lost = wire + batch - vec /\ sent = wire + failed + batch - vec
      BY <1>6, <2>1
    <3> HIDE DEF sent, wire, wire2, failed, batch, vec, lost
    <3>3. sent - wire2 - failed = lost
      BY <3>1, <3>2
    <3> QED BY <3>3 DEF sent, wire, wire2, failed, batch, vec, lost
  <2> QED BY <1>2, <1>6, <2>1, <2>2
<1>9. ThreadInv(t, q)
  <2>1. /\ q.packets_sent - Len(q.wire) - q.packets_failed \in 0 .. Batch - 1
        /\ MaxTargets[t] # 0 => q.targets_scanned <= MaxTargets[t]
    BY <1>5, <1>6, <1>8
  <2>2. /\ q.vec <= Len(q.batch) /\ Len(q.batch) < Batch
    BY <1>5, <1>7, SendConstants
  <2>3. q.pc = "callback" /\ q.vec = 0 /\ q.batch = <<>>
    BY <1>5
  <2> QED BY <1>4, <2>1, <2>2, <2>3 DEF ThreadInv, Ended
<1> QED BY <1>1, <1>9

(* The two halves of shard_complete leave the thread's record alone.       *)
LEMMA CompleteKeeps ==
  ASSUME NEW t \in Senders, th \in [Senders -> Thread], ThreadInv(t, th[t]),
         ShardCompleteLocks(t) \/ ShardCompleteUnlocks(t)
  PROVE  ThreadInv(t, th'[t]) /\ th'[t].pc \in {"totals", "done"}
<1>1. th[t] \in Thread /\ th[t].pc \in Ended
  BY DEF ShardCompleteLocks, ShardCompleteUnlocks, Ended
<1>2. PICK pc \in {"totals", "done"} : th'[t] = [th[t] EXCEPT !.pc = pc]
  BY DEF ShardCompleteLocks, ShardCompleteUnlocks
<1>3. th'[t] \in Thread
  BY <1>1, <1>2, ZenonT(30) DEF Thread, SPC
<1>4. SameBatch(th'[t], th[t]) /\ th'[t].pc = pc
  BY <1>1, <1>2 DEF Thread, SameBatch
<1> QED BY <1>1, <1>3, <1>4 DEF ThreadInv, SameBatch, Ended

(* A step of thread t outside shard_complete changes no other thread, and  *)
(* nothing of what completes the scan.                                     *)
LEMMA OwnStepKeeps ==
  ASSUME ThreadsInv, NEW t \in Senders, NEW r, Becomes(t, r),
         ThreadInv(t, th'[t]), th[t].pc \notin {"totals", "done"}
  PROVE  ThreadsInv'
<1>1. /\ th \in [Senders -> Thread] /\ th' = [th EXCEPT ![t] = r]
      /\ complete' = complete /\ send_complete' = send_complete /\ t \notin complete
  BY DEF Becomes, totalVars, stateVars, ThreadsInv
<1>2. th'[t] \in Thread /\ th'[t] = r
  BY <1>1 DEF ThreadInv
<1>3. th' \in [Senders -> Thread]
  BY <1>1, <1>2
<1>4. \A u \in Senders : u # t => th'[u] = th[u]
  BY <1>1
<1>5. \A u \in Senders : ThreadInv(u, th'[u])
  BY <1>4 DEF ThreadsInv
<1>6. \A u \in complete' : th'[u].pc \in {"totals", "done"}
  BY <1>1, <1>4 DEF ThreadsInv
<1>7. complete' \subseteq Senders /\ (send_complete' => complete' = Senders)
  BY <1>1 DEF ThreadsInv
<1>8. (\A u \in Senders : ThreadInv(u, th[u]))'
  BY <1>5 DEF ThreadInv, Uncounted
<1> QED BY <1>3, <1>6, <1>7, <1>8 DEF ThreadsInv

(* Every step of a sender thread, and its creation, keeps the invariant:   *)
(* the proof is by cases on the actions.                                   *)
LEMMA SenderKeeps ==
  ASSUME ThreadsInv, NEW t \in Senders, Create(t) \/ SenderStep(t)
  PROVE  ThreadsInv'
<1>1. th \in [Senders -> Thread] /\ ThreadInv(t, th[t])
  BY DEF ThreadsInv
<1>2. CASE Create(t) \/ ThreadInit(t) \/ FirstTarget(t)
  <2>1. ThreadInv(t, th'[t])
    BY <1>1, <1>2, StartKeeps
  <2>2. th[t].pc \notin {"totals", "done"}
    BY <1>2 DEF Create, ThreadInit, FirstTarget
  <2>3. \E r : Becomes(t, r)
    BY <1>2 DEF Create, ThreadInit, FirstTarget
  <2> QED BY <2>1, <2>2, <2>3, OwnStepKeeps
<1>3. CASE SearchList(t) \/ NextTarget(t) \/ SkipUnlisted(t)
  <2>1. ThreadInv(t, th'[t])
    BY <1>1, <1>3, TargetKeeps
  <2>2. th[t].pc \notin {"totals", "done"}
    BY <1>3 DEF SearchList, NextTarget, SkipUnlisted
  <2>3. \E r : Becomes(t, r)
    BY <1>3 DEF SearchList, NextTarget, SkipUnlisted
  <2> QED BY <2>1, <2>2, <2>3, OwnStepKeeps
<1>4. CASE Check(t)
  <2>1. ThreadInv(t, th'[t])
    BY <1>1, <1>4, CheckKeeps
  <2>2. th[t].pc \notin {"totals", "done"} /\ \E r : Becomes(t, r)
    BY <1>4 DEF Check
  <2> QED BY <2>1, <2>2, OwnStepKeeps
<1>5. CASE MakeProbe(t)
  <2>1. ThreadInv(t, th'[t])
    BY <1>1, <1>5, ProbeKeeps
  <2>2. th[t].pc \notin {"totals", "done"} /\ \E r : Becomes(t, r)
    BY <1>5 DEF MakeProbe
  <2> QED BY <2>1, <2>2, OwnStepKeeps
<1>6. ASSUME NEW rv \in 0 .. Batch, Sendmmsg(t, rv)
      PROVE  ThreadsInv'
  <2>1. rv \in Nat
    BY SendConstants
  <2>2. ThreadInv(t, th'[t])
    BY <1>1, <1>6, <2>1, SendmmsgKeeps
  <2>3. th[t].pc \notin {"totals", "done"} /\ \E r : Becomes(t, r)
    BY <1>6 DEF Sendmmsg
  <2> QED BY <2>2, <2>3, OwnStepKeeps
<1>7. CASE SendReturns(t)
  <2>1. ThreadInv(t, th'[t])
    BY <1>1, <1>7, SendReturnsKeeps
  <2>2. th[t].pc \notin {"totals", "done"} /\ \E r : Becomes(t, r)
    BY <1>7 DEF SendReturns
  <2> QED BY <2>1, <2>2, OwnStepKeeps
<1>8. CASE FlushReturns(t)
  <2>1. ThreadInv(t, th'[t])
    BY <1>1, <1>8, FlushKeeps
  <2>2. th[t].pc \notin {"totals", "done"} /\ \E r : Becomes(t, r)
    BY <1>8 DEF FlushReturns
  <2> QED BY <2>1, <2>2, OwnStepKeeps
<1>9. CASE ShardCompleteLocks(t) \/ ShardCompleteUnlocks(t)
  <2>1. ThreadInv(t, th'[t]) /\ th'[t].pc \in {"totals", "done"}
    BY <1>1, <1>9, CompleteKeeps
  <2>2. th'[t] \in Thread /\ \A u \in Senders : u # t => th'[u] = th[u]
    BY <1>1, <1>9, <2>1 DEF ShardCompleteLocks, ShardCompleteUnlocks, ThreadInv
  <2>3. th' \in [Senders -> Thread]
    BY <1>1, <1>9, <2>2 DEF ShardCompleteLocks, ShardCompleteUnlocks
  <2>4. \A u \in Senders : ThreadInv(u, th'[u])
    BY <2>1, <2>2 DEF ThreadsInv
  <2>5. /\ complete \subseteq complete' /\ complete' \subseteq complete \cup {t}
        /\ complete' \subseteq Senders
    BY <1>9 DEF ShardCompleteLocks, ShardCompleteUnlocks, ThreadsInv
  <2>6. \A u \in complete' : th'[u].pc \in {"totals", "done"}
    BY <2>1, <2>2, <2>5 DEF ThreadsInv
  <2>7. send_complete' => complete' = Senders
    BY <1>9, <2>5, Zenon
       DEF ShardCompleteLocks, ShardCompleteUnlocks, stateVars, AllComplete,
           ThreadsInv
  <2>8. (\A u \in Senders : ThreadInv(u, th[u]))'
    BY <2>4 DEF ThreadInv, Uncounted
  <2> QED BY <2>3, <2>5, <2>6, <2>7, <2>8 DEF ThreadsInv
<1> QED BY <1>2, <1>3, <1>4, <1>5, <1>6, <1>7, <1>8, <1>9 DEF SenderStep

(* A step that leaves the threads and the completion alone keeps it.       *)
LEMMA ThreadsUnchanged ==
  ASSUME ThreadsInv, UNCHANGED <<th, complete, send_complete>>
  PROVE  ThreadsInv'
BY DEF ThreadsInv, ThreadInv, Uncounted

(* Before the threads are created nothing has been sent or counted.        *)
LEMMA InitThreads ==
  StateInit /\ SendInit => ThreadsInv
<1> SUFFICES ASSUME StateInit, SendInit PROVE ThreadsInv
  OBVIOUS
<1> DEFINE r == [pc |-> "none", pos |-> 1, ip |-> 0, port |-> 0, stream |-> 0,
                 batch |-> <<>>, attempt |-> 0, vec |-> 0, wire |-> <<>>,
                 packets_sent |-> 0, targets_scanned |-> 0, packets_failed |-> 0]
<1>1. th = [t \in Senders |-> r] /\ complete = {} /\ send_complete = FALSE
  BY DEF SendInit, StateInit
<1>2. r \in Thread /\ Len(r.batch) = 0 /\ Len(r.wire) = 0
  BY EmptySeq DEF Thread, SPC
<1>3. /\ r.pc = "none" /\ r.vec = 0 /\ r.targets_scanned = 0 /\ r.packets_sent = 0
      /\ r.packets_failed = 0
  OBVIOUS
<1> HIDE DEF r
<1>4. ASSUME NEW t \in Senders PROVE ThreadInv(t, r)
  BY <1>2, <1>3, SendConstants DEF ThreadInv, Uncounted, Ended
<1> QED BY <1>1, <1>2, <1>4 DEF ThreadsInv

(* Outside of shard_complete a step of a thread changes its own record     *)
(* only, and ends outside of it.                                           *)
LEMMA OwnStep ==
  ASSUME NEW t \in Senders, th \in [Senders -> Thread], Create(t) \/ SenderStep(t),
         ~ ShardCompleteLocks(t), ~ ShardCompleteUnlocks(t)
  PROVE  /\ \A u \in Senders \ {t} : th'[u] = th[u]
         /\ UNCHANGED <<totalVars, time_up, stateVars>>
         /\ th[t].pc \notin {"totals", "done"} /\ th'[t].pc \notin {"totals", "done"}
<1> DEFINE r == th[t]
           Out == {"totals", "done"}
<1>0. r \in Thread
  OBVIOUS
<1>1. \E q : Becomes(t, q)
  BY Zenon
     DEF SenderStep, Create, ThreadInit, FirstTarget, SearchList, Check, MakeProbe,
         Sendmmsg, SendReturns, NextTarget, SkipUnlisted, FlushReturns
<1>2. /\ \A u \in Senders \ {t} : th'[u] = th[u]
      /\ UNCHANGED <<totalVars, time_up, stateVars>>
  BY <1>1 DEF Becomes
<1>3. ASSUME NEW q, NEW pc, q = [r EXCEPT !.pc = pc] PROVE q.pc = pc
  BY <1>0, <1>3 DEF Thread
<1>4. r.pc \notin Out
  BY Zenon
     DEF SenderStep, Create, ThreadInit, FirstTarget, SearchList, Check, MakeProbe,
         Sendmmsg, SendReturns, NextTarget, SkipUnlisted, FlushReturns
<1>5. CASE Create(t)
  <2>1. th'[t] = [r EXCEPT !.pc = "init"]
    BY <1>5 DEF Create, Becomes
  <2> QED BY <1>2, <1>3, <1>4, <2>1
<1>6. CASE ThreadInit(t)
  <2>1. th'[t] = [r EXCEPT !.pc = "first"]
    BY <1>6 DEF ThreadInit, Becomes
  <2> QED BY <1>2, <1>3, <1>4, <2>1
<1>7. CASE FirstTarget(t)
  <2>1. th'[t] = [r EXCEPT !.pc = IF UseList THEN "search" ELSE "check"]
    BY <1>7 DEF FirstTarget, Becomes
  <2> QED BY <1>2, <1>3, <1>4, <2>1
<1>8. CASE SearchList(t)
  <2>1. \/ th'[t] = [r EXCEPT !.pc = "check"]
        \/ th'[t] = [r EXCEPT !.pc = IF Depleted(t, r.pos + 1) THEN "flush" ELSE r.pc,
                              !.pos = r.pos + 1, !.ip = TargetAt(t, r.pos + 1)[1],
                              !.port = TargetAt(t, r.pos + 1)[2]]
    BY <1>8 DEF SearchList, Becomes
  <2>2. th'[t].pc \in {"check", "flush", r.pc}
    BY <1>0, <2>1, ZenonT(30) DEF Thread
  <2> QED BY <1>2, <1>4, <2>2
<1>9. CASE NextTarget(t)
  <2>1. th'[t] = [r EXCEPT !.pc = IF UseList /\ ~ Depleted(t, r.pos + 1) THEN "skip" ELSE "check",
                              !.pos = r.pos + 1, !.ip = TargetAt(t, r.pos + 1)[1],
                              !.port = TargetAt(t, r.pos + 1)[2]]
    BY <1>9 DEF NextTarget, Becomes
  <2> QED BY <1>0, <1>2, <1>4, <2>1 DEF Thread
<1>10. CASE SkipUnlisted(t)
  <2>1. \/ th'[t] = [r EXCEPT !.pc = "check"]
        \/ th'[t] = [r EXCEPT !.pc = IF Depleted(t, r.pos + 1) THEN "flush" ELSE r.pc,
                              !.pos = r.pos + 1, !.ip = TargetAt(t, r.pos + 1)[1]]
    BY <1>10 DEF SkipUnlisted, Becomes
  <2>2. th'[t].pc \in {"check", "flush", r.pc}
    BY <1>0, <2>1, Zenon DEF Thread
  <2> QED BY <1>2, <1>4, <2>2
<1>11. CASE Check(t)
  <2>1. th'[t] = [r EXCEPT !.pc = IF MustStop(t) THEN "flush" ELSE "probe", !.stream = 0]
    BY <1>11 DEF Check, Becomes
  <2> QED BY <1>0, <1>2, <1>4, <2>1 DEF Thread
<1>13. CASE MakeProbe(t)
  <2> DEFINE filled == [r EXCEPT !.batch = Append(r.batch, <<r.ip, r.port, r.stream>>)]
  <2>1. th'[t] = IF Len(filled.batch) = Batch THEN [filled EXCEPT !.pc = "send"] ELSE Counted(filled)
    BY <1>13 DEF MakeProbe, Becomes
  <2>2. [filled EXCEPT !.pc = "send"].pc = "send"
    BY <1>0 DEF Thread
  <2>3. Counted(filled).pc \in {"next", "probe"}
    BY <1>0 DEF Thread, Counted
  <2> QED BY <1>2, <1>4, <2>1, <2>2, <2>3
<1>14. ASSUME NEW rv \in 0 .. Batch, Sendmmsg(t, rv) PROVE th'[t].pc = r.pc
  <2>1. th'[t] = [r EXCEPT !.attempt = r.attempt + 1, !.vec = r.vec + rv, !.wire = r.wire \o Unsent(r, rv)]
    BY <1>14 DEF Sendmmsg, Becomes
  <2> QED BY <1>0, <2>1 DEF Thread
<1>15. CASE SendReturns(t)
  <2> DEFINE q == [Emptied(r) EXCEPT !.packets_failed = @ + FailedIn(r)]
  <2>1. th'[t] = Counted(q)
    BY <1>15 DEF SendReturns, Becomes
  <2>2. Counted(q).pc \in {"next", "probe"}
    BY <1>0 DEF Thread, Counted, Emptied
  <2> QED BY <1>2, <1>4, <2>1, <2>2
<1>16. CASE FlushReturns(t)
  <2>1. th'[t] = [Emptied(r) EXCEPT !.pc = "callback"]
    BY <1>16 DEF FlushReturns, Becomes
  <2>2. [Emptied(r) EXCEPT !.pc = "callback"].pc = "callback"
    BY <1>0 DEF Thread, Emptied
  <2> QED BY <1>2, <1>4, <2>1, <2>2
<1> QED BY <1>2, <1>4, <1>5, <1>6, <1>7, <1>8, <1>9, <1>10, <1>11, <1>13, <1>14, <1>15, <1>16 DEF SenderStep

(* A sender's step keeps the order in which threads leave shard_complete.  *)
LEMMA SenderCallback ==
  ASSUME NEW t \in Senders, th \in [Senders -> Thread], CallbackInv, Create(t) \/ SenderStep(t)
  PROVE  CallbackInv'
<1>1. CASE ~ ShardCompleteLocks(t) /\ ~ ShardCompleteUnlocks(t)
  <2>1. /\ \A u \in Senders \ {t} : th'[u] = th[u]
        /\ UNCHANGED <<it_mutex, complete, send_complete>>
        /\ th[t].pc \notin {"totals", "done"} /\ th'[t].pc \notin {"totals", "done"}
    BY <1>1, OwnStep DEF totalVars, stateVars
  <2> QED BY <2>1 DEF CallbackInv
<1>2. CASE ShardCompleteLocks(t)
  <2>1. /\ it_mutex = {} /\ it_mutex' = {t} /\ complete' = complete \cup {t}
        /\ th[t].pc = "callback" /\ UNCHANGED send_complete
    BY <1>2 DEF ShardCompleteLocks, MutexFree, stateVars
  <2>2. \A u \in Senders : th'[u].pc = IF u = t THEN "totals" ELSE th[u].pc
    BY <1>2 DEF ShardCompleteLocks, Thread
  <2> QED BY <2>1, <2>2 DEF CallbackInv
<1>3. CASE ShardCompleteUnlocks(t)
  <2>1. /\ it_mutex' = it_mutex \ {t} /\ UNCHANGED complete /\ th[t].pc = "totals"
        /\ send_complete' => send_complete \/ complete = Senders
    BY <1>3, Zenon DEF ShardCompleteUnlocks, AllComplete
  <2>2. \A u \in Senders : th'[u].pc = IF u = t THEN "done" ELSE th[u].pc
    BY <1>3 DEF ShardCompleteUnlocks, Thread
  <2>3. \A u \in Senders : th[u].pc = "totals" => u = t
    BY <2>1 DEF CallbackInv
  <2>4. it_mutex' = {u \in Senders : th'[u].pc = "totals"} /\ \A u, v \in it_mutex' : u = v
    BY <2>1, <2>2, <2>3 DEF CallbackInv
  <2>5. complete' = {u \in Senders : th'[u].pc \in {"totals", "done"}}
    BY <2>1, <2>2 DEF CallbackInv
  <2>6. send_complete' => \A u \in Senders : th'[u].pc = "done"
    BY <2>1, <2>2, <2>3 DEF CallbackInv
  <2> QED BY <2>4, <2>5, <2>6 DEF CallbackInv
<1> QED BY <1>1, <1>2, <1>3

sendSpecVars == <<sendVars, stateVars>>

(* The next-state relation keeps the invariant: senders step, time passes, *)
(* the receiver stops, or a failed initialisation aborts.                  *)
LEMMA NextThreads ==
  ThreadsInv /\ [SendNext]_sendSpecVars => ThreadsInv'
<1> SUFFICES ASSUME ThreadsInv, [SendNext]_sendSpecVars PROVE ThreadsInv'
  OBVIOUS
<1>1. ASSUME NEW t \in Senders, Create(t) \/ SenderStep(t) PROVE ThreadsInv'
  BY <1>1, SenderKeeps
<1>2. ASSUME NEW t \in Senders, ThreadInitFails(t) PROVE ThreadsInv'
  BY <1>2, ThreadsUnchanged DEF ThreadInitFails, sendVars, totalVars
<1>3. CASE TimeUp
  BY <1>3, ThreadsUnchanged DEF TimeUp, totalVars, stateVars
<1>4. CASE ReceiverStops
  BY <1>4, ThreadsUnchanged DEF ReceiverStops, sendVars, totalVars
<1>5. CASE SendFinished \/ UNCHANGED sendSpecVars
  BY <1>5, ThreadsUnchanged DEF SendFinished, sendSpecVars, sendVars, totalVars, stateVars
<1> QED BY <1>1, <1>2, <1>3, <1>4, <1>5 DEF SendNext

(* Every thread's batch, counters and place in the code fit together, and  *)
(* the scan is complete only when all threads are.                         *)
THEOREM ThreadsInvariant == SendSpec => []ThreadsInv
BY InitThreads, NextThreads, PTL DEF SendSpec, SendAloneInit, sendSpecVars

(* The balance of packets: sent, failed, or still in the batch, whatever   *)
(* the retries and partial sends (send-linux.c:105-128, send.c:468-485).   *)
THEOREM SendAccounting == SendSpec => []Accounting
<1>1. ThreadsInv => Accounting
  BY DEF ThreadsInv, ThreadInv, Accounting, Uncounted, Ended
<1> QED BY <1>1, ThreadsInvariant, PTL

(* Cleanup loses less than one batch from the counts (send.c:521-525).     *)
THEOREM SendLossAtCleanup == SendSpec => []LossAtCleanup
<1>1. ThreadsInv => LossAtCleanup
  BY DEF ThreadsInv, ThreadInv, LossAtCleanup, Ended
<1> QED BY <1>1, ThreadsInvariant, PTL

(* No thread exceeds its share of --max-targets (send.c:399-406).          *)
THEOREM SendWithinMaxTargets == SendSpec => []WithinMaxTargets
<1>1. ThreadsInv => WithinMaxTargets
  BY DEF ThreadsInv, ThreadInv, WithinMaxTargets
<1> QED BY <1>1, ThreadsInvariant, PTL

(* zsend.complete is set only after every thread's last batch has been     *)
(* handed over (iterator.c:45-52).                                         *)
THEOREM SendCompleteMeansFlushed == SendSpec => []CompleteMeansFlushed
<1>1. ThreadsInv => CompleteMeansFlushed
  BY DEF ThreadsInv, ThreadInv, CompleteMeansFlushed, Ended
<1> QED BY <1>1, ThreadsInvariant, PTL

(* The variables of the senders keep their types; that a batch never sends *)
(* more than it holds keeps the failure counts natural numbers.            *)
THEOREM SendTyped == SendSpec => []SendTypeOK
<1>1. StateInit /\ SendInit => SendTypeOK
  <2> SUFFICES ASSUME StateInit, SendInit PROVE SendTypeOK
    OBVIOUS
  <2>1. th \in [Senders -> Thread]
    BY InitThreads DEF ThreadsInv
  <2> QED BY <2>1, Zenon DEF SendTypeOK, StateTypeOK, StateInit, SendInit
<1>2. ThreadsInv /\ ThreadsInv' /\ SendTypeOK /\ [SendNext]_sendSpecVars => SendTypeOK'
  <2> SUFFICES ASSUME ThreadsInv, ThreadsInv', SendTypeOK, [SendNext]_sendSpecVars
               PROVE  SendTypeOK'
    OBVIOUS
  <2>1. th' \in [Senders -> Thread] /\ complete' \subseteq Senders
    BY DEF ThreadsInv
  <2>2. ASSUME NEW t \in Senders, NEW r, Becomes(t, r) PROVE SendTypeOK'
    BY <2>1, <2>2 DEF Becomes, SendTypeOK, StateTypeOK, totalVars, stateVars
  <2>3. ASSUME NEW t \in Senders, Create(t) \/ SenderStep(t),
               ~ ShardCompleteLocks(t), ~ ShardCompleteUnlocks(t)
        PROVE  \E r : Becomes(t, r)
    BY <2>3, Zenon
       DEF SenderStep, Create, ThreadInit, FirstTarget, SearchList, Check, MakeProbe,
           Sendmmsg, SendReturns, NextTarget, SkipUnlisted, FlushReturns
  <2>4. ASSUME NEW t \in Senders, ShardCompleteLocks(t) \/ ShardCompleteUnlocks(t)
        PROVE  SendTypeOK'
    <3>1. th[t].packets_sent \in Nat /\ th[t].packets_failed \in Nat
      BY SMTT(30) DEF SendTypeOK, Thread
    <3>2. CASE ShardCompleteLocks(t)
      BY <2>1, <3>1, <3>2 DEF ShardCompleteLocks, SendTypeOK, StateTypeOK, stateVars
    <3>3. CASE ShardCompleteUnlocks(t)
      <4>1. failures_read[t] \in Nat
        BY DEF SendTypeOK
      <4>2. sendto_failures' \in Nat
        BY <3>1, <3>3, <4>1 DEF ShardCompleteUnlocks
      <4>3. send_complete' \in BOOLEAN
        BY <3>3 DEF ShardCompleteUnlocks
      <4> QED BY <2>1, <3>3, <4>2, <4>3 DEF ShardCompleteUnlocks, SendTypeOK, StateTypeOK
    <3> QED BY <2>4, <3>2, <3>3
  <2>5. ASSUME NEW t \in Senders, ThreadInitFails(t) PROVE SendTypeOK'
    BY <2>1, <2>5 DEF ThreadInitFails, LogFatal, SendTypeOK, StateTypeOK, sendVars, totalVars
  <2>6. CASE TimeUp
    BY <2>1, <2>6 DEF TimeUp, SendTypeOK, StateTypeOK, totalVars, stateVars
  <2>7. CASE ReceiverStops
    BY <2>1, <2>7 DEF ReceiverStops, SendTypeOK, StateTypeOK, sendVars, totalVars
  <2>8. CASE SendFinished \/ UNCHANGED sendSpecVars
    BY <2>1, <2>8 DEF SendFinished, sendSpecVars, SendTypeOK, StateTypeOK, sendVars,
                      totalVars, stateVars
  <2> QED BY <2>2, <2>3, <2>4, <2>5, <2>6, <2>7, <2>8 DEF SendNext
<1> QED BY <1>1, <1>2, ThreadsInvariant, PTL DEF SendSpec, SendAloneInit, sendSpecVars
=============================================================================
