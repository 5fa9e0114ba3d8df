----------------------------- MODULE RecvProofs -----------------------------
(***************************************************************************)
(* Proofs about the receiver, for any packets, in any number and order,    *)
(* any output filter, any limit on the results and any size of the window. *)
(***************************************************************************)
EXTENDS Recv, FiniteSetTheorems, SequenceTheorems, TLAPS

(* The receiver starts with an empty bitmap and no row. *)
LEMMA InitDedup == StateInit /\ RecvInit => DedupInv
<1> SUFFICES ASSUME StateInit, RecvInit PROVE DedupInv
  OBVIOUS
<1>1. /\ conf \in Confs /\ rpc = "none" /\ captured = << >> /\ seen = {} /\ row = NoRow
      /\ stats = [c \in Counters |-> 0] /\ rows = << >> /\ send_complete = FALSE
  BY DEF RecvInit, StateInit
<1>2. IsFiniteSet(seen) /\ Cardinality(seen) = 0
  BY <1>1, FS_EmptySet
<1>3. stats \in [Counters -> Nat] /\ stats["success_unique"] = 0
  BY <1>1 DEF Counters
<1>4. RecvTypeOK
  <2>1. send_complete \in BOOLEAN
    BY <1>1, Zenon
  <2>2. captured \in Seq(Responses) /\ rows \in Seq(Row) /\ row \in Row
    BY <1>1 DEF Row, NoRow
  <2> QED BY <1>1, <1>2, <1>3, <2>1, <2>2 DEF RecvTypeOK
<1>5. DOMAIN rows = {} /\ DOMAIN captured = {}
  BY <1>1
<1>6. Successes = {}
  BY <1>1, <1>5 DEF Successes, Handled
<1>7. BitmapInv
  BY <1>1, <1>2, <1>3, <1>5, <1>6 DEF BitmapInv
<1>8. InHandInv /\ NoDuplicateRows
  BY <1>1, <1>5 DEF InHandInv, NoDuplicateRows
<1> QED BY <1>4, <1>7, <1>8 DEF DedupInv

(* A step that neither captures nor counts a packet keeps it. *)
LEMMA SameDedup ==
  ASSUME DedupInv, UNCHANGED <<conf, captured, seen, row, rows, stats>>,
         rpc = "count" <=> rpc' = "count", send_complete' \in BOOLEAN
  PROVE  DedupInv'
<1>1. RecvTypeOK'
  BY DEF DedupInv, RecvTypeOK
<1>2. AtMaxResults' = AtMaxResults /\ Successes' = Successes
  BY DEF AtMaxResults, Successes, Handled
<1>3. Dedups("FULL") => InHandInv' /\ BitmapInv' /\ NoDuplicateRows'
  BY <1>2 DEF DedupInv, InHandInv, BitmapInv, NoDuplicateRows, Dedups
<1>4. Dedups("FULL")' <=> Dedups("FULL")
  BY DEF Dedups
<1> QED BY <1>1, <1>3, <1>4 DEF DedupInv

(* What counting does to the counters. *)
LEMMA CountAdds ==
  ASSUME stats \in [Counters -> Nat], NEW S, Count(S)
  PROVE  /\ stats' \in [Counters -> Nat]
         /\ \A c \in Counters : stats'[c] = stats[c] + (IF c \in S THEN 1 ELSE 0)
BY DEF Count

(* A packet is captured: dropped, rejected, or accepted and then in hand.  *)
LEMMA CaptureDedup ==
  ASSUME DedupInv, CaptureStep
  PROVE  DedupInv'
<1>1. PICK p \in Responses : Receive(p)
  BY DEF CaptureStep
<1>2. /\ captured \in Seq(Responses) /\ stats \in [Counters -> Nat] /\ Len(captured) \in Nat
      /\ p.ip \in Nat /\ p.port \in Nat /\ p.valid \in BOOLEAN /\ p.success \in BOOLEAN
  BY RecvAssumption DEF DedupInv, RecvTypeOK
<1>3. /\ rpc = "poll" /\ captured' = Append(captured, p)
      /\ UNCHANGED <<conf, seen, rows, send_complete>>
  BY <1>1 DEF Receive, DropPacket, RejectPacket, AcceptPacket, stateVars
<1>4. /\ captured' \in Seq(Responses) /\ Len(captured') = Len(captured) + 1
      /\ \A k \in 1 .. Len(captured) : captured'[k] = captured[k]
      /\ captured'[Len(captured) + 1] = p
      /\ DOMAIN captured' = DOMAIN captured \cup {Len(captured) + 1}
      /\ DOMAIN captured = 1 .. Len(captured)
  <2>1. /\ captured' \in Seq(Responses) /\ Len(captured') = Len(captured) + 1
        /\ \A k \in 1 .. Len(captured) : captured'[k] = captured[k]
        /\ captured'[Len(captured) + 1] = p
    BY <1>2, <1>3, AppendProperties
  <2>2. DOMAIN captured = 1 .. Len(captured) /\ DOMAIN captured' = 1 .. Len(captured')
    BY <1>2, <2>1, LenProperties
  <2> QED BY <1>2, <2>1, <2>2
<1>d. Dedups("FULL")' <=> Dedups("FULL")
  BY <1>3 DEF Dedups
<1>5. NoDuplicateRows => NoDuplicateRows'
  BY <1>3, <1>d DEF NoDuplicateRows
<1>6. CASE DropPacket(p)
  <2>1. rpc' = "poll" /\ UNCHANGED <<row, stats>> /\ AtMaxResults
    BY <1>3, <1>6 DEF DropPacket
  <2>2. RecvTypeOK'
    BY <1>3, <1>4, <2>1 DEF DedupInv, RecvTypeOK
  <2>3. AtMaxResults'
    BY <2>1 DEF AtMaxResults
  <2>4. Dedups("FULL") => InHandInv' /\ BitmapInv'
    BY <1>3, <2>1, <2>3 DEF DedupInv, InHandInv, BitmapInv
  <2> QED BY <1>d, <1>5, <2>2, <2>4 DEF DedupInv
<1>7. ASSUME ~ AtMaxResults, NEW S, Count(S), "success_unique" \notin S, "filter_success" \notin S,
             row' \in Row,
             \/ rpc' = "poll" /\ ~ p.valid
             \/ /\ rpc' = "count" /\ p.valid
                /\ row'.nth = Len(captured) + 1 /\ row'.ip = p.ip /\ row'.success = p.success
                /\ Dedups("FULL") => (row'.repeat <=> p.ip \in seen) /\ row'.src_ip = p.ip
      PROVE  DedupInv'
  <2>1. /\ stats' \in [Counters -> Nat] /\ stats'["success_unique"] = stats["success_unique"]
        /\ stats'["filter_success"] = stats["filter_success"]
    <3>1. {"success_unique", "filter_success"} \subseteq Counters
      BY DEF Counters
    <3> QED BY <1>2, <1>7, <3>1, CountAdds
  <2>2. ~ AtMaxResults'
    BY <1>7, <2>1 DEF AtMaxResults
  <2>3. RecvTypeOK'
    BY <1>3, <1>4, <1>7, <2>1 DEF DedupInv, RecvTypeOK
  <2>4. ASSUME NEW x
        PROVE  x \in {q.ip : q \in Successes'} <=> x \in {q.ip : q \in Successes}
    <3> DEFINE P(k) == captured[k].valid /\ captured[k].success /\ captured[k].ip = x
    <3>1. x \in {q.ip : q \in Successes} <=> \E k \in DOMAIN captured : P(k)
      BY <1>3 DEF Successes, Handled
    <3>2. x \in {q.ip : q \in Successes'} <=>
            \E k \in DOMAIN captured' \ (IF rpc' = "count" THEN {row'.nth} ELSE {}) :
              captured'[k].valid /\ captured'[k].success /\ captured'[k].ip = x
      BY DEF Successes, Handled
    <3>3. \A k \in DOMAIN captured : captured'[k] = captured[k] /\ k # Len(captured) + 1
      BY <1>2, <1>4
    <3>4. CASE rpc' = "poll" /\ ~ p.valid
      BY <1>4, <3>1, <3>2, <3>3, <3>4
    <3>5. CASE rpc' = "count" /\ row'.nth = Len(captured) + 1
      <4>1. DOMAIN captured' \ (IF rpc' = "count" THEN {row'.nth} ELSE {}) = DOMAIN captured
        BY <1>4, <3>3, <3>5
      <4> QED BY <3>1, <3>2, <3>3, <4>1
    <3> QED BY <1>7, <3>4, <3>5
  <2>5. {q.ip : q \in Successes'} = {q.ip : q \in Successes}
    BY <2>4
  <2>6. Dedups("FULL") => BitmapInv'
    BY <1>3, <1>7, <2>1, <2>2, <2>5, Zenon DEF DedupInv, BitmapInv
  <2>7. Dedups("FULL") => InHandInv'
    <3>1. Len(captured') = Len(captured) + 1 /\ Len(captured) + 1 > 0
      BY <1>2, <1>4
    <3> QED BY <1>3, <1>4, <1>7, <2>2, <3>1 DEF InHandInv
  <2> QED BY <1>d, <1>5, <2>3, <2>6, <2>7 DEF DedupInv
<1>8. CASE RejectPacket(p)
  <2>1. row' \in Row
    BY <1>8 DEF RejectPacket, DedupInv, RecvTypeOK
  <2> QED BY <1>3, <1>7, <1>8, <2>1 DEF RejectPacket
<1>9. ASSUME NEW padding \in Paddings, NEW word \in StackWords, AcceptPacket(p, padding, word)
      PROVE  DedupInv'
  <2>1. row' = [ip |-> p.ip, port |-> p.port, src_ip |-> IF conf.ipv6 THEN word ELSE p.ip,
                success |-> p.success, repeat |-> IsRepeat(p, CacheKey(p, padding)),
                cooldown |-> send_complete, nth |-> Len(captured) + 1]
    BY <1>9 DEF AcceptPacket
  <2>2. IsRepeat(p, CacheKey(p, padding)) \in BOOLEAN /\ send_complete \in BOOLEAN
    BY DEF IsRepeat, DedupInv, RecvTypeOK
  <2>3. row' \in Row
    <3>1. (IF conf.ipv6 THEN word ELSE p.ip) \in Nat
      BY <1>2, RecvAssumption
    <3> QED BY <1>2, <2>1, <2>2, <3>1 DEF Row
  <2>4. Dedups("FULL") => (row'.repeat <=> p.ip \in seen) /\ row'.src_ip = p.ip
    BY <2>1 DEF IsRepeat, Dedups
  <2> QED BY <1>7, <1>9, <2>1, <2>3, <2>4 DEF AcceptPacket
<1> QED BY <1>1, <1>6, <1>8, <1>9 DEF Receive

(* The packet in hand is counted: a success whose address was not in the   *)
(* bitmap is entered there, counted once more and, if kept, a new row.     *)
LEMMA CountDedup ==
  ASSUME DedupInv, CountRow
  PROVE  DedupInv'
<1>1. /\ rpc = "count" /\ rpc' = "poll" /\ row' = NoRow
      /\ UNCHANGED <<conf, captured, send_complete>>
      /\ Count(Outcome(row)) /\ seen' = SeenAfter(row)
      /\ rows' = IF Kept(row) THEN Append(rows, row) ELSE rows
  BY DEF CountRow, stateVars
<1>2. /\ captured \in Seq(Responses) /\ stats \in [Counters -> Nat]
      /\ seen \subseteq Nat /\ IsFiniteSet(seen) /\ row \in Row /\ rows \in Seq(Row)
      /\ Len(rows) \in Nat
  BY DEF DedupInv, RecvTypeOK
<1>3. /\ rows' \in Seq(Row)
      /\ \A i \in DOMAIN rows : i \in DOMAIN rows' /\ rows'[i] = rows[i]
      /\ \A i \in DOMAIN rows' : i \in DOMAIN rows \/ (i = Len(rows) + 1 /\ rows'[i] = row)
  <2>1. CASE ~ Kept(row)
    BY <1>1, <1>2, <2>1
  <2>2. CASE Kept(row)
    <3>1. rows' = Append(rows, row)
      BY <1>1, <2>2
    <3>2. /\ rows' \in Seq(Row) /\ Len(rows') = Len(rows) + 1
          /\ \A i \in 1 .. Len(rows) : rows'[i] = rows[i]
          /\ rows'[Len(rows) + 1] = row
      BY <1>2, <3>1, AppendProperties
    <3>3. DOMAIN rows = 1 .. Len(rows) /\ DOMAIN rows' = 1 .. Len(rows')
      BY <1>2, <3>2, LenProperties
    <3> QED BY <1>2, <3>2, <3>3
  <2> QED BY <2>1, <2>2
<1>4. /\ stats' \in [Counters -> Nat]
      /\ stats'["success_unique"] = stats["success_unique"] + (IF row.success /\ ~ row.repeat THEN 1 ELSE 0)
  <2>1. "success_unique" \in Counters
    BY DEF Counters
  <2>2. "success_unique" \in Outcome(row) <=> row.success /\ ~ row.repeat
    BY <2>1 DEF Outcome
  <2> QED BY <1>1, <1>2, <2>1, <2>2, CountAdds
<1>5. row.src_ip \in Nat /\ NoRow \in Row
  BY <1>2 DEF Row, NoRow
<1>6. /\ seen' = IF conf.dedup_method = "FULL" /\ row.success /\ ~ row.repeat
                 THEN seen \cup {row.src_ip} ELSE seen
      /\ seen' \subseteq Nat /\ IsFiniteSet(seen')
  BY <1>1, <1>2, <1>5, FS_AddElement, Zenon DEF SeenAfter
<1>7. RecvTypeOK'
  BY <1>1, <1>2, <1>3, <1>4, <1>5, <1>6 DEF DedupInv, RecvTypeOK
<1>8. ASSUME Dedups("FULL") PROVE InHandInv' /\ BitmapInv' /\ NoDuplicateRows'
  <2>1. /\ ~ AtMaxResults /\ row.nth = Len(captured) /\ row.nth > 0 /\ captured[row.nth].valid
        /\ row.ip = captured[row.nth].ip /\ row.success = captured[row.nth].success
        /\ row.src_ip = row.ip
        /\ row.repeat <=> row.ip \in seen
        /\ BitmapInv /\ NoDuplicateRows
    BY <1>1, <1>8 DEF DedupInv, InHandInv
  <2>2. seen' = IF row.success THEN seen \cup {row.ip} ELSE seen
    BY <1>6, <1>8, <2>1, Zenon DEF Dedups
  <2>3. stats'["success_unique"] = Cardinality(seen')
    <3>1. stats["success_unique"] = Cardinality(seen)
      BY <2>1 DEF BitmapInv
    <3>2. CASE row.success /\ ~ row.repeat
      <4>1. row.ip \notin seen /\ seen' = seen \cup {row.ip}
        BY <2>1, <2>2, <3>2
      <4>2. Cardinality(seen') = Cardinality(seen) + 1
        BY <1>2, <4>1, FS_AddElement, Zenon
      <4> QED BY <1>4, <3>1, <3>2, <4>2
    <3>3. CASE ~ (row.success /\ ~ row.repeat)
      <4>1. seen' = seen
        BY <1>6, <3>3, Zenon
      <4>2. stats'["success_unique"] = stats["success_unique"] + 0
        BY <1>4, <3>3
      <4>3. stats["success_unique"] \in Nat
        BY <1>2 DEF Counters
      <4> QED BY <3>1, <4>1, <4>2, <4>3
    <3> QED BY <3>2, <3>3
  <2>4. seen' = {q.ip : q \in Successes'}
    <3>1. ASSUME NEW x PROVE x \in seen' <=> x \in {q.ip : q \in Successes'}
      <4> DEFINE P(k) == captured[k].valid /\ captured[k].success /\ captured[k].ip = x
      <4>1. x \in {q.ip : q \in Successes} <=> \E k \in DOMAIN captured \ {row.nth} : P(k)
        BY <1>1 DEF Successes, Handled
      <4>2. x \in {q.ip : q \in Successes'} <=> \E k \in DOMAIN captured : P(k)
        BY <1>1 DEF Successes, Handled
      <4>3. x \in seen <=> \E k \in DOMAIN captured \ {row.nth} : P(k)
        BY <2>1, <4>1 DEF BitmapInv
      <4>4. row.nth \in DOMAIN captured /\ (P(row.nth) <=> row.success /\ x = row.ip)
        <5>1. DOMAIN captured = 1 .. Len(captured) /\ Len(captured) \in Nat
          BY <1>2, LenProperties
        <5> QED BY <2>1, <5>1
      <4>5. x \in seen' <=> x \in seen \/ (row.success /\ x = row.ip)
        BY <2>2
      <4> HIDE DEF P
      <4> QED BY <4>2, <4>3, <4>4, <4>5
    <3> QED BY <3>1
  <2>5. \A i \in DOMAIN rows' : rows'[i].success /\ ~ rows'[i].repeat => rows'[i].ip \in seen'
    BY <1>3, <2>1, <2>2 DEF BitmapInv
  <2>6. NoDuplicateRows'
    <3> SUFFICES ASSUME NEW i \in DOMAIN rows', NEW j \in DOMAIN rows',
                        rows'[i].success, ~ rows'[i].repeat, rows'[j].success, ~ rows'[j].repeat,
                        rows'[i].ip = rows'[j].ip
                 PROVE  i = j
      BY DEF NoDuplicateRows
    <3>1. CASE i \in DOMAIN rows /\ j \in DOMAIN rows
      BY <1>3, <1>8, <2>1, <3>1 DEF NoDuplicateRows
    <3>2. ASSUME NEW m \in DOMAIN rows, rows[m].success, ~ rows[m].repeat, rows[m].ip = row.ip,
                 ~ row.repeat
          PROVE  FALSE
      BY <2>1, <3>2 DEF BitmapInv
    <3>3. CASE i \notin DOMAIN rows /\ j \in DOMAIN rows
      BY <1>3, <3>2, <3>3
    <3>4. CASE i \in DOMAIN rows /\ j \notin DOMAIN rows
      BY <1>3, <3>2, <3>4
    <3>5. CASE i \notin DOMAIN rows /\ j \notin DOMAIN rows
      BY <1>3, <3>5
    <3> QED BY <3>1, <3>3, <3>4, <3>5
  <2>7. InHandInv'
    BY <1>1 DEF InHandInv
  <2> QED BY <2>3, <2>4, <2>5, <2>6, <2>7 DEF BitmapInv
<1>9. Dedups("FULL")' <=> Dedups("FULL")
  BY <1>1 DEF Dedups
<1> QED BY <1>7, <1>8, <1>9 DEF DedupInv

(* The receiver's own steps. *)
LEMMA ReceiverDedup ==
  ASSUME DedupInv, ReceiverStep
  PROVE  DedupInv'
<1>0. send_complete \in BOOLEAN
  BY DEF DedupInv, RecvTypeOK
<1>1. CASE CountRow
  BY <1>1, CountDedup
<1>2. CASE OpenCapture \/ AnnounceReady \/ LeaveLoop \/ FinalStats \/ CloseCapture \/ CompleteRecv
  <2>1. /\ UNCHANGED <<conf, captured, seen, row, rows, stats, send_complete>>
        /\ rpc # "count" /\ rpc' # "count"
    BY <1>2 DEF OpenCapture, AnnounceReady, LeaveLoop, FinalStats, CloseCapture, CompleteRecv, stateVars
  <2> QED BY <1>0, <2>1, SameDedup
<1> QED BY <1>1, <1>2 DEF ReceiverStep

(* A receiver by itself keeps the invariant: the rest of its steps touch   *)
(* nothing of it.                                                          *)
LEMMA RecvStepDedup ==
  ASSUME DedupInv, RecvNext
  PROVE  DedupInv'
<1>0. send_complete \in BOOLEAN
  BY DEF DedupInv, RecvTypeOK
<1>1. CASE CreateReceiver
  BY <1>0, <1>1, SameDedup DEF CreateReceiver, stateVars
<1>2. CASE ReceiverFails
  BY <1>0, <1>2, SameDedup DEF ReceiverFails, OpenCaptureFails, CaptureFails, recvVars
<1>3. CASE CoolDown
  BY <1>0, <1>3, SameDedup DEF CoolDown, stateVars
<1>4. CASE SendersComplete
  BY <1>4, SameDedup DEF SendersComplete, recvVars
<1>5. CASE RecvFinished
  BY <1>0, <1>5, SameDedup DEF RecvFinished, recvVars, stateVars
<1> QED BY <1>1, <1>2, <1>3, <1>4, <1>5, ReceiverDedup, CaptureDedup DEF RecvNext

(* The invariant of full deduplication holds throughout: over IPv4 the     *)
(* bitmap has the addresses of the successes handled, each counted once.   *)
THEOREM RecvDedupInvariant == RecvSpec => []DedupInv
<1>1. DedupInv /\ [RecvNext]_<<recvVars, stateVars>> => DedupInv'
  <2> SUFFICES ASSUME DedupInv, [RecvNext]_<<recvVars, stateVars>> PROVE DedupInv'
    OBVIOUS
  <2>1. CASE UNCHANGED <<recvVars, stateVars>>
    <3>1. send_complete' \in BOOLEAN
      BY <2>1 DEF DedupInv, RecvTypeOK, stateVars
    <3> QED BY <2>1, <3>1, SameDedup DEF recvVars
  <2> QED BY <2>1, RecvStepDedup
<1> QED BY <1>1, InitDedup, PTL DEF RecvSpec, RecvAloneInit

(* "Guarantees that no duplicates will be emitted" (zmap.1.ronn:205-206):  *)
(* with full deduplication over IPv4 handle_packet gives no address to the *)
(* output module twice as a success that is no repeat.                     *)
THEOREM RecvNoDuplicateRows == RecvSpec => []NoDuplicateRows
<1>1. DedupInv => NoDuplicateRows
  BY DEF DedupInv, NoDuplicateRows
<1> QED BY <1>1, RecvDedupInvariant, PTL

(* With full deduplication over IPv4 success_unique is the number of       *)
(* addresses that sent a valid success, until the limit on the results is  *)
(* reached (state.h:187-188).                                              *)
THEOREM RecvUniqueIsUnique == RecvSpec => []UniqueIsUnique
<1>1. DedupInv => UniqueIsUnique
  BY DEF DedupInv, BitmapInv, UniqueIsUnique
<1> QED BY <1>1, RecvDedupInvariant, PTL
=============================================================================
