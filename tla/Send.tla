-------------------------------- MODULE Send --------------------------------
(***************************************************************************)
(* The sender threads (src/src/send.c, src/src/send-linux.c) and the       *)
(* completion callback of the iterator (src/src/iterator.c).               *)
(*                                                                         *)
(* Each thread walks its subshard and probes every target with             *)
(* PacketStreams packets, collected in batches.  What the subshard yields  *)
(* is a constant here, the sequence Walk[t]: modules Shard and Ziterate    *)
(* say how it comes about.  Addresses and ports are positive numbers; 0 is *)
(* what the code's variables hold before they are set, and after the end.  *)
(***************************************************************************)
EXTENDS State

CONSTANTS
  Senders,        \* the sender threads
  Walk,           \* Walk[t]: the targets <<ip, port>> of thread t, in order
  MaxTargets,     \* MaxTargets[t]: shard->state.max_targets; 0 is no limit
  PacketStreams,  \* zconf.packet_streams, --probes
  Batch,          \* zconf.batch
  Retries,        \* zconf.retries
  UseList,        \* whether --list-of-ips-file was given
  ListOfIps,      \* zsend.list_of_ips_pbm, as a set of addresses
  MaxRuntime,     \* whether --max-runtime was given
  Dryrun          \* zconf.dryrun

Ips      == Nat \ {0}
Attempts == Retries + 1

ASSUME SendAssumption ==
  /\ IsFiniteSet(Senders) /\ Senders # {}
  /\ Walk \in [Senders -> Seq(Ips \X Ips)]
  /\ MaxTargets \in [Senders -> Nat]
  /\ PacketStreams \in Nat \ {0} /\ Batch \in Nat \ {0} /\ Retries \in Nat
  /\ UseList \in BOOLEAN /\ ListOfIps \subseteq Ips
  /\ MaxRuntime \in BOOLEAN /\ Dryrun \in BOOLEAN

VARIABLES
  th,               \* the state of each sender thread and of its subshard
  time_up,          \* zconf.max_runtime <= now() - zsend.start
  complete,         \* it->complete, as the set of threads
  it_mutex,         \* the holders of it->mutex
  total_sent,       \* zsend.packets_sent
  sendto_failures,  \* zsend.sendto_failures
  failures_read     \* sendto_failures as each thread reads it in its +=

totalVars == <<complete, it_mutex, total_sent, sendto_failures, failures_read>>
sendVars  == <<th, totalVars, time_up>>

(* Before the thread is created; the initialisation under send_mutex; the  *)
(* first target; the initial search of the list; the checks at the head of *)
(* the loop; the loop over the streams; send_batch called from it; the     *)
(* next target; the search of the list; send_batch called at cleanup; the  *)
(* two halves of shard_complete; returned.                                 *)
SPC == {"none", "init", "first", "search", "check", "probe", "send", "next",
        "skip", "flush", "callback", "totals", "done"}

(* A packet of a batch: target address and port, and stream number. *)
Packets == Nat \X Nat \X Nat

Thread ==
  [pc              : SPC,
   pos             : Nat \ {0},      \* the subshard's position in Walk[t]
   ip              : Nat,            \* current_ip
   port            : Nat,            \* current_port
   stream          : Nat,            \* the loop variable i over the streams
   batch           : Seq(Packets),   \* batch->packets, batch->len of them
   attempt         : Nat,            \* sendmmsg calls made for this batch
   vec             : Nat,            \* total_packets_sent of send_batch
   wire            : Seq(Packets),   \* packets the network took, or printed
   packets_sent    : Nat,            \* shard->state.packets_sent
   targets_scanned : Nat,            \* shard->state.targets_scanned
   packets_failed  : Nat]            \* shard->state.packets_failed

SendInit ==
  /\ th = [t \in Senders |->
             [pc |-> "none", pos |-> 1, ip |-> 0, port |-> 0, stream |-> 0,
              batch |-> <<>>, attempt |-> 0, vec |-> 0, wire |-> <<>>,
              packets_sent |-> 0, targets_scanned |-> 0, packets_failed |-> 0]]
  /\ time_up = FALSE
  /\ complete = {} /\ it_mutex = {}
  /\ total_sent = 0 /\ sendto_failures = 0
  /\ failures_read = [t \in Senders |-> 0]
-----------------------------------------------------------------------------
(* Thread t goes on with record r, changing nothing that is shared. *)
Becomes(t, r) ==
  /\ th' = [th EXCEPT ![t] = r]
  /\ UNCHANGED <<totalVars, time_up, stateVars>>

(* ZMAP_SHARD_DONE: the subshard has no target at position p. *)
Depleted(t, p) == p > Len(Walk[t])

(* The target at position p; at the end, ip and port are 0. *)
TargetAt(t, p) == IF Depleted(t, p) THEN <<0, 0>> ELSE Walk[t][p]

Listed(ip) == ip \in ListOfIps

(* The initialisation under send_mutex.  It may fail: start_send or        *)
(* send_run then call log_fatal.                                           *)
ThreadInit(t) ==
  /\ th[t].pc = "init"
  /\ Becomes(t, [th[t] EXCEPT !.pc = "first"])

ThreadInitFails(t) ==
  /\ th[t].pc = "init"
  /\ LogFatal
  /\ UNCHANGED <<sendVars, send_complete, recv_complete>>

(* current = shard_get_cur_target(s): the target stays in current, and     *)
(* current_ip and current_port keep the 0 they were initialised with.      *)
FirstTarget(t) ==
  /\ th[t].pc = "first"
  /\ Becomes(t, [th[t] EXCEPT !.pc = IF UseList THEN "search" ELSE "check"])

(* One round of the loop that looks for the first listed address. *)
SearchList(t) ==
  LET next == th[t].pos + 1
  IN  /\ th[t].pc = "search"
      /\ IF Listed(th[t].ip)
         THEN Becomes(t, [th[t] EXCEPT !.pc = "check"])
         ELSE Becomes(t, [th[t] EXCEPT
                !.pc   = IF Depleted(t, next) THEN "flush" ELSE @,
                !.pos  = next,
                !.ip   = TargetAt(t, next)[1],
                !.port = TargetAt(t, next)[2]])

(* Mutant: one target more than the share. *)
MustStop_OneMore(t) ==
  \/ recv_complete
  \/ time_up
  \/ MaxTargets[t] # 0 /\ th[t].targets_scanned > MaxTargets[t]
  \/ Depleted(t, th[t].pos)

(* The checks at the head of the loop.  The one on max_packets never fires *)
(* (nothing in the program sets it).                                       *)
MustStop(t) ==
  \/ recv_complete
  \/ time_up
  \/ MaxTargets[t] # 0 /\ th[t].targets_scanned >= MaxTargets[t]
  \/ Depleted(t, th[t].pos)

(* The delay before the checks takes time and changes nothing else.        *)
Check(t) ==
  /\ th[t].pc = "check"
  /\ Becomes(t, [th[t] EXCEPT !.pc = IF MustStop(t) THEN "flush" ELSE "probe",
                              !.stream = 0])

(* Mutant: one stream too few. *)
Counted_OneLess(r) ==
  [r EXCEPT !.pc = IF r.stream + 2 >= PacketStreams THEN "next" ELSE "probe",
            !.stream = @ + 1,
            !.packets_sent = @ + 1,
            !.targets_scanned = @ + 1]

(* The end of a round of the loop over the streams: the packet is counted  *)
(* whether or not it was sent, and after the last stream the target is.    *)
Counted(r) ==
  LET last == r.stream + 1 = PacketStreams
  IN  [r EXCEPT !.pc = IF last THEN "next" ELSE "probe",
                !.stream = @ + 1,
                !.packets_sent = @ + 1,
                !.targets_scanned = IF last THEN @ + 1 ELSE @]

(* make_packet puts a probe in the batch.  A full batch is sent.  A packet *)
(* longer than MAX_PACKET_SIZE is fatal: its length is known in module     *)
(* Probes.                                                                 *)
MakeProbe(t) ==
  LET filled == [th[t] EXCEPT !.batch = Append(@, <<th[t].ip, th[t].port, th[t].stream>>)]
  IN  /\ th[t].pc = "probe"
      /\ Becomes(t, IF Len(filled.batch) = Batch
                    THEN [filled EXCEPT !.pc = "send"]
                    ELSE Counted(filled))

(* Mutant: a retry starts again at the head of the batch. *)
Unsent_FromStart(r, n) == SubSeq(r.batch, 1, n)

(* The first n packets from current_msg_vec on: those not sent before. *)
Unsent(r, n) == SubSeq(r.batch, r.vec + 1, r.vec + n)

(* One sendmmsg call: the network takes the first rv packets of those not  *)
(* yet sent; rv = 0 stands for an error return, which takes none.          *)
Sendmmsg(t, rv) ==
  LET r == th[t]
  IN  /\ ~ Dryrun /\ r.pc \in {"send", "flush"}
      /\ r.attempt < Attempts /\ r.vec < Len(r.batch)
      /\ rv \in 0 .. Len(r.batch) - r.vec
      /\ Becomes(t, [r EXCEPT !.attempt = @ + 1, !.vec = @ + rv,
                              !.wire = @ \o Unsent(r, rv)])

(* send_batch has returned: all sent, or the attempts used up.  A dry run  *)
(* prints the whole batch, under the lock of stdout.                       *)
BatchOver(r) ==
  Dryrun \/ r.attempt = Attempts \/ r.vec = Len(r.batch)

Emptied(r) ==
  [r EXCEPT !.batch = <<>>, !.attempt = 0, !.vec = 0,
            !.wire = IF Dryrun THEN @ \o r.batch ELSE @]

(* Mutant: the packets that were not sent are not counted as failed. *)
FailedIn_None(r) == 0

(* batch->len - rc; a dry run has no failures. *)
FailedIn(r) == IF Dryrun THEN 0 ELSE Len(r.batch) - r.vec

(* After send_batch in the loop: the packets not sent have failed. *)
SendReturns(t) ==
  LET r == th[t]
  IN  /\ r.pc = "send" /\ BatchOver(r)
      /\ Becomes(t, Counted([Emptied(r) EXCEPT !.packets_failed = @ + FailedIn(r)]))

(* The next target; the end of the subshard shows at the next check. *)
NextTarget(t) ==
  LET next == th[t].pos + 1
  IN  /\ th[t].pc = "next"
      /\ Becomes(t, [th[t] EXCEPT
           !.pc   = IF UseList /\ ~ Depleted(t, next) THEN "skip" ELSE "check",
           !.pos  = next,
           !.ip   = TargetAt(t, next)[1],
           !.port = TargetAt(t, next)[2]])

(* One round of the loop that looks for the next listed address.  It moves *)
(* current_ip and leaves current_port.                                     *)
SkipUnlisted(t) ==
  LET next == th[t].pos + 1
  IN  /\ th[t].pc = "skip"
      /\ IF Listed(th[t].ip)
         THEN Becomes(t, [th[t] EXCEPT !.pc = "check"])
         ELSE Becomes(t, [th[t] EXCEPT
                !.pc  = IF Depleted(t, next) THEN "flush" ELSE @,
                !.pos = next,
                !.ip  = TargetAt(t, next)[1]])

(* Cleanup: after the last send_batch nothing is counted as failed. *)
FlushReturns(t) ==
  /\ th[t].pc = "flush" /\ BatchOver(th[t])
  /\ Becomes(t, [Emptied(th[t]) EXCEPT !.pc = "callback"])

MutexFree == it_mutex = {}

(* shard_complete, under it->mutex.  The monitor writes sendto_failures    *)
(* without that lock, so the read and the write of the += are two steps.   *)
ShardCompleteLocks(t) ==
  /\ th[t].pc = "callback" /\ MutexFree
  /\ it_mutex' = it_mutex \cup {t}
  /\ complete' = complete \cup {t}
  /\ total_sent' = total_sent + th[t].packets_sent
  /\ th' = [th EXCEPT ![t] = [@ EXCEPT !.pc = "totals"]]
  /\ failures_read' = [failures_read EXCEPT ![t] = sendto_failures]
  /\ UNCHANGED <<sendto_failures, time_up, stateVars>>

(* Mutant: the first thread to finish completes the scan. *)
AllComplete_Any == complete # {}

(* done: every it->complete[i] is set. *)
AllComplete == complete = Senders

ShardCompleteUnlocks(t) ==
  /\ th[t].pc = "totals"
  /\ sendto_failures' = failures_read[t] + th[t].packets_failed
  /\ send_complete' = (send_complete \/ AllComplete)
  /\ it_mutex' = it_mutex \ {t}
  /\ th' = [th EXCEPT ![t] = [@ EXCEPT !.pc = "done"]]
  /\ UNCHANGED <<complete, total_sent, failures_read, time_up, proc, recv_complete>>

(* A step of sender thread t that does not end in log_fatal. *)
SenderStep(t) ==
  \/ ThreadInit(t)
  \/ FirstTarget(t) \/ SearchList(t)
  \/ Check(t) \/ MakeProbe(t)
  \/ \E rv \in 0 .. Batch : Sendmmsg(t, rv)
  \/ SendReturns(t) \/ NextTarget(t) \/ SkipUnlisted(t)
  \/ FlushReturns(t) \/ ShardCompleteLocks(t) \/ ShardCompleteUnlocks(t)

(* pthread_create in start_zmap. *)
Create(t) ==
  /\ th[t].pc = "none"
  /\ Becomes(t, [th[t] EXCEPT !.pc = "init"])

(* --max-runtime has passed. *)
TimeUp ==
  /\ MaxRuntime /\ ~ time_up
  /\ time_up' = TRUE
  /\ UNCHANGED <<th, totalVars, stateVars>>
-----------------------------------------------------------------------------
(* The senders by themselves: the receiver may stop at any moment (it has  *)
(* all the results it was asked for).  Module Scan has the other threads.  *)
ReceiverStops ==
  /\ ~ recv_complete /\ recv_complete' = TRUE
  /\ UNCHANGED <<sendVars, proc, send_complete>>

SendFinished ==
  /\ proc # "running" \/ \A t \in Senders : th[t].pc = "done"
  /\ UNCHANGED <<sendVars, stateVars>>

SendNext ==
  \/ /\ proc = "running"
     /\ \/ \E t \in Senders : Create(t) \/ SenderStep(t) \/ ThreadInitFails(t)
        \/ TimeUp \/ ReceiverStops
  \/ SendFinished

(* The threads are created and go on running. *)
SendFairness == \A t \in Senders :
  WF_<<sendVars, stateVars>>(proc = "running" /\ (Create(t) \/ SenderStep(t)))

SendAloneInit == StateInit /\ SendInit

SendSpec ==
  /\ SendAloneInit
  /\ [][SendNext]_<<sendVars, stateVars>>
  /\ SendFairness
-----------------------------------------------------------------------------
SendTypeOK ==
  /\ StateTypeOK
  /\ th \in [Senders -> Thread]
  /\ time_up \in BOOLEAN
  /\ complete \subseteq Senders /\ it_mutex \subseteq Senders
  /\ total_sent \in Nat /\ sendto_failures \in Nat
  /\ failures_read \in [Senders -> Nat]

(* Every packet counted in packets_sent was taken by the network, counted  *)
(* in packets_failed, or is still in the batch: no path through send_batch *)
(* with its retries and partial sends (send-linux.c:105-128) and the       *)
(* counting of send.c:468-485 loses a packet or counts it twice.  The      *)
(* packet that filled the batch is counted only after the batch is sent.   *)
(* It holds until cleanup empties the last batch, whose failures go        *)
(* uncounted.                                                              *)
Accounting ==
  \A t \in Senders :
    LET r == th[t]
        uncounted == IF r.pc = "send" THEN 1 ELSE 0
    IN  r.pc \notin {"callback", "totals", "done"} =>
          r.packets_sent + uncounted
            = Len(r.wire) + r.packets_failed + Len(r.batch) - r.vec

(* What cleanup may leave out of the count is less than one batch.         *)
LossAtCleanup ==
  \A t \in Senders :
    LET r == th[t]
        lost == r.packets_sent - Len(r.wire) - r.packets_failed
    IN  r.pc \in {"callback", "totals", "done"} => lost \in 0 .. Batch - 1

(* No probe goes out twice: a retry of send_batch resumes after the        *)
(* packets the network took, and an emptied batch is not sent again.       *)
NoProbeTwice ==
  \A t \in Senders : \A i, j \in DOMAIN th[t].wire :
    th[t].wire[i] = th[t].wire[j] => i = j

(* No thread probes more targets than its share of --max-targets           *)
(* (send.c:399-406).                                                       *)
WithinMaxTargets ==
  \A t \in Senders : MaxTargets[t] # 0 => th[t].targets_scanned <= MaxTargets[t]

(* zsend.complete is set (iterator.c:45-52) only when every thread has     *)
(* handed its last batch to the network: the cooldown of the receiver      *)
(* starts after the last probe.                                            *)
CompleteMeansFlushed ==
  send_complete => \A t \in Senders :
    th[t].pc \in {"totals", "done"} /\ th[t].batch = <<>>

(* A thread that ran to the end of its subshard probed every target but    *)
(* the first with every stream, unless the network refused some packets:   *)
(* batching and the skipping of unlisted addresses lose none.              *)
RestProbed ==
  \A t \in Senders :
    LET r == th[t]
        whole == Depleted(t, r.pos) /\ r.packets_failed = 0 /\ Len(r.wire) = r.packets_sent
    IN  r.pc = "done" /\ whole =>
          \A p \in 2 .. Len(Walk[t]), s \in 0 .. PacketStreams - 1 :
            ~ UseList \/ Listed(Walk[t][p][1]) =>
              \E i \in DOMAIN r.wire : r.wire[i] = <<Walk[t][p][1], Walk[t][p][2], s>>

(* cyclic.c:11-12: "we connect to every host once in a scan execution".    *)
(* A thread that comes to the end of its subshard, with no packet lost,    *)
(* has probed every target of it.                                          *)
EveryTargetProbed ==
  \A t \in Senders :
    LET r == th[t]
    IN  r.pc = "done" /\ Depleted(t, r.pos) /\ Len(r.wire) = r.packets_sent =>
          \A p \in 1 .. Len(Walk[t]) :
            \E i \in DOMAIN r.wire : <<r.wire[i][1], r.wire[i][2]>> = Walk[t][p]
-----------------------------------------------------------------------------
(* The inductive invariant behind the proofs of module SendProofs.  What   *)
(* holds of the record r of thread t: how far the batch is filled and sent *)
(* at every place, and where its packets are accounted for.                *)
Ended == {"callback", "totals", "done"}

Uncounted(r) == IF r.pc = "send" THEN 1 ELSE 0

ThreadInv(t, r) ==
  /\ r \in Thread
  /\ r.vec <= Len(r.batch)
  /\ r.pc \notin {"send", "flush"} \/ Dryrun => r.vec = 0
  /\ IF r.pc = "send" THEN Len(r.batch) = Batch ELSE Len(r.batch) < Batch
  /\ r.pc \in Ended => r.batch = <<>>
  /\ MaxTargets[t] # 0 =>
       /\ r.targets_scanned <= MaxTargets[t]
       /\ r.pc \in {"probe", "send"} => r.targets_scanned < MaxTargets[t]
  /\ r.pc \notin Ended =>
       r.packets_sent + Uncounted(r) = Len(r.wire) + r.packets_failed + Len(r.batch) - r.vec
  /\ r.pc \in Ended =>
       r.packets_sent - Len(r.wire) - r.packets_failed \in 0 .. Batch - 1

(* Of all threads, and of the way they complete the scan.                  *)
ThreadsInv ==
  /\ th \in [Senders -> Thread]
  /\ \A t \in Senders : ThreadInv(t, th[t])
  /\ complete \subseteq Senders
  /\ \A t \in complete : th[t].pc \in {"totals", "done"}
  /\ send_complete => complete = Senders

(* At most one thread is in shard_complete, and the last one to leave it   *)
(* sets zsend.complete: from then on no thread does anything.              *)
CallbackInv ==
  /\ it_mutex = {t \in Senders : th[t].pc = "totals"}
  /\ \A t, u \in it_mutex : t = u
  /\ complete = {t \in Senders : th[t].pc \in {"totals", "done"}}
  /\ send_complete => \A t \in Senders : th[t].pc = "done"

(* What the next two invariants need of the constants: a subshard yields   *)
(* no target twice and, with a list of addresses, all on one port, since   *)
(* the search of the list leaves current_port as it is.                    *)
DistinctTargets ==
  \A t \in Senders : \A p, q \in 1 .. Len(Walk[t]) : Walk[t][p] = Walk[t][q] => p = q

OnePort ==
  UseList => \A t \in Senders : \A p, q \in 1 .. Len(Walk[t]) : Walk[t][p][2] = Walk[t][q][2]

(* The target that is probed at position p: the first one as address 0.    *)
Probed(t, p) == IF p = 1 THEN <<0, 0>> ELSE Walk[t][p]

Probe(t, p, s) == <<Probed(t, p)[1], Probed(t, p)[2], s>>

(* How many streams of the target at its position a thread has made, and   *)
(* whether it has made the probe of position p and stream s.               *)
Streams(r) ==
  CASE r.pc = "probe" -> r.stream
    [] r.pc = "send"  -> r.stream + 1
    [] r.pc = "next"  -> PacketStreams
    [] OTHER          -> 0

Made(r, p, s) == p < r.pos \/ (p = r.pos /\ s < Streams(r))

(* The record r of thread t stands at a target, with its address and port, *)
(* unless the walk is over.                                                *)
AtTarget(t, r) ==
  /\ r.pc \in {"none", "init", "first"} => r.pos = 1
  /\ r.pc \in {"search", "skip"} => UseList
  /\ r.pc = "skip" => r.pos > 1
  /\ r.pc \in {"probe", "send"} => r.stream < PacketStreams
  /\ r.pc \in {"probe", "send", "next"} => ~ Depleted(t, r.pos)
  /\ r.pc \notin Ended \cup {"flush"} /\ ~ Depleted(t, r.pos) =>
       r.ip = Probed(t, r.pos)[1] /\ r.port = Probed(t, r.pos)[2]

(* The packets sent and those waiting in the batch are probes made before, *)
(* no two of them the same.                                                *)
IsMade(t, r, x) ==
  \E p \in 1 .. Len(Walk[t]), s \in 0 .. PacketStreams - 1 : Made(r, p, s) /\ x = Probe(t, p, s)

OrderInv(t, r) ==
  /\ \A i \in DOMAIN r.wire : IsMade(t, r, r.wire[i])
  /\ \A i \in DOMAIN r.batch : IsMade(t, r, r.batch[i])
  /\ \A i, j \in DOMAIN r.wire : r.wire[i] = r.wire[j] => i = j
  /\ \A i, j \in DOMAIN r.batch : r.batch[i] = r.batch[j] => i = j
  /\ \A i \in DOMAIN r.wire, j \in DOMAIN r.batch : j > r.vec => r.wire[i] # r.batch[j]

(* Every probe made and not failed is sent or waiting in the batch, as     *)
(* long as cleanup has lost none.                                          *)
Due(t, p) == ~ UseList \/ Listed(Walk[t][p][1])

Whole(r) == r.packets_failed = 0 /\ (r.pc \in Ended => Len(r.wire) = r.packets_sent)

CoverInv(t, r) ==
  Whole(r) =>
    \A p \in 2 .. Len(Walk[t]), s \in 0 .. PacketStreams - 1 :
      Due(t, p) /\ Made(r, p, s) =>
        \/ \E i \in DOMAIN r.wire : r.wire[i] = Probe(t, p, s)
        \/ \E j \in DOMAIN r.batch : j > r.vec /\ r.batch[j] = Probe(t, p, s)

ProbesInv == \A t \in Senders : AtTarget(t, th[t]) /\ OrderInv(t, th[t]) /\ CoverInv(t, th[t])
=============================================================================
