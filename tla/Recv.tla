-------------------------------- MODULE Recv --------------------------------
(***************************************************************************)
(* The receiver thread (src/src/recv.c, src/src/recv-pcap.c): it opens the *)
(* capture, tells main that it is ready, handles packets until the scan is *)
(* over and closes the capture.                                            *)
(*                                                                         *)
(* A captured packet is abstracted to what handle_packet finds out about   *)
(* it: whether it is too short for an IP header, the source port and the   *)
(* source address (over IPv4 as validate_packet leaves it), whether        *)
(* validate_packet accepts it, and whether the probe module classifies it  *)
(* as a success.                                                           *)
(***************************************************************************)
EXTENDS State, SequencesExt, CacheHash

CONSTANTS
  Responses,     \* the packets that may be captured
  MaxCaptured,   \* bound on the number of packets captured
  Confs,         \* the choices of options: see Conf
  WindowSize,    \* zconf.dedup_window_size
  Paddings,      \* what the padding byte of a target_t may hold
  StackWords,    \* what the variable src_ip may hold before it is assigned
  FilterKeeps,   \* zconf.filter.expression: the <<success, repeat>> it keeps
  MaxResults     \* zconf.max_results; 0 means no limit

(* The fields of zconf that differ from behaviour to behaviour; quiet      *)
(* means quiet and without a file for status updates, ipv6 that there is a *)
(* file of IPv6 targets.                                                   *)
Conf == [dedup_method : {"NONE", "FULL", "WINDOW"}, default_mode : BOOLEAN, quiet : BOOLEAN,
         ipv6 : BOOLEAN]

ASSUME RecvAssumption ==
  /\ Responses \subseteq [ip : Nat, port : Nat, short : BOOLEAN, valid : BOOLEAN, success : BOOLEAN]
  /\ \A p \in Responses : p.valid => ~ p.short
  /\ MaxCaptured \in Nat
  /\ Confs \subseteq Conf
  /\ WindowSize \in Nat \ {0} /\ Paddings # {} /\ StackWords \subseteq Nat
  /\ FilterKeeps \subseteq BOOLEAN \X BOOLEAN
  /\ MaxResults \in Nat

VARIABLES
  conf,         \* zconf, a member of Confs
  rpc,          \* where recv_run is: see RPC
  pcap,         \* the capture handle pc
  recv_ready,   \* zconf.recv_ready
  ready_mutex,  \* the holder of recv_ready_mutex, or "free"
  cooled,       \* now() - zsend.finish > zconf.cooldown_secs
  captured,     \* the packets captured so far
  seen,         \* the bitmap of full deduplication, as a set of addresses
  window,       \* ch, the cache of window deduplication
  row,          \* the fieldset of the packet being handled
  stats,        \* the counters of zrecv
  rows          \* the fieldsets given to the output module

recvVars == <<conf, rpc, pcap, recv_ready, ready_mutex, cooled, captured, seen,
              window, row, stats, rows>>

(* Before the thread is created; recv_init; the ready handshake; in        *)
(* recv_packets; in handle_packet, after the fieldset is filled; after the *)
(* loop; before the capture is closed; before zrecv.complete is set;       *)
(* returned.                                                               *)
RPC == {"none", "init", "ready", "poll", "count", "finish", "close",
        "complete", "done"}

(* The fieldset, with the variable src_ip of handle_packet. *)
Row == [ip : Nat, port : Nat, src_ip : Nat, success : BOOLEAN, repeat : BOOLEAN,
        cooldown : BOOLEAN, nth : Nat]

NoRow == [ip |-> 0, port |-> 0, src_ip |-> 0, success |-> FALSE, repeat |-> FALSE,
          cooldown |-> FALSE, nth |-> 0]

Counters == {"success_total", "success_unique", "cooldown_total",
             "cooldown_unique", "failure_total", "filter_success",
             "validation_passed", "validation_failed"}

RecvInit ==
  /\ conf \in Confs
  /\ rpc = "none" /\ pcap = "null"
  /\ recv_ready = FALSE /\ ready_mutex = "free" /\ cooled = FALSE
  /\ captured = <<>> /\ seen = {} /\ window = CachehashInit(WindowSize)
  /\ row = NoRow /\ stats = [c \in Counters |-> 0] /\ rows = <<>>
-----------------------------------------------------------------------------

(* The counters in S go up by one. *)
Count(S) == stats' = [c \in Counters |-> stats[c] + (IF c \in S THEN 1 ELSE 0)]

(* recv_init opens the capture or calls log_fatal. *)
OpenCapture ==
  /\ rpc = "init"
  /\ pcap' = "open" /\ rpc' = "ready"
  /\ UNCHANGED <<recv_ready, conf, ready_mutex, cooled, captured, seen, window, row,
                 stats, rows, stateVars>>

OpenCaptureFails ==
  /\ rpc = "init" /\ LogFatal
  /\ UNCHANGED <<recvVars, send_complete, recv_complete>>

(* Mutant: recv_ready_mutex is not waited for. *)
ReadyMutexFree_Ignored == TRUE

ReadyMutexFree == ready_mutex = "free"

(* zconf.recv_ready is set under recv_ready_mutex. *)
AnnounceReady ==
  /\ rpc = "ready" /\ ReadyMutexFree
  /\ recv_ready' = TRUE /\ rpc' = "poll"
  /\ UNCHANGED <<pcap, conf, ready_mutex, cooled, captured, seen, window, row, stats,
                 rows, stateVars>>

(* filter_success >= max_results; recv_run turns a limit of 0 into the     *)
(* largest uint64_t.                                                       *)
AtMaxResults == MaxResults # 0 /\ stats["filter_success"] >= MaxResults

Key(p) == <<p.ip, p.port>>

(* The key of handle_packet is a whole target_t, whose padding byte is     *)
(* whatever the compiler has left there.                                   *)
CacheKey(p, padding) == <<p.ip, p.port, padding>>

(* Mutant: a key is looked up but a hit does not count as a use. *)
WindowAfter_NoUse(key) == IF Present(window, key) THEN window ELSE CachehashPut(window, key)

(* cachehash_get, and cachehash_put after a miss. *)
WindowAfter(key) ==
  IF Present(window, key) THEN CachehashGet(window, key) ELSE CachehashPut(window, key)

(* Over IPv6 no response is looked up, whatever the method. *)
Dedups(method) == conf.dedup_method = method /\ ~ conf.ipv6

IsRepeat(p, key) ==
  \/ Dedups("FULL") /\ p.ip \in seen
  \/ Dedups("WINDOW") /\ Present(window, key)

(* packet_cb drops the packet once there are enough results. *)
DropPacket(p) ==
  /\ rpc = "poll" /\ Len(captured) < MaxCaptured
  /\ AtMaxResults
  /\ captured' = Append(captured, p)
  /\ UNCHANGED <<rpc, pcap, recv_ready, conf, ready_mutex, cooled, seen, window, row,
                 stats, rows, stateVars>>

(* handle_packet returns early: the packet has no room for the headers, or *)
(* validate_packet refuses it.                                             *)
RejectPacket(p) ==
  /\ rpc = "poll" /\ Len(captured) < MaxCaptured
  /\ ~ AtMaxResults /\ ~ p.valid
  /\ captured' = Append(captured, p)
  /\ Count(IF p.short THEN {} ELSE {"validation_failed"})
  /\ UNCHANGED <<rpc, pcap, recv_ready, conf, ready_mutex, cooled, seen, window, row,
                 rows, stateVars>>

(* handle_packet up to fs_add_system_fields, where zsend.complete is read  *)
(* for the first time.  Over IPv6 nothing assigns src_ip.                  *)
AcceptPacket(p, padding, word) ==
  /\ rpc = "poll" /\ Len(captured) < MaxCaptured
  /\ ~ AtMaxResults /\ p.valid
  /\ captured' = Append(captured, p)
  /\ row' = [ip |-> p.ip, port |-> p.port, src_ip |-> IF conf.ipv6 THEN word ELSE p.ip,
             success |-> p.success, repeat |-> IsRepeat(p, CacheKey(p, padding)),
             cooldown |-> send_complete, nth |-> Len(captured) + 1]
  /\ window' = IF Dedups("WINDOW") THEN WindowAfter(CacheKey(p, padding)) ELSE window
  /\ Count({"validation_passed"})
  /\ rpc' = "count"
  /\ UNCHANGED <<pcap, recv_ready, conf, ready_mutex, cooled, seen, rows, stateVars>>

(* What the output module is given: in default mode only successes that    *)
(* are no repeats, and always only what the output filter keeps.           *)
Kept(r) ==
  /\ conf.default_mode => r.success /\ ~ r.repeat
  /\ <<r.success, r.repeat>> \in FilterKeeps

(* The counters a packet is counted in; zsend.complete is read again.      *)
Outcome(r) ==
  {c \in Counters :
     \/ c = "success_total"   /\ r.success
     \/ c = "success_unique"  /\ r.success /\ ~ r.repeat
     \/ c = "cooldown_total"  /\ r.success /\ send_complete
     \/ c = "cooldown_unique" /\ r.success /\ send_complete /\ ~ r.repeat
     \/ c = "failure_total"   /\ ~ r.success
     \/ c = "filter_success"  /\ Kept(r)}

(* Mutant: the bitmap is not written. *)
SeenAfter_Never(r) == seen

(* Mutant: a failure marks the address as seen. *)
SeenAfter_Failure(r) == seen \cup {r.src_ip}

SeenAfter(r) ==
  IF conf.dedup_method = "FULL" /\ r.success /\ ~ r.repeat THEN seen \cup {r.src_ip} ELSE seen

(* The rest of handle_packet. *)
CountRow ==
  /\ rpc = "count"
  /\ Count(Outcome(row))
  /\ seen' = SeenAfter(row)
  /\ rows' = IF Kept(row) THEN Append(rows, row) ELSE rows
  /\ row' = NoRow /\ rpc' = "poll"
  /\ UNCHANGED <<pcap, recv_ready, conf, ready_mutex, cooled, captured, window, stateVars>>

(* pcap_dispatch returned an error. *)
CaptureFails ==
  /\ rpc = "poll" /\ LogFatal
  /\ UNCHANGED <<recvVars, send_complete, recv_complete>>

(* Mutant: zsend.complete is not tested; zsend.finish is 0, long past, until *)
(* the senders complete.                                                   *)
LoopOver_Unfinished == AtMaxResults \/ ~ send_complete \/ cooled

(* Mutant: the loop is only left with enough results. *)
LoopOver_Results == AtMaxResults

(* The loop is left when there are enough results, or some time after the  *)
(* senders completed; otherwise recv_packets is called again.              *)
LoopOver == AtMaxResults \/ (send_complete /\ cooled)

LeaveLoop ==
  /\ rpc = "poll" /\ LoopOver
  /\ rpc' = "finish"
  /\ UNCHANGED <<pcap, recv_ready, conf, ready_mutex, cooled, captured, seen, window,
                 row, stats, rows, stateVars>>

(* The last recv_update_stats, outside of recv_ready_mutex. *)
FinalStats ==
  /\ rpc = "finish" /\ rpc' = "close"
  /\ UNCHANGED <<pcap, recv_ready, conf, ready_mutex, cooled, captured, seen, window,
                 row, stats, rows, stateVars>>

(* recv_cleanup under recv_ready_mutex. *)
CloseCapture ==
  /\ rpc = "close" /\ ReadyMutexFree
  /\ pcap' = "null" /\ rpc' = "complete"
  /\ UNCHANGED <<recv_ready, conf, ready_mutex, cooled, captured, seen, window, row,
                 stats, rows, stateVars>>

CompleteRecv ==
  /\ rpc = "complete"
  /\ recv_complete' = TRUE /\ rpc' = "done"
  /\ UNCHANGED <<pcap, recv_ready, conf, ready_mutex, cooled, captured, seen, window,
                 row, stats, rows, proc, send_complete>>

(* Capturing a packet, and failing, is up to the system; the rest is the   *)
(* thread's own.                                                           *)
ReceiverFails == OpenCaptureFails \/ CaptureFails

Receive(p) ==
  \/ DropPacket(p) \/ RejectPacket(p)
  \/ \E padding \in Paddings, word \in StackWords : AcceptPacket(p, padding, word)

CaptureStep == \E p \in Responses : Receive(p)

ReceiverStep ==
  \/ OpenCapture \/ AnnounceReady
  \/ CountRow \/ LeaveLoop
  \/ FinalStats \/ CloseCapture \/ CompleteRecv

(* pthread_create in start_zmap. *)
CreateReceiver ==
  /\ rpc = "none" /\ rpc' = "init"
  /\ UNCHANGED <<pcap, recv_ready, conf, ready_mutex, cooled, captured, seen, window,
                 row, stats, rows, stateVars>>

(* The cooldown passes once the senders have completed. *)
CoolDown ==
  /\ send_complete /\ ~ cooled /\ cooled' = TRUE
  /\ UNCHANGED <<rpc, pcap, recv_ready, conf, ready_mutex, captured, seen, window,
                 row, stats, rows, stateVars>>
-----------------------------------------------------------------------------
(* The receiver by itself: the senders complete at some moment. *)
SendersComplete ==
  /\ ~ send_complete /\ send_complete' = TRUE
  /\ UNCHANGED <<recvVars, proc, recv_complete>>

RecvFinished ==
  /\ proc # "running" \/ rpc = "done"
  /\ UNCHANGED <<recvVars, stateVars>>

RecvNext ==
  \/ /\ proc = "running"
     /\ \/ CreateReceiver \/ ReceiverStep \/ CaptureStep \/ ReceiverFails
        \/ CoolDown \/ SendersComplete
  \/ RecvFinished

(* The thread runs, time passes, and the senders come to their end (module *)
(* Send).  Nothing makes the network deliver.                              *)
RecvFairness ==
  /\ WF_<<recvVars, stateVars>>(proc = "running" /\ (CreateReceiver \/ ReceiverStep))
  /\ WF_<<recvVars, stateVars>>(proc = "running" /\ (CoolDown \/ SendersComplete))

RecvAloneInit == StateInit /\ RecvInit

RecvSpec ==
  /\ RecvAloneInit
  /\ [][RecvNext]_<<recvVars, stateVars>>
  /\ RecvFairness
-----------------------------------------------------------------------------

(* zmap.1.ronn:205-206 on full deduplication: it "guarantees that no       *)
(* duplicates will be emitted".  Over IPv4 no address is output twice as a *)
(* success that is no repeat, however responses repeat.  Over IPv6 the     *)
(* guarantee does not hold: recv.c:118-119 takes no response for a repeat. *)
NoDuplicateRows ==
  Dedups("FULL") =>
    LET fresh == {i \in DOMAIN rows : rows[i].success /\ ~ rows[i].repeat}
    IN  \A i, j \in fresh : rows[i].ip = rows[j].ip => i = j

(* Window deduplication over IPv4 (recv.c:126-131): when a target is       *)
(* output and not marked as a repeat, at least WindowSize other targets    *)
(* have responded since its last response.                                 *)
WindowDedup ==
  Dedups("WINDOW") =>
    \A j \in DOMAIN rows : \A k \in 1 .. rows[j].nth - 1 :
      ~ rows[j].repeat /\ captured[k].valid /\ Key(captured[k]) = Key(rows[j]) =>
        LET since == {i \in k + 1 .. rows[j].nth - 1 : captured[i].valid}
        IN  Cardinality({Key(captured[i]) : i \in since} \ {Key(rows[j])}) >= WindowSize

(* The cache is a window of the last keys: a get refreshes a key, a put    *)
(* forgets the one unused for longest, and nothing else is ever forgotten. *)
W == INSTANCE Window WITH
       WindowKeys <- {CacheKey(p, padding) : p \in Responses, padding \in Paddings},
       recent <- RecentKeys(window)
ImplementsWindow == W!WindowSpec

(* The packets counted so far: those handled to the end. *)
Handled == {captured[k] : k \in DOMAIN captured \ (IF rpc = "count" THEN {row.nth} ELSE {})}

Successes == {p \in Handled : p.valid /\ p.success}

(* state.h:187-188: success_unique counts "unique IPs that sent valid      *)
(* responses classified as success", exactly so with full deduplication    *)
(* over IPv4; over IPv6 every success counts.                              *)
UniqueIsUnique ==
  Dedups("FULL") /\ ~ AtMaxResults =>
    stats["success_unique"] = Cardinality({p.ip : p \in Successes})
-----------------------------------------------------------------------------
(* The inductive invariant behind full deduplication over IPv4, proved in  *)
(* module RecvProofs: the bitmap holds the addresses of the successes,     *)
(* each counted once, and the packet in hand is a repeat if its address is *)
(* in the bitmap.                                                          *)
RecvTypeOK ==
  /\ conf \in Confs /\ send_complete \in BOOLEAN
  /\ captured \in Seq(Responses)
  /\ seen \subseteq Nat /\ IsFiniteSet(seen)
  /\ row \in Row /\ rows \in Seq(Row)
  /\ stats \in [Counters -> Nat]

InHandInv ==
  rpc = "count" =>
    /\ ~ AtMaxResults
    /\ row.nth = Len(captured) /\ row.nth > 0 /\ captured[row.nth].valid
    /\ row.ip = captured[row.nth].ip /\ row.success = captured[row.nth].success
    /\ row.src_ip = row.ip
    /\ row.repeat <=> row.ip \in seen

BitmapInv ==
  /\ \A i \in DOMAIN rows : rows[i].success /\ ~ rows[i].repeat => rows[i].ip \in seen
  /\ stats["success_unique"] = Cardinality(seen)
  /\ ~ AtMaxResults => seen = {p.ip : p \in Successes}

DedupInv == RecvTypeOK /\ (Dedups("FULL") => InHandInv /\ BitmapInv /\ NoDuplicateRows)

(* The inductive invariant behind window deduplication, proved in module   *)
(* WindowProofs.  Since holds the targets that responded after the packet  *)
(* k of cap, up to the packet m.                                           *)
Since(cap, k, m) == {Key(cap[i]) : i \in {i \in k + 1 .. m : cap[i].valid}}

ManySince(cap, k, m) == Cardinality(Since(cap, k, m) \ {Key(cap[k])}) >= WindowSize

CacheKeyed(K, padding) == <<K[1], K[2], padding>>

(* The key c is in the window, and before it only keys of targets in S.    *)
Behind(recent, c, S, padding) ==
  \E i \in DOMAIN recent :
    /\ recent[i] = c
    /\ \A j \in 1 .. i - 1 : \E K \in S : recent[j] = CacheKeyed(K, padding)

(* The row r may be output: it is a repeat, or its target is long past.    *)
WindowRow(cap, r) ==
  /\ r.nth \in 1 .. Len(cap) /\ cap[r.nth].valid /\ Key(cap[r.nth]) = Key(r)
  /\ \A k \in 1 .. r.nth - 1 :
       ~ r.repeat /\ cap[k].valid /\ Key(cap[k]) = Key(r) => ManySince(cap, k, r.nth - 1)

(* A target that responded is still in the window, or as many others as    *)
(* the window holds have responded since.                                  *)
Remembered(cap, recent, padding) ==
  \A k \in 1 .. Len(cap) : cap[k].valid =>
    \/ Behind(recent, CacheKey(cap[k], padding), Since(cap, k, Len(cap)), padding)
    \/ ManySince(cap, k, Len(cap))

HistoryInv ==
  /\ ~ AtMaxResults => \A padding \in Paddings : Remembered(captured, RecentKeys(window), padding)
  /\ rpc = "count" => WindowRow(captured, row) /\ ~ AtMaxResults
  /\ \A j \in DOMAIN rows : WindowRow(captured, rows[j])

(* The padding byte of the key is the same for all packets. *)
OnePadding == \E x : Paddings = {x}

WindowInv ==
  /\ RecvTypeOK /\ CacheInv(window, WindowSize)
  /\ Dedups("WINDOW") => HistoryInv
=============================================================================
