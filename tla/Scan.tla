-------------------------------- MODULE Scan --------------------------------
(***************************************************************************)
(* A whole scan: main (start_zmap of src/src/zmap.c), the sender threads   *)
(* (module Send), the receiver thread (module Recv) and the monitor thread *)
(* (src/src/monitor.c).  A dry run has no receiver and no monitor.         *)
(***************************************************************************)
EXTENDS Send, Recv

CONSTANTS
  MaxFailures,   \* zconf.max_sendto_failures; negative means no limit
  MinHitrate     \* whether a minimum hit rate was asked for

ASSUME ScanAssumption ==
  /\ MaxFailures \in Int /\ MinHitrate \in BOOLEAN

VARIABLES
  mpc,   \* where main is: see MPC
  mon    \* the state of the monitor thread: see Monitor

scanVars == <<sendVars, recvVars, stateVars, mpc, mon>>

(* Starting the receiver; spinning on recv_ready; starting the senders and *)
(* the monitor; the three joins; writing the metadata; returned.           *)
MPC == {"start", "wait", "spawn", "join_send", "join_recv", "join_mon",
         "metadata", "done"}

(* Before the thread is created; the test of monitor_run's loop; waiting   *)
(* for recv_ready_mutex; in pcap_stats; before the unlock; the four parts  *)
(* of export_stats that touch sendto_failures; returned; in log_fatal.     *)
Monitor ==
  [pc    : {"none", "test", "lock", "use", "unlock", "sum", "write", "check",
            "done", "fatal"},
   last  : BOOLEAN,   \* this is the final update
   fails : Nat]       \* total_fail of export_stats

ScanInit ==
  /\ StateInit /\ SendInit /\ RecvInit
  /\ mpc = "start"
  /\ mon = [pc |-> "none", last |-> FALSE, fails |-> 0]

-----------------------------------------------------------------------------
StartReceiver ==
  /\ mpc = "start"
  /\ IF Dryrun
     THEN mpc' = "spawn" /\ UNCHANGED <<recvVars, stateVars>>
     ELSE mpc' = "wait" /\ CreateReceiver
  /\ UNCHANGED <<sendVars, mon>>

(* Mutant: main does not wait for the receiver. *)
ReceiverIsReady_Ignored == TRUE

(* The test of the loop that spins on zconf.recv_ready, under its mutex. *)
ReceiverIsReady == ReadyMutexFree /\ recv_ready

AwaitReady ==
  /\ mpc = "wait" /\ ReceiverIsReady
  /\ mpc' = "spawn"
  /\ UNCHANGED <<sendVars, recvVars, stateVars, mon>>

(* The senders are started one after the other. *)
SpawnSender(t) ==
  /\ mpc = "spawn" /\ Create(t)
  /\ UNCHANGED <<recvVars, mpc, mon>>

(* The socket or the thread of a sender cannot be had. *)
SpawnFails ==
  /\ mpc = "spawn" /\ \E t \in Senders : th[t].pc = "none"
  /\ LogFatal
  /\ UNCHANGED <<sendVars, recvVars, send_complete, recv_complete, mpc, mon>>

StartMonitor ==
  /\ mpc = "spawn" /\ \A t \in Senders : th[t].pc # "none"
  /\ mpc' = "join_send"
  /\ mon' = IF Dryrun THEN mon ELSE [mon EXCEPT !.pc = "test"]
  /\ UNCHANGED <<sendVars, recvVars, stateVars>>

JoinSenders ==
  /\ mpc = "join_send" /\ \A t \in Senders : th[t].pc = "done"
  /\ mpc' = (IF Dryrun THEN "metadata" ELSE "join_recv")
  /\ UNCHANGED <<sendVars, recvVars, stateVars, mon>>

JoinReceiver ==
  /\ mpc = "join_recv" /\ rpc = "done"
  /\ mpc' = (IF conf.quiet THEN "metadata" ELSE "join_mon")
  /\ UNCHANGED <<sendVars, recvVars, stateVars, mon>>

JoinMonitor ==
  /\ mpc = "join_mon" /\ mon.pc = "done"
  /\ mpc' = "metadata"
  /\ UNCHANGED <<sendVars, recvVars, stateVars, mon>>

(* json_metadata reads the totals, the modules are closed, main returns    *)
(* and the process with it, whatever the monitor is doing.                 *)
WriteMetadata ==
  /\ mpc = "metadata"
  /\ mpc' = "done" /\ proc' = "completed"
  /\ UNCHANGED <<sendVars, recvVars, send_complete, recv_complete, mon>>

MainStep ==
  \/ StartReceiver \/ AwaitReady \/ (\E t \in Senders : SpawnSender(t))
  \/ StartMonitor \/ JoinSenders \/ JoinReceiver \/ JoinMonitor \/ WriteMetadata
-----------------------------------------------------------------------------
(* The loop of monitor_run; after it there is one final update. *)
MonTest ==
  /\ mon.pc = "test"
  /\ mon' = [mon EXCEPT !.pc = "lock", !.last = send_complete /\ recv_complete]
  /\ UNCHANGED <<sendVars, recvVars, stateVars, mpc>>

(* update_pcap_stats: recv_update_stats returns at once when there is no   *)
(* capture.                                                                *)
MonLock ==
  /\ mon.pc = "lock" /\ ReadyMutexFree
  /\ ready_mutex' = "monitor"
  /\ mon' = [mon EXCEPT !.pc = IF pcap = "open" THEN "use" ELSE "unlock"]
  /\ UNCHANGED <<sendVars, conf, rpc, pcap, recv_ready, cooled, captured, seen, window,
                 row, stats, rows, stateVars, mpc>>

MonUnlock ==
  /\ mon.pc \in {"use", "unlock"}
  /\ ready_mutex' = "free"
  /\ mon' = [mon EXCEPT !.pc = "sum"]
  /\ UNCHANGED <<sendVars, conf, rpc, pcap, recv_ready, cooled, captured, seen, window,
                 row, stats, rows, stateVars, mpc>>

SumOf(f) == LET Value(t) == f[t] IN MapThenSumSet(Value, DOMAIN f)

(* iterator_get_fail. *)
TotalFailed == SumOf([t \in Senders |-> th[t].packets_failed])

MonSum ==
  /\ mon.pc = "sum"
  /\ mon' = [mon EXCEPT !.pc = "write", !.fails = TotalFailed]
  /\ UNCHANGED <<sendVars, recvVars, stateVars, mpc>>

(* zsend.sendto_failures = total_fail, without a lock. *)
MonWrite ==
  /\ mon.pc = "write"
  /\ sendto_failures' = mon.fails
  /\ mon' = [mon EXCEPT !.pc = "check"]
  /\ UNCHANGED <<th, complete, it_mutex, total_sent, failures_read, time_up, recvVars,
                 stateVars, mpc>>

OverLimit(fails) == MaxFailures >= 0 /\ fails > MaxFailures

(* Mutant: the monitor stops without the final update. *)
MonAfter_NoFinal == IF send_complete /\ recv_complete THEN "done" ELSE "test"

MonAfter == IF mon.last THEN "done" ELSE "test"

(* exp->fail_total = zsend.sendto_failures, and the checks on it.  The     *)
(* variable is shared and not locked: an optimised build keeps the value   *)
(* just written, any other reads it again.                                 *)
MonCheck ==
  /\ mon.pc = "check"
  /\ \E fails \in {mon.fails, sendto_failures} :
       IF OverLimit(fails)
       THEN LogFatal /\ mon' = [mon EXCEPT !.pc = "fatal"]
       ELSE UNCHANGED proc /\ mon' = [mon EXCEPT !.pc = MonAfter]
  /\ UNCHANGED <<sendVars, recvVars, send_complete, recv_complete, mpc>>

(* check_min_hitrate. *)
MonHitrate ==
  /\ mon.pc = "check" /\ MinHitrate
  /\ LogFatal
  /\ UNCHANGED <<sendVars, recvVars, send_complete, recv_complete, mpc, mon>>

MonitorStep == MonTest \/ MonLock \/ MonUnlock \/ MonSum \/ MonWrite \/ MonCheck
-----------------------------------------------------------------------------
(* A response that passes validation answers a probe of this scan: the     *)
(* check value is computed from the addresses and a secret key.            *)
Answers(p) ==
  \E t \in Senders : \E i \in DOMAIN th[t].wire :
    th[t].wire[i][1] = p.ip /\ th[t].wire[i][2] = p.port

Capture ==
  \E p \in Responses :
    /\ p.valid => Answers(p)
    /\ Receive(p)
    /\ UNCHANGED <<sendVars, mpc, mon>>

ScanSender(t) == SenderStep(t) /\ UNCHANGED <<recvVars, mpc, mon>>
ScanReceiver  == ReceiverStep /\ UNCHANGED <<sendVars, mpc, mon>>

(* What the environment does: failures, and time passing. *)
Environment ==
  \/ /\ \/ \E t \in Senders : ThreadInitFails(t)
        \/ TimeUp
     /\ UNCHANGED <<recvVars, mpc, mon>>
  \/ /\ ReceiverFails
     /\ UNCHANGED <<sendVars, mpc, mon>>
  \/ SpawnFails \/ MonHitrate

Cooling == CoolDown /\ UNCHANGED <<sendVars, mpc, mon>>

ScanFinished == proc # "running" /\ UNCHANGED scanVars

ScanNext ==
  \/ /\ proc = "running"
     /\ \/ MainStep \/ MonitorStep \/ ScanReceiver \/ Capture
        \/ \E t \in Senders : ScanSender(t)
        \/ Environment \/ Cooling
  \/ ScanFinished

(* Every thread that can run does, and time passes. *)
ScanFairness ==
  /\ WF_scanVars(proc = "running" /\ MainStep)
  /\ WF_scanVars(proc = "running" /\ MonitorStep)
  /\ SF_scanVars(proc = "running" /\ ScanReceiver)
  /\ WF_scanVars(proc = "running" /\ Cooling)
  /\ \A t \in Senders : WF_scanVars(proc = "running" /\ ScanSender(t))

ScanSpec == ScanInit /\ [][ScanNext]_scanVars /\ ScanFairness
-----------------------------------------------------------------------------

(* The capture handle is open whenever it is used: by the monitor, which   *)
(* asks for statistics while the receiver may be closing it                *)
(* (monitor.c:179-185, recv.c:284-289), and by the receiver itself.        *)
CaptureOpenInUse ==
  mon.pc = "use" \/ rpc \in {"poll", "count", "finish"} => pcap = "open"

(* No probe leaves before the capture is open (zmap.c:228-237): no         *)
(* response can be missed for want of a listener.                          *)
ListensBeforeProbing ==
  ~ Dryrun => \A t \in Senders :
    th[t].pc # "none" => recv_ready /\ rpc \notin {"none", "init", "ready"}

(* The receiver closes its capture (recv.c:270-290) only after every       *)
(* sender has handed its last batch to the network, or with all the        *)
(* results asked for: no probe goes out with nobody listening.             *)
ReceiverOutlivesSenders ==
  rpc \in {"complete", "done"} =>
    \/ AtMaxResults
    \/ \A t \in Senders : th[t].pc \in {"totals", "done"} /\ th[t].batch = <<>>

(* The metadata tell how many packets failed: when the monitor is joined,  *)
(* its final update (monitor.c:507) overwrites what the unlocked += of     *)
(* shard_complete and its own assignments left in sendto_failures.         *)
FailuresReported ==
  proc = "completed" /\ ~ conf.quiet /\ ~ Dryrun => sendto_failures = TotalFailed

(* Every scan ends, completed or aborted.                                  *)
ScanTermination == <>(proc # "running")
-----------------------------------------------------------------------------
(* The inductive invariant behind the proofs of module ScanProofs: how the *)
(* capture handle, the ready flag and its mutex follow the places where    *)
(* the receiver, the monitor and main are.                                 *)
HandshakeInv ==
  /\ mon = [pc |-> mon.pc, last |-> mon.last, fails |-> mon.fails]
  /\ rpc \in {"ready", "poll", "count", "finish", "close"} => pcap = "open"
  /\ recv_ready => rpc \notin {"none", "init", "ready"}
  /\ mon.pc \in {"use", "unlock"} => ready_mutex = "monitor"
  /\ mon.pc = "use" => pcap = "open"
  /\ ~ Dryrun /\ mpc \in {"start", "wait"} => \A t \in Senders : th[t].pc = "none"
  /\ ~ Dryrun /\ mpc \notin {"start", "wait"} => recv_ready
  /\ rpc \in {"finish", "close", "complete", "done"} => AtMaxResults \/ send_complete

ScanInv == ThreadsInv /\ HandshakeInv

(* The one behind the final count of failures: in the last round of the    *)
(* monitor no sender counts or writes any more.                            *)
ReportInv ==
  /\ mon.last => send_complete
  /\ mon.pc = "done" => mon.last
  /\ mon.last /\ mon.pc \in {"write", "check", "done"} => mon.fails = TotalFailed
  /\ mon.last /\ mon.pc \in {"check", "done"} => sendto_failures = TotalFailed
  /\ mpc \in {"metadata", "done"} /\ ~ conf.quiet /\ ~ Dryrun => mon.pc = "done"
  /\ proc = "completed" => mpc = "done"
=============================================================================
