----------------------------- MODULE ScanProofs -----------------------------
(***************************************************************************)
(* Proofs about a whole scan: main, the senders, the receiver and the      *)
(* monitor, for any configuration of a scan.  The last part proves of a    *)
(* whole scan what is proved of the receiver and of the senders by         *)
(* themselves: the other threads do not disturb it.                        *)
(***************************************************************************)
EXTENDS Scan, SendProbesProofs, RecvProofs

(* Nothing has started. *)
LEMMA InitScan ==
  ScanInit => ScanInv
<1> SUFFICES ASSUME ScanInit PROVE ScanInv
  OBVIOUS
<1>1. ThreadsInv
  BY InitThreads DEF ScanInit
<1>2. HandshakeInv
  BY DEF HandshakeInv, ScanInit, SendInit, RecvInit
<1> QED BY <1>1, <1>2 DEF ScanInv

(* A sender's step: it was created before, so main is past the wait, and   *)
(* zsend.complete is never reset.                                          *)
LEMMA SenderHandshake ==
  ASSUME ScanInv, NEW t \in Senders, ScanSender(t)
  PROVE  ScanInv'
<1>1. ThreadsInv'
  BY SenderKeeps DEF ScanInv, ScanSender
<1>2. th[t].pc # "none"
  BY Zenon
     DEF ScanSender, SenderStep, ThreadInit, FirstTarget, SearchList, Check, MakeProbe,
         Sendmmsg, SendReturns, NextTarget, SkipUnlisted, FlushReturns,
         ShardCompleteLocks, ShardCompleteUnlocks
<1>3. send_complete => send_complete'
  BY Zenon
     DEF ScanSender, SenderStep, ThreadInit, FirstTarget, SearchList, Check, MakeProbe,
         Sendmmsg, SendReturns, NextTarget, SkipUnlisted, FlushReturns,
         ShardCompleteLocks, ShardCompleteUnlocks, Becomes, stateVars
<1>4. /\ UNCHANGED <<rpc, pcap, recv_ready, ready_mutex, mpc, mon>>
      /\ AtMaxResults' = AtMaxResults
  BY DEF ScanSender, recvVars, AtMaxResults
<1>5. HandshakeInv'
  BY <1>2, <1>3, <1>4 DEF ScanInv, HandshakeInv
<1> QED BY <1>1, <1>5 DEF ScanInv

(* The receiver's own steps: the capture is closed under recv_ready_mutex, *)
(* so not while the monitor uses it, and the loop is left with a reason.   *)
LEMMA ReceiverHandshake ==
  ASSUME ScanInv, ScanReceiver
  PROVE  ScanInv'
<1>1. ThreadsInv'
  BY ThreadsUnchanged DEF ScanInv, ScanReceiver, ReceiverStep, sendVars, totalVars,
     OpenCapture, AnnounceReady, CountRow, LeaveLoop, FinalStats, CloseCapture,
     CompleteRecv, stateVars
<1>2. /\ UNCHANGED <<th, mpc, mon, ready_mutex, send_complete>>
  BY DEF ScanReceiver, ReceiverStep, sendVars, stateVars,
     OpenCapture, AnnounceReady, CountRow, LeaveLoop, FinalStats, CloseCapture, CompleteRecv
<1> SUFFICES HandshakeInv'
  BY <1>1 DEF ScanInv
<1>3. HandshakeInv
  BY DEF ScanInv
<1>4. CASE OpenCapture
  BY <1>2, <1>3, <1>4 DEF OpenCapture, HandshakeInv
<1>5. CASE AnnounceReady
  BY <1>2, <1>3, <1>5 DEF AnnounceReady, HandshakeInv
<1>6. CASE CountRow
  BY <1>2, <1>3, <1>6 DEF CountRow, HandshakeInv
<1>7. CASE LeaveLoop
  <2>1. AtMaxResults' = AtMaxResults /\ (AtMaxResults \/ send_complete)
    BY <1>7 DEF LeaveLoop, AtMaxResults, LoopOver
  <2> QED BY <1>2, <1>3, <1>7, <2>1 DEF LeaveLoop, HandshakeInv
<1>8. CASE FinalStats
  <2>1. AtMaxResults' = AtMaxResults
    BY <1>8 DEF FinalStats, AtMaxResults
  <2> QED BY <1>2, <1>3, <1>8, <2>1 DEF FinalStats, HandshakeInv
<1>9. CASE CloseCapture
  <2>1. AtMaxResults' = AtMaxResults
    BY <1>9 DEF CloseCapture, AtMaxResults
  <2>2. ready_mutex = "free"
    BY <1>9 DEF CloseCapture, ReadyMutexFree
  <2> QED BY <1>2, <1>3, <1>9, <2>1, <2>2 DEF CloseCapture, HandshakeInv
<1>10. CASE CompleteRecv
  <2>1. AtMaxResults' = AtMaxResults
    BY <1>10 DEF CompleteRecv, AtMaxResults
  <2> QED BY <1>2, <1>3, <1>10, <2>1 DEF CompleteRecv, HandshakeInv
<1> QED BY <1>4, <1>5, <1>6, <1>7, <1>8, <1>9, <1>10 DEF ScanReceiver, ReceiverStep

(* A captured packet is handled while the receiver is in its loop.         *)
LEMMA CaptureHandshake ==
  ASSUME ScanInv, Capture
  PROVE  ScanInv'
<1>1. \E p \in Responses : \/ DropPacket(p) \/ RejectPacket(p)
                            \/ \E padding \in Paddings : \E word \in StackWords : AcceptPacket(p, padding, word)
  BY DEF Capture, Receive
<1>2. UNCHANGED <<th, complete, mpc, mon>>
  BY DEF Capture, sendVars, totalVars
<1>3. /\ UNCHANGED <<pcap, recv_ready, ready_mutex, send_complete>>
      /\ rpc = "poll" /\ rpc' \in {"poll", "count"}
  BY <1>1 DEF DropPacket, RejectPacket, AcceptPacket, stateVars
<1>4. ThreadsInv'
  BY <1>2, <1>3, ThreadsUnchanged DEF ScanInv
<1>5. HandshakeInv'
  BY <1>2, <1>3 DEF ScanInv, HandshakeInv
<1> QED BY <1>4, <1>5 DEF ScanInv

(* main starts the senders only after the receiver has announced itself.   *)
LEMMA MainHandshake ==
  ASSUME ScanInv, MainStep
  PROVE  ScanInv'
<1>1. ThreadsInv'
  <2>1. ASSUME NEW t \in Senders, SpawnSender(t) PROVE ThreadsInv'
    BY <2>1, SenderKeeps DEF ScanInv, SpawnSender
  <2>2. CASE ~ \E t \in Senders : SpawnSender(t)
    <3>1. UNCHANGED <<th, complete, send_complete>>
      BY <2>2 DEF MainStep, StartReceiver, CreateReceiver, AwaitReady, StartMonitor,
         JoinSenders, JoinReceiver, JoinMonitor, WriteMetadata, sendVars, totalVars, stateVars
    <3> QED BY <3>1, ThreadsUnchanged DEF ScanInv
  <2> QED BY <2>1, <2>2
<1> SUFFICES HandshakeInv'
  BY <1>1 DEF ScanInv
<1>2. HandshakeInv
  BY DEF ScanInv
<1>3. CASE StartReceiver
  <2>1. /\ UNCHANGED <<th, mon, pcap, recv_ready, ready_mutex>>
        /\ mpc = "start" /\ mpc' = IF Dryrun THEN "spawn" ELSE "wait"
    BY <1>3 DEF StartReceiver, CreateReceiver, recvVars, sendVars
  <2>2. \/ rpc' = rpc /\ stats' = stats /\ send_complete' = send_complete
        \/ rpc = "none" /\ rpc' = "init"
    BY <1>3 DEF StartReceiver, CreateReceiver, recvVars, stateVars
  <2>3. CASE rpc' = rpc /\ stats' = stats /\ send_complete' = send_complete
    <3>1. AtMaxResults' = AtMaxResults
      BY <2>3 DEF AtMaxResults
    <3> QED BY <1>2, <2>1, <2>3, <3>1 DEF HandshakeInv
  <2>4. CASE rpc = "none" /\ rpc' = "init"
    BY <1>2, <2>1, <2>4 DEF HandshakeInv
  <2> QED BY <2>2, <2>3, <2>4
<1>4. CASE AwaitReady
  <2>1. /\ UNCHANGED <<th, mon, rpc, pcap, recv_ready, ready_mutex, stats, send_complete>>
        /\ mpc' = "spawn" /\ recv_ready
    BY <1>4 DEF AwaitReady, ReceiverIsReady, recvVars, sendVars, stateVars
  <2>2. AtMaxResults' = AtMaxResults
    BY <2>1 DEF AtMaxResults
  <2> QED BY <1>2, <2>1, <2>2 DEF HandshakeInv
<1>5. ASSUME NEW t \in Senders, SpawnSender(t) PROVE HandshakeInv'
  <2>1. /\ UNCHANGED <<mon, rpc, pcap, recv_ready, ready_mutex, stats, send_complete, mpc>>
        /\ mpc = "spawn"
    BY <1>5 DEF SpawnSender, Create, Becomes, recvVars, stateVars
  <2>2. AtMaxResults' = AtMaxResults
    BY <2>1 DEF AtMaxResults
  <2> QED BY <1>2, <2>1, <2>2 DEF HandshakeInv
<1>6. CASE StartMonitor
  <2>1. /\ UNCHANGED <<th, rpc, pcap, recv_ready, ready_mutex, stats, send_complete>>
        /\ mpc = "spawn" /\ mpc' = "join_send"
        /\ mon' = mon \/ mon' = [mon EXCEPT !.pc = "test"]
    BY <1>6 DEF StartMonitor, recvVars, sendVars, stateVars
  <2>2. AtMaxResults' = AtMaxResults
    BY <2>1 DEF AtMaxResults
  <2> QED BY <1>2, <2>1, <2>2 DEF HandshakeInv
<1>7. CASE JoinSenders \/ JoinReceiver \/ JoinMonitor \/ WriteMetadata
  <2>1. /\ UNCHANGED <<th, mon, rpc, pcap, recv_ready, ready_mutex, stats, send_complete>>
        /\ mpc \notin {"start", "wait"} /\ mpc' \notin {"start", "wait"}
    BY <1>7 DEF JoinSenders, JoinReceiver, JoinMonitor, WriteMetadata, recvVars, sendVars,
                stateVars
  <2>2. AtMaxResults' = AtMaxResults
    BY <2>1 DEF AtMaxResults
  <2> QED BY <1>2, <2>1, <2>2 DEF HandshakeInv
<1> QED BY <1>3, <1>4, <1>5, <1>6, <1>7 DEF MainStep

(* The monitor uses the capture under recv_ready_mutex and only if it is   *)
(* open then.                                                              *)
LEMMA MonitorHandshake ==
  ASSUME ScanInv, MonitorStep
  PROVE  ScanInv'
<1>1. /\ UNCHANGED <<th, complete, send_complete, rpc, pcap, recv_ready, stats, mpc>>
  BY DEF MonitorStep, MonTest, MonLock, MonUnlock, MonSum, MonWrite, MonCheck, sendVars,
         totalVars, recvVars, stateVars
<1>2. ThreadsInv'
  BY <1>1, ThreadsUnchanged DEF ScanInv
<1>3. AtMaxResults' = AtMaxResults /\ HandshakeInv
  BY <1>1 DEF AtMaxResults, ScanInv
<1>4. CASE MonLock
  <2>1. /\ ready_mutex' = "monitor"
        /\ mon' = [mon EXCEPT !.pc = IF pcap = "open" THEN "use" ELSE "unlock"]
    BY <1>4 DEF MonLock
  <2>2. HandshakeInv'
    BY <1>1, <1>3, <2>1 DEF HandshakeInv
  <2> QED BY <1>2, <2>2 DEF ScanInv
<1>5. CASE ~ MonLock
  <2>1. \E pc \in {"lock", "sum", "write", "check", "fatal", "done", "test"} :
          \/ mon' = [mon EXCEPT !.pc = pc]
          \/ \E x : mon' = [mon EXCEPT !.pc = pc, !.last = x]
          \/ \E x : mon' = [mon EXCEPT !.pc = pc, !.fails = x]
    BY <1>5, Zenon
       DEF MonitorStep, MonTest, MonUnlock, MonSum, MonWrite, MonCheck, MonAfter
  <2>2. /\ mon'.pc \in {"lock", "sum", "write", "check", "fatal", "done", "test"}
        /\ mon' = [pc |-> mon'.pc, last |-> mon'.last, fails |-> mon'.fails]
    BY <1>3, <2>1, Zenon DEF HandshakeInv
  <2>3. HandshakeInv'
    BY <1>1, <1>3, <2>2 DEF HandshakeInv
  <2> QED BY <1>2, <2>3 DEF ScanInv
<1> QED BY <1>4, <1>5

(* Failures abort the process and leave the threads' state as it is.       *)
LEMMA EnvironmentHandshake ==
  ASSUME ScanInv, Environment \/ Cooling \/ UNCHANGED scanVars
  PROVE  ScanInv'
<1>1. UNCHANGED <<th, complete, send_complete, rpc, pcap, recv_ready, ready_mutex, stats,
                  mpc, mon>>
  BY DEF Environment, Cooling, CoolDown, ThreadInitFails, TimeUp, ReceiverFails,
         OpenCaptureFails, CaptureFails, SpawnFails, MonHitrate, scanVars, sendVars,
         totalVars, recvVars, stateVars
<1>2. ThreadsInv'
  BY <1>1, ThreadsUnchanged DEF ScanInv
<1>3. AtMaxResults' = AtMaxResults
  BY <1>1 DEF AtMaxResults
<1>4. HandshakeInv'
  BY <1>1, <1>3 DEF ScanInv, HandshakeInv
<1> QED BY <1>2, <1>4 DEF ScanInv

(* The handshake between the threads of a scan, in every reachable state.  *)
THEOREM ScanInvariant == ScanSpec => []ScanInv
<1>1. ScanInv /\ [ScanNext]_scanVars => ScanInv'
  <2> SUFFICES ASSUME ScanInv, [ScanNext]_scanVars PROVE ScanInv'
    OBVIOUS
  <2>1. CASE MainStep
    BY <2>1, MainHandshake
  <2>2. CASE MonitorStep
    BY <2>2, MonitorHandshake
  <2>3. CASE ScanReceiver
    BY <2>3, ReceiverHandshake
  <2>4. CASE Capture
    BY <2>4, CaptureHandshake
  <2>5. ASSUME NEW t \in Senders, ScanSender(t) PROVE ScanInv'
    BY <2>5, SenderHandshake
  <2>6. CASE Environment \/ Cooling \/ UNCHANGED scanVars
    BY <2>6, EnvironmentHandshake
  <2> QED BY <2>1, <2>2, <2>3, <2>4, <2>5, <2>6 DEF ScanNext, ScanFinished
<1> QED BY <1>1, InitScan, PTL DEF ScanSpec

(* Neither the monitor nor the receiver uses a closed capture, in any      *)
(* interleaving (monitor.c:179-185, recv.c:284-289).                       *)
THEOREM ScanCaptureOpenInUse == ScanSpec => []CaptureOpenInUse
<1>1. ScanInv => CaptureOpenInUse
  BY DEF ScanInv, HandshakeInv, CaptureOpenInUse
<1> QED BY <1>1, ScanInvariant, PTL

(* No sender exists before the receiver listens (zmap.c:228-237).          *)
THEOREM ScanListensBeforeProbing == ScanSpec => []ListensBeforeProbing
<1>1. ScanInv => ListensBeforeProbing
  BY DEF ScanInv, HandshakeInv, ListensBeforeProbing
<1> QED BY <1>1, ScanInvariant, PTL

(* The receiver closes its capture only after the last batch of the last   *)
(* sender was handed over, or with enough results (recv.c:270-290): this   *)
(* joins the invariant of the senders with that of the handshake.          *)
THEOREM ScanReceiverOutlivesSenders == ScanSpec => []ReceiverOutlivesSenders
<1>1. ScanInv => ReceiverOutlivesSenders
  <2> SUFFICES ASSUME ScanInv, rpc \in {"complete", "done"}, ~ AtMaxResults,
                      NEW t \in Senders
               PROVE  th[t].pc \in {"totals", "done"} /\ th[t].batch = <<>>
    BY DEF ReceiverOutlivesSenders
  <2>1. complete = Senders
    BY DEF ScanInv, HandshakeInv, ThreadsInv
  <2> QED BY <2>1 DEF ScanInv, ThreadsInv, ThreadInv, Ended
<1> QED BY <1>1, ScanInvariant, PTL

(* The count of failures is a function of the threads' records. *)
LEMMA SameTotal == UNCHANGED th => TotalFailed' = TotalFailed
BY DEF TotalFailed

(* Before the scan nobody is in shard_complete and nothing is reported.    *)
LEMMA InitReport == ScanInit => CallbackInv /\ ReportInv
<1> SUFFICES ASSUME ScanInit PROVE CallbackInv /\ ReportInv
  OBVIOUS
<1>1. /\ complete = {} /\ it_mutex = {} /\ send_complete = FALSE
      /\ mon = [pc |-> "none", last |-> FALSE, fails |-> 0] /\ mpc = "start" /\ proc = "running"
  BY DEF ScanInit, SendInit, StateInit
<1>2. \A t \in Senders : th[t].pc = "none"
  BY DEF ScanInit, SendInit
<1> QED BY <1>1, <1>2 DEF CallbackInv, ReportInv

(* A sender that steps is not done, so the monitor is not in its last      *)
(* round.                                                                  *)
LEMMA SenderReport ==
  ASSUME ScanInv, CallbackInv, ReportInv, NEW t \in Senders, ScanSender(t)
  PROVE  CallbackInv' /\ ReportInv'
<1>1. CallbackInv'
  BY SenderCallback DEF ScanSender, ScanInv, ThreadsInv
<1>2. th[t].pc # "done"
  BY Zenon
     DEF ScanSender, SenderStep, ThreadInit, FirstTarget, SearchList, Check, MakeProbe,
         Sendmmsg, SendReturns, NextTarget, SkipUnlisted, FlushReturns,
         ShardCompleteLocks, ShardCompleteUnlocks
<1>3. ~ mon.last
  BY <1>2 DEF CallbackInv, ReportInv
<1>4. UNCHANGED <<mon, mpc, conf, proc>>
  BY Zenon
     DEF ScanSender, SenderStep, ThreadInit, FirstTarget, SearchList, Check, MakeProbe,
         Sendmmsg, SendReturns, NextTarget, SkipUnlisted, FlushReturns,
         ShardCompleteLocks, ShardCompleteUnlocks, Becomes, recvVars, stateVars
<1>5. ReportInv'
  BY <1>3, <1>4 DEF ReportInv
<1> QED BY <1>1, <1>5

(* Neither the receiver nor the environment counts failures. *)
LEMMA OtherReport ==
  ASSUME CallbackInv, ReportInv, ScanReceiver \/ Capture \/ Environment \/ Cooling \/ UNCHANGED scanVars
  PROVE  CallbackInv' /\ ReportInv'
<1>1. /\ UNCHANGED <<th, complete, it_mutex, sendto_failures, send_complete, mpc, mon, conf>>
      /\ proc' = proc \/ proc' = "aborted"
  <2>1. CASE ScanReceiver
    BY <2>1, Zenon
       DEF ScanReceiver, ReceiverStep, OpenCapture, AnnounceReady, CountRow, LeaveLoop, FinalStats,
           CloseCapture, CompleteRecv, sendVars, totalVars, stateVars
  <2>2. CASE Capture
    BY <2>2 DEF Capture, Receive, DropPacket, RejectPacket, AcceptPacket, sendVars, totalVars, stateVars
  <2>3. CASE Environment
    BY <2>3, Zenon
       DEF Environment, ThreadInitFails, TimeUp, ReceiverFails, OpenCaptureFails, CaptureFails,
           SpawnFails, MonHitrate, LogFatal, sendVars, totalVars, recvVars, stateVars
  <2>4. CASE Cooling \/ UNCHANGED scanVars
    BY <2>4 DEF Cooling, CoolDown, scanVars, sendVars, totalVars, recvVars, stateVars
  <2> QED BY <2>1, <2>2, <2>3, <2>4
<1>2. TotalFailed' = TotalFailed
  BY <1>1, SameTotal
<1> QED BY <1>1, <1>2 DEF CallbackInv, ReportInv

(* Main joins the monitor before it writes the metadata, unless it is      *)
(* quiet.                                                                  *)
LEMMA MainReport ==
  ASSUME ScanInv, CallbackInv, ReportInv, MainStep, proc = "running"
  PROVE  CallbackInv' /\ ReportInv'
<1>1. ASSUME NEW t \in Senders, SpawnSender(t) PROVE CallbackInv' /\ ReportInv'
  <2>1. CallbackInv'
    BY <1>1, SenderCallback DEF SpawnSender, ScanInv, ThreadsInv
  <2>2. th[t].pc = "none" /\ mpc = "spawn" /\ UNCHANGED <<mon, mpc, conf, proc, send_complete>>
    BY <1>1 DEF SpawnSender, Create, Becomes, recvVars, stateVars
  <2>3. ~ mon.last
    BY <2>2 DEF CallbackInv, ReportInv
  <2> QED BY <2>1, <2>2, <2>3 DEF ReportInv
<1>2. ASSUME UNCHANGED <<th, complete, it_mutex, sendto_failures, send_complete, conf>>
      PROVE  CallbackInv' /\ TotalFailed' = TotalFailed
  BY <1>2, SameTotal DEF CallbackInv
<1>3. CASE StartReceiver \/ AwaitReady
  <2>1. /\ UNCHANGED <<th, complete, it_mutex, sendto_failures, send_complete, conf, mon, proc>>
        /\ mpc' \in {"wait", "spawn"}
    BY <1>3 DEF StartReceiver, AwaitReady, CreateReceiver, recvVars, sendVars, totalVars, stateVars
  <2> QED BY <1>2, <2>1 DEF ReportInv
<1>4. CASE StartMonitor
  <2>1. /\ UNCHANGED <<th, complete, it_mutex, sendto_failures, send_complete, conf, proc>>
        /\ mpc' = "join_send" /\ mon' \in {mon, [mon EXCEPT !.pc = "test"]}
    BY <1>4 DEF StartMonitor, recvVars, sendVars, totalVars, stateVars
  <2>2. mon = [pc |-> mon.pc, last |-> mon.last, fails |-> mon.fails]
    BY DEF ScanInv, HandshakeInv
  <2>3. mon'.last = mon.last /\ mon'.fails = mon.fails /\ mon'.pc \in {mon.pc, "test"}
    BY <2>1, <2>2
  <2> QED BY <1>2, <2>1, <2>3 DEF ReportInv
<1>5. CASE JoinSenders \/ JoinReceiver \/ JoinMonitor \/ WriteMetadata
  <2>1. /\ UNCHANGED <<th, complete, it_mutex, sendto_failures, send_complete, conf, mon>>
        /\ mpc' \in {"metadata", "done"} /\ ~ conf.quiet /\ ~ Dryrun => mon.pc = "done"
        /\ proc' = "completed" => mpc' = "done"
    BY <1>5 DEF JoinSenders, JoinReceiver, JoinMonitor, WriteMetadata, ReportInv, recvVars, sendVars,
         totalVars, stateVars
  <2> QED BY <1>2, <2>1 DEF ReportInv
<1> QED BY <1>1, <1>3, <1>4, <1>5 DEF MainStep

(* The monitor's last round begins when the senders are done; it takes the *)
(* sum and writes it over whatever was there.                              *)
LEMMA MonitorReport ==
  ASSUME ScanInv, CallbackInv, ReportInv, MonitorStep, proc = "running"
  PROVE  CallbackInv' /\ ReportInv'
<1>1. UNCHANGED <<th, complete, it_mutex, send_complete, mpc, conf>> /\ proc' # "completed"
  BY DEF MonitorStep, MonTest, MonLock, MonUnlock, MonSum, MonWrite, MonCheck, LogFatal, sendVars,
         totalVars, recvVars, stateVars
<1>2. CallbackInv' /\ TotalFailed' = TotalFailed
  BY <1>1, SameTotal DEF CallbackInv
<1>3. mon = [pc |-> mon.pc, last |-> mon.last, fails |-> mon.fails]
  BY DEF ScanInv, HandshakeInv
<1> DEFINE Joined == mpc \in {"metadata", "done"} /\ ~ conf.quiet /\ ~ Dryrun
<1>4. mon.pc # "done" /\ ~ Joined
  BY DEF MonitorStep, MonTest, MonLock, MonUnlock, MonSum, MonWrite, MonCheck, ReportInv
<1>5. CASE MonTest
  <2>1. mon'.pc = "lock" /\ (mon'.last => send_complete)
    BY <1>3, <1>5, Zenon DEF MonTest
  <2> QED BY <1>1, <1>2, <1>4, <2>1 DEF ReportInv
<1>6. CASE MonLock \/ MonUnlock
  <2>1. mon'.pc \in {"use", "unlock", "sum"} /\ mon'.last = mon.last
    BY <1>3, <1>6 DEF MonLock, MonUnlock
  <2> QED BY <1>1, <1>2, <1>4, <2>1 DEF ReportInv
<1>7. CASE MonSum
  <2>1. mon'.pc = "write" /\ mon'.last = mon.last /\ mon'.fails = TotalFailed
    BY <1>3, <1>7 DEF MonSum
  <2> QED BY <1>1, <1>2, <1>4, <2>1 DEF ReportInv
<1>8. CASE MonWrite
  <2>1. /\ mon.pc = "write" /\ mon'.pc = "check" /\ mon'.last = mon.last /\ mon'.fails = mon.fails
        /\ sendto_failures' = mon.fails
    BY <1>3, <1>8 DEF MonWrite
  <2> QED BY <1>1, <1>2, <1>4, <2>1 DEF ReportInv
<1>9. CASE MonCheck
  <2>1. UNCHANGED sendto_failures /\ mon.pc = "check"
    BY <1>9 DEF MonCheck, sendVars, totalVars
  <2>2. mon'.last = mon.last /\ mon'.fails = mon.fails /\ mon'.pc \in {"fatal", "done", "test"}
        /\ (mon'.pc = "done" => mon.last)
    BY <1>3, <1>9 DEF MonCheck, MonAfter
  <2> QED BY <1>1, <1>2, <1>4, <2>1, <2>2 DEF ReportInv
<1> QED BY <1>5, <1>6, <1>7, <1>8, <1>9 DEF MonitorStep

(* The number of failures in the metadata is exact when the monitor is     *)
(* joined (monitor.c:507, zmap.c:303-316): its last round comes after the  *)
(* last write of shard_complete, and takes a sum that no longer changes.   *)
THEOREM ScanFailuresReported == ScanSpec => []FailuresReported
<1>1. ScanInv /\ CallbackInv /\ ReportInv /\ [ScanNext]_scanVars => CallbackInv' /\ ReportInv'
  BY SenderReport, OtherReport, MainReport, MonitorReport DEF ScanNext, ScanFinished
<1>2. ReportInv => FailuresReported
  BY DEF ReportInv, FailuresReported
<1> QED BY <1>1, <1>2, InitReport, ScanInvariant, PTL DEF ScanSpec
-----------------------------------------------------------------------------

(* In a scan, too, only the receiver touches what full deduplication uses. *)
LEMMA ScanDedup ==
  ASSUME DedupInv, [ScanNext]_scanVars
  PROVE  DedupInv'
<1>0. send_complete \in BOOLEAN
  BY DEF DedupInv, RecvTypeOK
<1>1. ASSUME UNCHANGED recvVars, send_complete' \in BOOLEAN PROVE DedupInv'
  BY <1>1, SameDedup DEF recvVars
<1>2. CASE ScanReceiver
  BY <1>2, ReceiverDedup DEF ScanReceiver
<1>3. CASE Capture
  BY <1>3, CaptureDedup DEF Capture, CaptureStep
<1>4. CASE Cooling
  BY <1>0, <1>4, SameDedup DEF Cooling, CoolDown, stateVars
<1>5. ASSUME NEW t \in Senders, ScanSender(t) PROVE DedupInv'
  <2>1. send_complete' \in BOOLEAN
    <3>1. CASE ShardCompleteUnlocks(t)
      BY <3>1 DEF ShardCompleteUnlocks
    <3>2. CASE ~ ShardCompleteUnlocks(t)
      <4>1. UNCHANGED send_complete
        BY <1>5, <3>2, Zenon
           DEF ScanSender, SenderStep, ThreadInit, FirstTarget, SearchList, Check, MakeProbe,
               Sendmmsg, SendReturns, NextTarget, SkipUnlisted, FlushReturns,
               ShardCompleteLocks, Becomes, stateVars
      <4> QED BY <1>0, <4>1
    <3> QED BY <3>1, <3>2
  <2>2. UNCHANGED recvVars
    BY <1>5 DEF ScanSender
  <2> QED BY <1>1, <2>1, <2>2
<1>6. CASE MainStep
  <2>1. CASE StartReceiver
    <3>1. /\ UNCHANGED <<conf, captured, seen, row, rows, stats, send_complete>>
          /\ rpc = "count" <=> rpc' = "count"
      BY <2>1 DEF StartReceiver, CreateReceiver, recvVars, stateVars
    <3> QED BY <1>0, <3>1, SameDedup
  <2>2. CASE ~ StartReceiver
    <3>1. UNCHANGED <<recvVars, send_complete>>
      BY <1>6, <2>2 DEF MainStep, AwaitReady, SpawnSender, Create, Becomes, StartMonitor, JoinSenders,
         JoinReceiver, JoinMonitor, WriteMetadata, stateVars
    <3> QED BY <1>0, <1>1, <3>1
  <2> QED BY <2>1, <2>2
<1>7. CASE MonitorStep
  <2>1. /\ UNCHANGED <<conf, captured, seen, row, rows, stats, send_complete, rpc>>
    BY <1>7 DEF MonitorStep, MonTest, MonLock, MonUnlock, MonSum, MonWrite, MonCheck, recvVars, stateVars
  <2> QED BY <1>0, <2>1, SameDedup
<1>8. CASE Environment \/ UNCHANGED scanVars
  <2>1. UNCHANGED <<recvVars, send_complete>>
    BY <1>8 DEF Environment, ThreadInitFails, TimeUp, ReceiverFails, OpenCaptureFails, CaptureFails,
         SpawnFails, MonHitrate, scanVars, stateVars
  <2> QED BY <1>0, <1>1, <2>1
<1> QED BY <1>2, <1>3, <1>4, <1>5, <1>6, <1>7, <1>8 DEF ScanNext, ScanFinished

(* Full deduplication in a whole scan over IPv4: while the senders, the    *)
(* monitor and main run beside handle_packet, no address is output twice   *)
(* as a success that is no repeat.                                         *)
THEOREM ScanNoDuplicateRows == ScanSpec => []NoDuplicateRows
<1>1. DedupInv /\ [ScanNext]_scanVars => DedupInv'
  BY ScanDedup
<1>2. ScanInit => DedupInv
  BY InitDedup DEF ScanInit
<1>3. DedupInv => NoDuplicateRows
  BY DEF DedupInv, NoDuplicateRows
<1> QED BY <1>1, <1>2, <1>3, PTL DEF ScanSpec

(* In a scan, too, only the senders make and send probes.                  *)
LEMMA ScanProbes ==
  ASSUME DistinctTargets, OnePort, ScanInv, ProbesInv, [ScanNext]_scanVars
  PROVE  ProbesInv'
<1>1. CASE UNCHANGED th
  BY <1>1 DEF ProbesInv, AtTarget, OrderInv, CoverInv, IsMade, Made, Streams, Whole
<1>2. ASSUME NEW t \in Senders, ScanSender(t) \/ SpawnSender(t) PROVE ProbesInv'
  BY <1>2, SenderProbes DEF ScanSender, SpawnSender, ScanInv
<1>3. CASE MainStep
  <2>1. CASE \E t \in Senders : SpawnSender(t)
    BY <1>2, <2>1
  <2>2. CASE ~ \E t \in Senders : SpawnSender(t)
    BY <1>1, <1>3, <2>2 DEF MainStep, StartReceiver, CreateReceiver, AwaitReady, StartMonitor,
       JoinSenders, JoinReceiver, JoinMonitor, WriteMetadata, sendVars
  <2> QED BY <2>1, <2>2
<1>4. CASE MonitorStep
  BY <1>1, <1>4 DEF MonitorStep, MonTest, MonLock, MonUnlock, MonSum, MonWrite, MonCheck, sendVars
<1>5. CASE ScanReceiver \/ Capture \/ Cooling \/ UNCHANGED scanVars
  BY <1>1, <1>5 DEF ScanReceiver, Capture, Cooling, scanVars, sendVars
<1>6. CASE Environment
  BY <1>1, <1>6 DEF Environment, ThreadInitFails, TimeUp, SpawnFails, MonHitrate, sendVars
<1> QED BY <1>2, <1>3, <1>4, <1>5, <1>6 DEF ScanNext, ScanFinished

(* The probes of a whole scan: whatever the receiver, the monitor and main *)
(* do meanwhile, no thread sends a probe twice, and one that ran to the    *)
(* end of its subshard without a loss sent all but those of the first      *)
(* target (send.c:437-519).                                                *)
THEOREM ScanProbesInvariant ==
  ASSUME DistinctTargets, OnePort
  PROVE  ScanSpec => [](NoProbeTwice /\ RestProbed)
<1>1. ScanInit => ProbesInv
  BY InitProbes DEF ScanInit
<1>2. ScanInv /\ ProbesInv /\ [ScanNext]_scanVars => ProbesInv'
  BY ScanProbes
<1>3. ScanInv /\ ProbesInv => NoProbeTwice /\ RestProbed
  BY ProbesRest, Zenon DEF ScanInv, ProbesInv, OrderInv, NoProbeTwice
<1> QED BY <1>1, <1>2, <1>3, ScanInvariant, PTL DEF ScanSpec
=============================================================================
