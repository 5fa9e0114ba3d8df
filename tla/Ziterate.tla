------------------------------ MODULE Ziterate ------------------------------
(***************************************************************************)
(* ziterate (src/src/ziterate.c): prints the targets of one shard in the   *)
(* order a scan would visit them.  One process runs per shard; they share  *)
(* nothing but the seed, hence the cycle.  This is the plainest client of  *)
(* the iterator, and the module in which the partition of the target space *)
(* is checked.  There is no limit on the lines: -n is parsed with          *)
(* zconf.ports->port_count (ziterate.c:133) while zconf.ports is still     *)
(* NULL, so a process that is given one never gets to its loop, and the    *)
(* test of conf.max_hosts in the loop always sees zero.                    *)
(***************************************************************************)
EXTENDS Shard

CONSTANT
  Words   \* the random words the AES generator may yield

ASSUME ZiterateAssumption ==
  /\ NumThreads = 1 /\ MaxTargets = 0   \* ziterate leaves zsend.max_targets 0
  /\ Words \subseteq 0 .. W64 - 1

VARIABLES
  cycle,    \* it->cycle, the same in every process
  shard,    \* the subshard record of each process
  pc,       \* where main is: see PC
  current,  \* the local variable current of main
  printed   \* the lines written so far

vars == <<cycle, shard, pc, current, printed>>

Procs == 0 .. NumShards - 1

(* In shard_roll_to_valid; in the loop of shard_get_next_target called     *)
(* from there; at the head of main's loop; in shard_get_next_target called *)
(* at its end; returned.                                                   *)
PC == {"roll", "rolling", "print", "fetch", "exited"}

Init ==
  /\ \E words \in Words \X Words : cycle = MakeCycle(ScanGroup, words)
  /\ shard = [n \in Procs |-> ShardInit(cycle, <<n, 0>>)]
  /\ pc = [n \in Procs |-> "roll"]
  /\ current = [n \in Procs |-> DoneTarget]
  /\ printed = [n \in Procs |-> <<>>]

(* shard_roll_to_valid with a valid start, then shard_get_cur_target. *)
StartHere(n) ==
  /\ pc[n] = "roll" /\ StartsValid(shard[n])
  /\ current' = [current EXCEPT ![n] = GetCurTarget(shard[n])]
  /\ pc' = [pc EXCEPT ![n] = "print"]
  /\ UNCHANGED <<cycle, shard, printed>>

StartRolling(n) ==
  /\ pc[n] = "roll" /\ ~ StartsValid(shard[n])
  /\ pc' = [pc EXCEPT ![n] = "rolling"]
  /\ UNCHANGED <<cycle, shard, current, printed>>

(* One round of shard_get_next_target.  Its result is discarded when it    *)
(* was called to roll: main then asks for the current target.              *)
Walk(n) ==
  LET round == NextTargetRound(shard[n])
  IN  /\ pc[n] \in {"rolling", "fetch"}
      /\ shard' = [shard EXCEPT ![n] = round.shard]
      /\ IF round.returns
         THEN /\ pc' = [pc EXCEPT ![n] = "print"]
              /\ current' = [current EXCEPT ![n] =
                    IF pc[n] = "fetch" THEN round.target
                                       ELSE GetCurTarget(round.shard)]
         ELSE UNCHANGED <<pc, current>>
      /\ UNCHANGED <<cycle, printed>>

(* One round of main's loop prints the current target and asks for the     *)
(* next, which the test at the head of shard_get_next_target cannot refuse *)
(* here: main has left the loop by then.                                   *)
PrintTarget(n) ==
  /\ pc[n] = "print" /\ current[n].ip # 0
  /\ printed' = [printed EXCEPT ![n] = Append(@, <<current[n].ip, current[n].port>>)]
  /\ pc' = [pc EXCEPT ![n] = "fetch"]
  /\ UNCHANGED <<cycle, shard, current>>

(* The loop ends at address 0. *)
Exit(n) ==
  /\ pc[n] = "print" /\ current[n].ip = 0
  /\ pc' = [pc EXCEPT ![n] = "exited"]
  /\ UNCHANGED <<cycle, shard, current, printed>>

AllExited == \A n \in Procs : pc[n] = "exited"

Finished == AllExited /\ UNCHANGED vars

Run(n) == StartHere(n) \/ StartRolling(n) \/ Walk(n) \/ PrintTarget(n) \/ Exit(n)

Next == (\E n \in Procs : Run(n)) \/ Finished

(* The operating system goes on running every process. *)
Spec == Init /\ [][Next]_vars /\ \A n \in Procs : WF_vars(Run(n))
-----------------------------------------------------------------------------
Printed(n) == {printed[n][k] : k \in DOMAIN printed[n]}

TimesPrinted(target) ==
  Cardinality({<<n, k>> \in Procs \X (1 .. ScanGroup.prime) :
                 k \in DOMAIN printed[n] /\ printed[n][k] = target})

(* The elements past the width of an address index that stand for target:  *)
(* extract_ip cuts their index to 32 bits, and it is accepted.  They are   *)
(* there when the group has more than 2^32 indices, as it does for one     *)
(* port and more than 2^28 addresses (indices up to 2^32 + 13).            *)
Aliases ==
  [target \in AllTargets |->
     {elem \in 1 .. ScanGroup.prime - 1 :
        /\ (elem - 1) \div 2 ^ BitsForPort >= W32
        /\ Accepts(elem)
        /\ <<OkTarget(elem).ip, OkTarget(elem).port>> = target}]

(* No target is printed twice, by one process or by two: the subshards'    *)
(* exponent ranges (shard.c:75-86) are disjoint and two elements below the *)
(* width stand for different targets (shard.c:179-184).  The exception is  *)
(* a target with aliases (shard.c:28), which may be printed again for each *)
(* of them and not more often.                                             *)
EveryTargetOnce ==
  \A target \in AllTargets : TimesPrinted(target) <= 1 + Cardinality(Aliases[target])

(* When every process has come to its end, every target was printed, and   *)
(* nothing else: no element falls between two subshards (the last one      *)
(* takes the remainder of the division at shard.c:75-81), and rolling to a *)
(* valid start loses none.                                                 *)
EveryTargetCovered ==
  AllExited => UNION {Printed(n) : n \in Procs} = AllTargets

(* The powers of each generator there may be. *)
Powers ==
  [g \in 1 .. MaxRoot - 1 |->
     [x \in 0 .. ScanGroup.prime - 2 |-> PowMod(g, x, ScanGroup.prime)]]

(* The exponent of the element at which process n is, less the offset; a   *)
(* subshard that is done is at the exponent before its last.               *)
Exponent(n) ==
  LET order == cycle.order
      Log(e) == CHOOSE x \in 0 .. order - 1 : Powers[cycle.generator][x] = e
      elem == IF shard[n].current = ShardDone THEN shard[n].last ELSE shard[n].current
      back == IF shard[n].current = ShardDone THEN 1 ELSE 0
  IN  (Log(elem) + 2 * order - cycle.offset - back) % order

(* Every subshard walks its own exponents, one after the other: the walk   *)
(* by multiplication in shard.c implements that of module ShardWalk.       *)
Abstract ==
  INSTANCE ShardWalk WITH
    Q <- ScanGroup.prime - 1, S <- NumSubshards,
    at <- [n \in Procs |-> Exponent(n)],
    done <- [n \in Procs |-> shard[n].current = ShardDone],
    visited <- [n \in Procs |->
      ((ScanGroup.prime - 1) \div NumSubshards) * n .. Exponent(n)]

(* shard_init and shard_get_next_elem implement module ShardWalk: whatever *)
(* the generator and the offset, a step multiplies by the generator once,  *)
(* stays in the subshard's range of exponents, and ends with it.           *)
WalksSubshards == Abstract!Spec

(* The walk of every subshard ends: it meets params.last (shard.c:173).    *)
Termination == <>AllExited
=============================================================================
