-------------------------------- MODULE Zmap --------------------------------
(***************************************************************************)
(* The start of zmap (src/src/zmap.c, main): the options are checked one   *)
(* group after the other and become the configuration zconf, until         *)
(* start_zmap and send_init make the subshards.  Any failed check ends the *)
(* program.                                                                *)
(*                                                                         *)
(* The options of a group are chosen when main comes to them; an option    *)
(* that is not given is None.  The machine widths are scaled as in Cyclic; *)
(* W8 stands for 2^8 and W16 for 2^16.  The scan itself is module Scan,    *)
(* the subshards are those of module Shard.                                *)
(***************************************************************************)
EXTENDS Cyclic, Fieldset

CONSTANTS
  None,            \* an option that is not given
  W8, W16,
  DefaultSourcePorts,  \* how many source ports the default range has
  ProbeModules,    \* [name, port_args, dynamic, fields]; fields are [name, type]
  SourcePortArgs,  \* --source-port: <<port>> or <<first, last>>, or None
  ProbesArgs,      \* --probes
  TargetPortArgs,  \* --target-ports: sequence of <<first, last>>, or None
  OutputFieldArgs, \* --output-fields: sequence of names, <<"*">>, or None
  FilterArgs,      \* --output-filter: [kind, text], or None
  ShardArgs,       \* --shard, or None
  ShardsArgs,      \* --shards, or None
  MaxTargetsArgs,  \* --max-targets: [num, percent], or None
  ThreadArgs,      \* --sender-threads, or None
  AllowedCounts,   \* what blocklist_count_allowed may be
  CoreCounts       \* what get_num_cores may be

VARIABLES
  phase,   \* the group of options main is at, or how it ended
  zconf,   \* the configuration as far as it is set
  zsend    \* zsend.max_targets

zmapVars == <<phase, zconf, zsend>>

INSTANCE Filter WITH UInt <- W32, ULong <- W64

(* The subshards that send_init makes of a configuration. *)
Sh(addrs, ports, shards, threads, limit) ==
  INSTANCE Shard WITH NumAddrs <- addrs, NumPorts <- ports, NumShards <- shards,
                      NumThreads <- threads, MaxTargets <- limit

(* The defaults of zconf in state.c that main may overwrite. *)
Init ==
  /\ phase = "args"
  /\ zconf = [default_mode |-> FALSE, probe |-> None, fields |-> None,
              filter |-> None, ipv6 |-> FALSE, packet_streams |-> 1,
              num_source_ports |-> DefaultSourcePorts, ports |-> << >>, dedup |-> None,
              translation |-> << >>, shard_num |-> 0, total_shards |-> 1,
              max_targets |-> W64 - 1, total_allowed |-> 0, senders |-> 1]
  /\ zsend = 0

Goto(p, z) == phase' = p /\ zconf' = z /\ UNCHANGED zsend
Quit       == Goto("exit", zconf)   \* log_fatal, or exit after an error or a listing

(* The command line and the configuration file are parsed; a log file and  *)
(* a log directory exclude each other, and the log must open.              *)
ParseArgs(parsed, logFile, logDirectory, opens) ==
  /\ phase = "args"
  /\ \/ ~parsed /\ Quit
     \/ parsed /\ (logFile /\ logDirectory) /\ Quit
     \/ parsed /\ (logFile # logDirectory) /\ ~opens /\ Quit
     \/ /\ parsed /\ ~(logFile /\ logDirectory)
        /\ (logFile # logDirectory) => opens
        /\ Goto("modules", zconf)

OutputModules == {"csv", "json"}
SupportsDynamic(output) == output = "json"

(* The output module, the probe module, and the options that only print    *)
(* something.  The default mode is left by any of the three output options *)
(* (fields and filter are looked at later); cmdline_parser_required may    *)
(* miss an option.  The fields are those of the IP header, of the probe    *)
(* module and of the system, and must have what the framework needs.       *)
ChooseModules(output, probe, fieldsArg, filterArg, prints, complete) ==
  LET name == IF output = None THEN "csv" ELSE output
      has(f) == \E i \in DOMAIN probe.fields : probe.fields[i].name = f
  IN  /\ phase = "modules"
      /\ \/ name \notin OutputModules /\ Quit
         \/ name \in OutputModules /\ probe = None /\ Quit
         \/ /\ name \in OutputModules /\ probe # None
            /\ \/ probe.dynamic /\ ~SupportsDynamic(name) /\ Quit
               \/ /\ probe.dynamic => SupportsDynamic(name)
                  /\ \/ prints /\ Quit
                     \/ ~prints /\ ~complete /\ Quit
                     \/ /\ ~prints /\ complete
                        /\ ~has("success") \/ ~has("classification")
                        /\ Quit
                     \/ /\ ~prints /\ complete
                        /\ has("success") /\ has("classification")
                        /\ Goto("settings",
                             [zconf EXCEPT
                               !.probe = probe, !.fields = fieldsArg, !.filter = filterArg,
                               !.default_mode = output = None /\ fieldsArg = None
                                                  /\ filterArg = None])

(* The SET_IF_GIVENs and the checks up to the metadata. *)
Settings(ipv6, ipv6Source, retriesValid, metadataValid, streams) ==
  /\ phase = "settings"
  /\ \/ ((ipv6 /\ ~ipv6Source) \/ ~retriesValid \/ ~metadataValid) /\ Quit
     \/ /\ ipv6 => ipv6Source
        /\ retriesValid /\ metadataValid
        /\ Goto("ports", [zconf EXCEPT !.ipv6 = ipv6, !.packet_streams = streams])

(* enforce_range. *)
InRange(v, min, max) == min <= v /\ v <= max

(* The source ports.  The ends of a range are stored in a uint16_t before  *)
(* they are checked; a single port is checked first.                       *)
SourcePorts(arg) ==
  IF Len(arg) = 1 THEN <<arg[1], arg[1]>> ELSE <<arg[1] % W16, arg[2] % W16>>

SourcePortsValid(arg) ==
  LET range == SourcePorts(arg)
  IN  /\ InRange(range[1], 0, W16 - 1) /\ InRange(range[2], 0, W16 - 1)
      /\ range[1] <= range[2]

NumSourcePorts(arg) == SourcePorts(arg)[2] - SourcePorts(arg)[1] + 1

(* parse_ports: every port of every range in turn, as often as it occurs. *)
PortsValid(def) ==
  \A i \in DOMAIN def : /\ def[i][1] <= def[i][2]
                        /\ InRange(def[i][1], 0, W16 - 1)
                        /\ InRange(def[i][2], 0, W16 - 1)

ParsePorts(def) ==
  FlattenSeq([i \in DOMAIN def |->
                [k \in 1 .. def[i][2] - def[i][1] + 1 |-> def[i][1] + k - 1]])

(* Source and target ports.  A module without ports takes neither; its one *)
(* target port is 0.  IPv6 has one port only.                              *)
Ports(overrideValid, source, target) ==
  LET portArgs == zconf.probe.port_args
      def == IF target = None THEN << <<0, 0>> >> ELSE target
      useSource == portArgs /\ source # None
  IN  /\ phase = "ports"
      /\ \/ ~overrideValid /\ Quit
         \/ overrideValid /\ useSource /\ ~SourcePortsValid(source) /\ Quit
         \/ /\ overrideValid
            /\ useSource => SourcePortsValid(source)
            /\ \/ useSource /\ zconf.packet_streams > NumSourcePorts(source)
               \/ portArgs = (target = None)
               \/ ~PortsValid(def)
               \/ zconf.ipv6 /\ Len(ParsePorts(def)) > 1
            /\ Quit
         \/ /\ overrideValid
            /\ useSource => /\ SourcePortsValid(source)
                            /\ zconf.packet_streams <= NumSourcePorts(source)
            /\ portArgs = (target # None)
            /\ PortsValid(def)
            /\ zconf.ipv6 => Len(ParsePorts(def)) = 1
            /\ Goto("output",
                 [zconf EXCEPT
                   !.ports = ParsePorts(def),
                   !.num_source_ports = IF useSource THEN NumSourcePorts(source) ELSE @])

PortCount == Len(zconf.ports)

DedupMethods == {"none", "full", "window"}

DedupMethod(arg) ==
  IF arg \in {None, "default"} THEN IF PortCount > 1 THEN "window" ELSE "full"
  ELSE arg

FieldNames == [i \in DOMAIN zconf.probe.fields |-> zconf.probe.fields[i].name]

(* Where the fields that are output are: all of them for a star.  By       *)
(* default the address, and the port if there are several.                 *)
Translation ==
  IF zconf.fields = <<"*">> THEN FsGenerateFullFieldsetTranslation(FieldNames)
  ELSE FsGenerateFieldsetTranslation(FieldNames,
         IF zconf.fields # None THEN zconf.fields
         ELSE IF PortCount > 1 THEN <<"saddr", "sport">> ELSE <<"saddr">>)

(* Deduplication, the output fields and their translation, and the filter. *)
(* With the default mode there is no filter expression: the receiver drops *)
(* what the mode drops.                                                    *)
Output(dedupArg) ==
  LET dedup == DedupMethod(dedupArg)
      hasFilter == zconf.filter # None /\ zconf.filter.kind # "empty"
      tree == ParseFilterString(zconf.filter.text)
  IN  /\ phase = "output"
      /\ \/ dedup \notin DedupMethods /\ Quit
         \/ dedup = "full" /\ PortCount > 1 /\ Quit
         \/ /\ dedup \in DedupMethods /\ (dedup = "full" => PortCount = 1)
            /\ \/ 0 \in Range(Translation)
               \/ hasFilter /\ zconf.filter.kind = "unparsable"
               \/ /\ hasFilter /\ zconf.filter.kind = "text"
                  /\ ~ValidateFilter(tree, zconf.probe.fields)
            /\ Quit
         \/ /\ dedup \in DedupMethods /\ (dedup = "full" => PortCount = 1)
            /\ 0 \notin Range(Translation)
            /\ hasFilter => /\ zconf.filter.kind = "text"
                            /\ ValidateFilter(tree, zconf.probe.fields)
            /\ Goto("shards", [zconf EXCEPT !.dedup = dedup, !.translation = Translation])

ShardRange(shard, shards) ==
  /\ InRange(shard, 0, W16 - 2) /\ InRange(shards, 1, W16 - 1)
  /\ shard < shards

(* Source addresses and MACs, the seed, and sharding, which needs a seed   *)
(* and both of its numbers.                                                *)
Sharding(addressesValid, seeded, shard, shards) ==
  LET sharded == shard # None \/ shards # None
  IN  /\ phase = "shards"
      /\ \/ ~addressesValid /\ Quit
         \/ addressesValid /\ ~sharded /\ Goto("limits", zconf)
         \/ /\ addressesValid /\ sharded
            /\ \/ ~seeded \/ shard = None \/ shards = None
               \/ shard # None /\ shards # None /\ ~ShardRange(shard, shards)
            /\ Quit
         \/ /\ addressesValid /\ sharded
            /\ seeded /\ shard # None /\ shards # None
            /\ ShardRange(shard, shards)
            /\ Goto("limits", [zconf EXCEPT !.shard_num = shard, !.total_shards = shards])

(* parse_max_targets: a number, or a percentage of all addresses and ports *)
(* (whatever the lists allow), cut to a whole number and to that space.    *)
ParseMaxTargets(arg) ==
  LET space == W32 * PortCount
      v     == IF arg.percent THEN (arg.num * space) \div 100 ELSE arg.num
  IN  IF arg.num <= 0 THEN 0 ELSE IF v >= space THEN space ELSE v

(* The bandwidth's suffix, the batch size and the limit's number must be   *)
(* well formed.                                                            *)
Limits(valid, arg) ==
  /\ phase = "limits"
  /\ \/ ~valid /\ Quit
     \/ /\ valid
        /\ Goto("lists",
             [zconf EXCEPT !.max_targets = IF arg = None THEN @ ELSE ParseMaxTargets(arg)])

(* The block- and allowlist (module Blocklist), whose initialisation may   *)
(* fail, the list of addresses, and the limit's way to the senders, where  *)
(* 0 means that there is none.                                             *)
Lists(valid, allowed) ==
  /\ phase = "lists"
  /\ \/ (~valid \/ allowed = 0) /\ Quit
     \/ /\ valid /\ allowed # 0
        /\ phase' = "network"
        /\ zconf' = [zconf EXCEPT !.total_allowed = allowed]
        /\ zsend' = IF zconf.max_targets # 0 THEN zconf.max_targets ELSE zsend

(* network_config_init: interface, address and gateway are looked up when  *)
(* they are not given.                                                     *)
NetworkConfigInit(found) ==
  /\ phase = "network"
  /\ \/ ~found /\ Quit
     \/ found /\ Goto("senders", zconf)

(* The number of senders: as given, cut to a byte, or one for each of at   *)
(* most four cores but one; one alone when the limit is at most two for    *)
(* each, which the limit 0 always is.                                      *)
NumSenders(given, cores) ==
  LET auto == Min({IF cores > 1 THEN cores - 1 ELSE cores, 4,
                   zconf.total_allowed * PortCount})
      n    == IF given = None THEN auto ELSE given % W8
  IN  IF 2 * n >= zsend THEN 1 ELSE n

Senders(given, cores) ==
  /\ phase = "senders"
  /\ \/ given # None /\ given > W8 - 1 /\ Quit
     \/ /\ given # None => given <= W8 - 1
        /\ Goto("start", [zconf EXCEPT !.senders = NumSenders(given, cores)])

NumSubshards == zconf.senders * zconf.total_shards

(* Mutant: subshards are compared with addresses. *)
TooManySubshards_Addresses ==
  \/ NumSubshards > W32
  \/ zsend # 0 /\ NumSubshards > zsend

(* The checks of send_init. *)
TooManySubshards ==
  \/ NumSubshards > zconf.total_allowed * PortCount
  \/ zsend # 0 /\ NumSubshards > zsend

(* start_zmap up to the first thread: the output module is initialised and *)
(* send_init makes the iterator; an IPv6 scan needs a readable source      *)
(* address and target file.                                                *)
StartZmap(outputValid, ipv6Valid) ==
  /\ phase = "start"
  /\ \/ (~outputValid \/ (zconf.ipv6 /\ ~ipv6Valid) \/ TooManySubshards) /\ Quit
     \/ /\ outputValid /\ (zconf.ipv6 => ipv6Valid) /\ ~TooManySubshards
        /\ Goto("running", zconf)

DedupArgs == DedupMethods \cup {None, "default", "unknown"}

Next ==
  \/ \E parsed, logFile, logDirectory, opens \in BOOLEAN :
       ParseArgs(parsed, logFile, logDirectory, opens)
  \/ \E output \in OutputModules \cup {None, "unknown"},
        probe \in ProbeModules \cup {None},
        fieldsArg \in OutputFieldArgs, filterArg \in FilterArgs,
        prints, complete \in BOOLEAN :
       ChooseModules(output, probe, fieldsArg, filterArg, prints, complete)
  \/ \E ipv6, ipv6Source, retriesValid, metadataValid \in BOOLEAN, streams \in ProbesArgs :
       Settings(ipv6, ipv6Source, retriesValid, metadataValid, streams)
  \/ \E overrideValid \in BOOLEAN, source \in SourcePortArgs, target \in TargetPortArgs :
       Ports(overrideValid, source, target)
  \/ \E dedupArg \in DedupArgs : Output(dedupArg)
  \/ \E addressesValid, seeded \in BOOLEAN, shard \in ShardArgs, shards \in ShardsArgs :
       Sharding(addressesValid, seeded, shard, shards)
  \/ \E valid \in BOOLEAN, arg \in MaxTargetsArgs : Limits(valid, arg)
  \/ \E valid \in BOOLEAN, allowed \in AllowedCounts : Lists(valid, allowed)
  \/ \E found \in BOOLEAN : NetworkConfigInit(found)
  \/ \E given \in ThreadArgs, cores \in CoreCounts : Senders(given, cores)
  \/ \E outputValid, ipv6Valid \in BOOLEAN : StartZmap(outputValid, ipv6Valid)

Spec == Init /\ [][Next]_zmapVars

-----------------------------------------------------------------------------
(* The scan begins, with a sender at all (there is none for -T 0). *)
Started == phase = "running" /\ zconf.senders # 0

Targets == zconf.total_allowed * PortCount

Order ==
  Sh(zconf.total_allowed, PortCount, zconf.total_shards, zconf.senders, zsend)!ScanGroup.prime - 1

(* The limit shard_init gives to subshard i of all processes' subshards; 0 *)
(* is no limit.                                                            *)
Share(i) ==
  IF zsend = 0 THEN 0
  ELSE Sh(zconf.total_allowed, PortCount, zconf.total_shards, zconf.senders,
          zsend)!ShareOfTargets(i)

Shares == {Share(i) : i \in 0 .. NumSubshards - 1}

SumOfShares == MapThenSumSet(Share, 0 .. NumSubshards - 1)

(* What main and send_init let pass satisfies the assertions at the head   *)
(* of shard_init, which compare the subshards with the elements of the     *)
(* group and with the limit: they can fail only where the lists allow      *)
(* exactly as many targets as the group has elements and every subshard is *)
(* to have one of them.                                                    *)
SubshardsFit ==
  Started =>
    /\ zconf.shard_num < zconf.total_shards
    /\ NumSubshards < Order \/ NumSubshards = Targets
    /\ zsend # 0 => NumSubshards <= zsend

(* A limit that fits 32 bits is shared out in full: the subshards of all   *)
(* processes together may probe exactly as many targets as the user asked  *)
(* for, and none of them gets the share 0, which would mean no limit.      *)
(* This depends on main having dropped to one sender or send_init having   *)
(* refused when there are more subshards than targets.                     *)
LimitShared ==
  Started /\ zconf.max_targets \in 1 .. W32 - 1 =>
    SumOfShares = zconf.max_targets /\ 0 \notin Shares

(* Without --max-targets the scan reaches all of its targets: some         *)
(* subshard is without a limit or the limits add up to the targets.        *)
UnlimitedReachesAll ==
  Started /\ zconf.max_targets = W64 - 1 =>
    0 \in Shares \/ SumOfShares >= Targets

RECURSIVE SmallLiterals(_)
SmallLiterals(f) ==
  IF IsChain(f) THEN \A i \in DOMAIN f.operands : SmallLiterals(f.operands[i])
  ELSE f.lit.num < W32 \div 2

Values(type) ==
  IF type = "string" THEN [num : {5}, str : {"synack", "rst"}]
  ELSE IF type = "bool" THEN [num : {0, 1}, str : {"?"}]
  ELSE [num : {1, 2, W32 - 1}, str : {"?"}]

Rows(fields) ==
  {row \in [DOMAIN fields -> Values("string") \cup Values("bool") \cup Values("int")] :
     \A i \in DOMAIN fields : row[i] \in Values(fields[i].type)}

(* A filter that main accepts selects the rows its text describes: no      *)
(* comparison reads a string as a number or a number as a string, the      *)
(* precedence of the connectives and the parentheses survive in the tree,  *)
(* and the indices found at the start are those of the named fields.  Rows *)
(* have no null strings here and numbers in a filter are below 2^31.       *)
FilterMeansWritten ==
  /\ phase = "shards" /\ zconf.filter # None
  /\ zconf.filter.kind = "text" /\ SmallLiterals(zconf.filter.text)
  => LET tree == ParseFilterString(zconf.filter.text)
         fields == zconf.probe.fields
     IN  \A row \in Rows(fields) :
           EvaluateExpression(tree, fields, row) = FilterSays(zconf.filter.text, fields, row)
=============================================================================
