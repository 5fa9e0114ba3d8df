------------------------------- MODULE Probes -------------------------------
(***************************************************************************)
(* Probe modules at work: send_init gives the module its options and sets  *)
(* the rate, send_run lets it prepare and fill packets, the network        *)
(* answers, and handle_packet lets it validate what is captured and fill a *)
(* row (src/src/send.c, src/src/recv.c, src/src/probe_modules).            *)
(*                                                                         *)
(* The network may answer a probe, return it in an ICMP error sent by the  *)
(* target or by a router, and deliver what resembles an answer but for one *)
(* field.  origin records which of these the last packet was.              *)
(***************************************************************************)
EXTENDS ProbeTcp, ProbeIcmp, ProbeDns

CONSTANTS
  Configs,      \* the options a scan may be started with
  Targets,      \* the hosts that are probed
  OtherHosts,   \* a router, and hosts that are not probed
  RateBits,     \* width of zconf.rate, 32 in the code
  MaxSent       \* bound: probes sent

ASSUME ProbesAssumption ==
  RateBits \in Nat \ {0} /\ MaxSent \in Nat /\ Targets \subseteq AllowedHosts

VARIABLES
  phase,    \* "start", "initialized", "sending", "closed" or "failed"
  rate,     \* zconf.rate
  sent,     \* the probes sent
  origin,   \* what the last packet captured is
  got,      \* the last packet captured
  row       \* what became of it

probesVars == <<conf, mod, buf, phase, rate, sent, origin, got, row>>

Ipv6Modules == {"ipv6_tcp_synscan", "ipv6_tcp_synopt", "ipv6_udp", "ipv6_dns",
                "ipv6_quic_initial", "icmp6_echoscan", "icmp6_echo_time_novalidation"}

(* Modules without port_args probe port 0. *)
PortlessModules == {"icmp_echoscan", "icmp_echo_time", "icmp6_echoscan",
                    "icmp6_echo_time_novalidation"}

Ports == IF conf.module \in PortlessModules THEN {0} ELSE TargetPorts

Ipv6 == conf.module \in Ipv6Modules
-----------------------------------------------------------------------------
(* The module table: get_probe_module_by_name and the callbacks. *)

GlobalInitialize ==
  CASE conf.module = "tcp_synscan" -> SynscanGlobalInitialize
    [] conf.module = "tcp_synackscan" -> SynackscanGlobalInitialize
    [] conf.module = "tcp_synopt" -> TcpsynoptGlobalInitialize
    [] conf.module = "ipv6_tcp_synscan" -> Ipv6SynscanGlobalInitialize
    [] conf.module = "ipv6_tcp_synopt" -> Ipv6TcpSynoptGlobalInitialize
    [] conf.module = "icmp_echoscan" -> IcmpGlobalInitialize
    [] conf.module = "icmp_echo_time" -> Initialized(62, 0, FALSE)
    [] conf.module = "icmp6_echoscan" -> Icmp6EchoGlobalInitialize
    [] conf.module = "icmp6_echo_time_novalidation" -> Icmp6EchotimeGlobalInitialize
    [] conf.module = "udp" -> UdpGlobalInitialize
    [] conf.module = "ntp" -> NtpGlobalInitialize
    [] conf.module = "upnp" -> UpnpGlobalInitialize
    [] conf.module = "bacnet" -> BacnetGlobalInitialize
    [] conf.module = "ipip" -> IpipGlobalInitialize
    [] conf.module = "ipv6_udp" -> Ipv6UdpGlobalInitialize
    [] conf.module = "quic_initial" -> QuicInitialGlobalInitialize
    [] conf.module = "ipv6_quic_initial" -> Ipv6QuicInitialGlobalInitialize
    [] conf.module = "dns" -> DnsGlobalInitialize
    [] conf.module = "ipv6_dns" -> Ipv6UdpDnsGlobalInitialize

ModulePreparePacket ==
  CASE conf.module = "tcp_synscan" -> SynscanPreparePacket
    [] conf.module = "tcp_synackscan" -> SynackscanPreparePacket
    [] conf.module = "tcp_synopt" -> TcpsynoptPreparePacket
    [] conf.module = "ipv6_tcp_synscan" -> Ipv6SynscanPreparePacket
    [] conf.module = "ipv6_tcp_synopt" -> Ipv6TcpSynoptPreparePacket
    [] conf.module = "icmp_echoscan" -> IcmpEchoPreparePacket
    [] conf.module = "icmp_echo_time" -> IcmpEchoTimePreparePacket
    [] conf.module = "icmp6_echoscan" -> Icmp6EchoPreparePacket
    [] conf.module = "icmp6_echo_time_novalidation" -> Icmp6EchotimePreparePacket
    [] conf.module = "udp" -> UdpPreparePacket
    [] conf.module = "ntp" -> NtpPreparePacket
    [] conf.module = "upnp" -> UpnpPreparePacket
    [] conf.module = "bacnet" -> BacnetPreparePacket
    [] conf.module = "ipip" -> IpipPreparePacket
    [] conf.module = "ipv6_udp" -> Ipv6UdpPreparePacket
    [] conf.module = "quic_initial" -> QuicInitialPreparePacket
    [] conf.module = "ipv6_quic_initial" -> Ipv6QuicInitialPreparePacket
    [] conf.module = "dns" -> DnsPreparePacket
    [] conf.module = "ipv6_dns" -> Ipv6UdpDnsPreparePacket

ModuleMakePacket(src, dst, dport, v, k) ==
  CASE conf.module = "tcp_synscan" -> SynscanMakePacket(src, dst, dport, v, k)
    [] conf.module = "tcp_synackscan" -> SynackscanMakePacket(src, dst, dport, v, k)
    [] conf.module = "tcp_synopt" -> TcpsynoptMakePacket(src, dst, dport, v, k)
    [] conf.module = "ipv6_tcp_synscan" -> Ipv6SynscanMakePacket(src, dst, dport, v, k)
    [] conf.module = "ipv6_tcp_synopt" -> Ipv6TcpSynoptMakePacket(src, dst, dport, v, k)
    [] conf.module = "icmp_echoscan" -> IcmpEchoMakePacket(src, dst, dport, v, k)
    [] conf.module = "icmp_echo_time" -> IcmpEchoTimeMakePacket(src, dst, dport, v, k)
    [] conf.module = "icmp6_echoscan" -> Icmp6EchoMakePacket(src, dst, dport, v, k)
    [] conf.module = "icmp6_echo_time_novalidation" ->
         Icmp6EchotimeMakePacket(src, dst, dport, v, k)
    [] conf.module = "udp" ->
         IF mod.template = << >> THEN UdpMakePacket(src, dst, dport, v, k)
                                 ELSE UdpMakeTemplatedPacket(src, dst, dport, v, k)
    [] conf.module = "ntp" -> NtpMakePacket(src, dst, dport, v, k)
    [] conf.module = "upnp" -> UpnpMakePacket(src, dst, dport, v, k)
    [] conf.module = "bacnet" -> BacnetMakePacket(src, dst, dport, v, k)
    [] conf.module = "ipip" -> IpipMakePacket(src, dst, dport, v, k)
    [] conf.module = "ipv6_udp" -> Ipv6UdpMakePacket(src, dst, dport, v, k)
    [] conf.module = "quic_initial" -> QuicInitialMakePacket(src, dst, dport, v, k)
    [] conf.module = "ipv6_quic_initial" -> Ipv6QuicInitialMakePacket(src, dst, dport, v, k)
    [] conf.module = "dns" -> DnsMakePacket(src, dst, dport, v, k)
    [] conf.module = "ipv6_dns" -> Ipv6UdpDnsMakePacket(src, dst, dport, v, k)

ModuleValidatePacket(p, src_ip, v) ==
  CASE conf.module = "tcp_synscan" -> SynscanValidatePacket(p, src_ip, v)
    [] conf.module = "tcp_synackscan" -> SynackscanValidatePacket(p, src_ip, v)
    [] conf.module = "tcp_synopt" -> TcpsynoptValidatePacket(p, src_ip, v)
    [] conf.module = "ipv6_tcp_synscan" -> Ipv6SynscanValidatePacket(p, src_ip, v)
    [] conf.module = "ipv6_tcp_synopt" -> Ipv6TcpSynoptValidatePacket(p, src_ip, v)
    [] conf.module = "icmp_echoscan" -> IcmpValidatePacket(p, src_ip, v)
    [] conf.module = "icmp_echo_time" -> IcmpEchoTimeValidatePacket(p, src_ip, v)
    [] conf.module = "icmp6_echoscan" -> Icmp6ValidatePacket(p, src_ip, v)
    [] conf.module = "icmp6_echo_time_novalidation" -> Icmp6EchotimeValidatePacket(p, src_ip, v)
    [] conf.module = "udp" -> UdpValidatePacket(p, src_ip, v)
    [] conf.module = "ntp" -> NtpValidatePacket(p, src_ip, v)
    [] conf.module = "upnp" -> UpnpValidatePacket(p, src_ip, v)
    [] conf.module = "bacnet" -> BacnetValidatePacket(p, src_ip, v)
    [] conf.module = "ipip" -> IpipValidatePacket(p, src_ip, v)
    [] conf.module = "ipv6_udp" -> Ipv6UdpModuleValidatePacket(p, src_ip, v)
    [] conf.module = "quic_initial" -> QuicInitialValidatePacket(p, src_ip, v)
    [] conf.module = "ipv6_quic_initial" -> Ipv6QuicInitialValidatePacket(p, src_ip, v)
    [] conf.module = "dns" -> DnsValidatePacket(p, src_ip, v)
    [] conf.module = "ipv6_dns" -> Ipv6UdpDnsValidatePacket(p, src_ip, v)

ModuleProcessPacket(p, v) ==
  CASE conf.module = "tcp_synscan" -> SynscanProcessPacket(p)
    [] conf.module = "tcp_synackscan" -> SynackscanProcessPacket(p)
    [] conf.module = "tcp_synopt" -> TcpsynoptProcessPacket(p)
    [] conf.module = "ipv6_tcp_synscan" -> Ipv6SynscanProcessPacket(p)
    [] conf.module = "ipv6_tcp_synopt" -> Ipv6TcpSynoptProcessPacket(p)
    [] conf.module = "icmp_echoscan" -> IcmpEchoProcessPacket(p)
    [] conf.module = "icmp_echo_time" -> IcmpEchoTimeProcessPacket(p)
    [] conf.module = "icmp6_echoscan" -> Icmp6EchoProcessPacket(p)
    [] conf.module = "icmp6_echo_time_novalidation" -> Icmp6EchotimeProcessPacket(p)
    [] conf.module = "udp" -> UdpProcessPacket(p)
    [] conf.module = "ntp" -> NtpProcessPacket(p)
    [] conf.module = "upnp" -> UpnpProcessPacket(p)
    [] conf.module = "bacnet" -> BacnetProcessPacket(p)
    [] conf.module = "ipip" -> IpipProcessPacket(p)
    [] conf.module = "ipv6_udp" -> Ipv6UdpProcessPacket(p)
    [] conf.module = "quic_initial" -> QuicInitialProcessPacket(p)
    [] conf.module = "ipv6_quic_initial" -> Ipv6QuicInitialProcessPacket(p)
    [] conf.module = "dns" -> DnsProcessPacket(p, v)
    [] conf.module = "ipv6_dns" -> Ipv6UdpDnsProcessPacket(p)

ModuleFields ==
  CASE conf.module = "tcp_synscan" -> SynscanFields
    [] conf.module = "tcp_synackscan" -> SynackscanFields
    [] conf.module \in {"tcp_synopt", "ipv6_tcp_synopt"} -> TcpsynoptFields
    [] conf.module = "ipv6_tcp_synscan" -> Ipv6SynscanFields
    [] conf.module = "icmp_echoscan" -> IcmpEchoFields
    [] conf.module = "icmp_echo_time" -> IcmpEchoTimeFields
    [] conf.module = "icmp6_echoscan" -> Icmp6EchoFields
    [] conf.module = "icmp6_echo_time_novalidation" -> Icmp6EchotimeFields
    [] conf.module = "udp" -> UdpFields
    [] conf.module = "ntp" -> NtpFields
    [] conf.module = "upnp" -> UpnpFields
    [] conf.module = "bacnet" -> BacnetFields
    [] conf.module = "ipip" -> IpipFields
    [] conf.module = "ipv6_udp" -> Ipv6UdpFields
    [] conf.module \in {"quic_initial", "ipv6_quic_initial"} -> QuicInitialFields
    [] conf.module = "dns" -> DnsFields
    [] conf.module = "ipv6_dns" -> Ipv6UdpDnsFields

(* The one module that changes *src_ip. *)
ModuleSrcIp(p) ==
  IF conf.module = "icmp_echo_time" THEN IcmpEchoTimeSrcIp(p, p.src) ELSE p.src

(* fs_add_ip_fields, fs_add_ipv6_fields and fs_add_system_fields *)
IpFields == <<"saddr", "saddr_raw", "daddr", "daddr_raw", "ipid", "ttl">>

SysFields == <<"repeat", "cooldown", "timestamp_str", "timestamp_ts", "timestamp_us">>

(* An IPv6 address has no raw form in a row. *)
IpAdds(p) ==
  LET Raw(addr) == IF Ipv6 THEN 0 ELSE addr
  IN  <<Add("saddr", p.src), Add("saddr_raw", Raw(p.src)), Add("daddr", p.dst),
        Add("daddr_raw", Raw(p.dst))>> \o Adds(<<"ipid", "ttl">>)

FieldDefs == GenFielddefSet(GenFielddefSet(IpFields, ModuleFields), SysFields)
-----------------------------------------------------------------------------
Nothing == [verdict |-> "none", words |-> << >>, src_ip |-> 0]

Init ==
  /\ conf \in Configs
  /\ mod = NotInitialized /\ buf = Aborted
  /\ phase = "start" /\ rate = conf.rate
  /\ sent = {} /\ origin = "none" /\ got = Blank /\ row = Nothing

(* A number as it is read back from an int of RateBits bits. *)
Signed(n) == IF n >= 2^(RateBits - 1) THEN n - 2^RateBits ELSE n

(* The bits a frame of n bytes takes: preamble, start, CRC and gap are 24  *)
(* bytes, and a frame with them is never shorter than 84.                  *)
WireBits(n) == Max({8 * n + 8 * 24, 8 * 84})


(* The rate for the bandwidth asked for, from the length of the longest    *)
(* packet as the module has stated it by now.                              *)
BandwidthRate(maxLen) ==
  LET n == conf.bandwidth \div WireBits(maxLen)
  IN  IF n > 2^RateBits - 1 THEN 0 ELSE IF n = 0 THEN 1 ELSE Signed(n)

(* send_init, after the iterator: an error of the module, both a rate and  *)
(* a bandwidth, and a negative rate are fatal.                             *)
SendInit ==
  /\ phase = "start"
  /\ mod' = GlobalInitialize
  /\ LET asked == IF conf.bandwidth > 0 THEN BandwidthRate(mod'.maxLen) ELSE conf.rate
     IN  rate' = IF asked = -1 THEN 10000 ELSE asked
  /\ phase' = IF \/ mod'.status # "ready"
                 \/ conf.bandwidth > 0 /\ conf.rate > 0
                 \/ rate' < 0
              THEN "failed" ELSE "initialized"
  /\ UNCHANGED <<conf, buf, sent, origin, got, row>>

(* Modules that state the length of their packets only when they prepare   *)
(* them.                                                                   *)
PreparedMaxLen ==
  IF conf.module \in {"ntp", "ipv6_udp", "ipv6_dns", "quic_initial"} THEN EthLen + buf'.ipLen
  ELSE IF conf.module = "ipv6_quic_initial" THEN Headers6Len + mod.len
  ELSE mod.maxLen

PreparePacket ==
  /\ phase = "initialized"
  /\ buf' = ModulePreparePacket
  /\ mod' = [mod EXCEPT !.maxLen = PreparedMaxLen]
  /\ phase' = IF buf' = Aborted THEN "failed" ELSE "sending"
  /\ UNCHANGED <<conf, rate, sent, origin, got, row>>

(* get_src_ip; over IPv6 there is one source address. *)
GetSrcIp(dst, k) ==
  LET ips == SetToSortSeq(SourceIps, <)
  IN  IF Ipv6 THEN ips[1] ELSE ips[((dst + k) % Len(ips)) + 1]

(* One probe of send_run: the validation is generated from the addresses   *)
(* and the port, and the module fills the packet with it.                  *)
MakePacket(dst, dport, k) ==
  /\ phase = "sending" /\ Cardinality(sent) < MaxSent
  /\ LET src == GetSrcIp(dst, k)
         v == IF Ipv6 THEN ValidateGenIpv6(src, dst, dport) ELSE ValidateGen(src, dst, dport)
         q == ModuleMakePacket(src, dst, dport, v, k)
     IN  IF q.payload = "fatal" \/ q.frame > MaxPacketSize
         THEN phase' = "failed" /\ sent' = sent
         ELSE phase' = phase /\ sent' = sent \cup {q}
  /\ UNCHANGED <<conf, mod, buf, rate, origin, got, row>>
-----------------------------------------------------------------------------
(* The network. *)

(* The bytes of TCP options: a no-op, an option of a known kind, or one of *)
(* an unknown kind.                                                        *)
OptionBytes(kind) ==
  IF kind \in {0, 1} THEN <<kind>>
  ELSE LET len == IF kind \in DOMAIN OptionLength THEN OptionLength[kind] ELSE 5
       IN  <<kind, len>> \o [i \in 1 .. len - 2 |-> 1]

EncodeOptions(kinds) == FlattenSeq([i \in DOMAIN kinds |-> OptionBytes(kinds[i])])

(* The bytes of DNS records.  A name is the one asked for, by a pointer to *)
(* the question, or a label before it, or a name of its own.               *)
NameBytes(style) ==
  CASE style = "pointer" -> <<192, DnsHeaderLen>>
    [] style = "mixed"   -> <<1, 98, 192, DnsHeaderLen>>
    [] style = "literal" -> <<1, 98, 1, 99, 0>>

NameMeant(style, asked) ==
  CASE style = "pointer" -> asked
    [] style = "mixed"   -> <<98, Dot>> \o asked
    [] style = "literal" -> <<98, Dot, 99>>

RdataBytes(r) ==
  CASE r.type = "NS"  -> NameBytes(r.rdata)
    [] r.type = "MX"  -> <<r.pref \div 256, r.pref % 256>> \o NameBytes(r.rdata)
    [] r.type = "A"   -> <<10, 0, 0, 1>>
    [] r.type = "TXT" -> <<2, 98, 99>>

RecordBytes(r) ==
  NameBytes(r.name) \o <<0, QtypeCode[r.type], 0, 1, 0, 0, 0, 60, 0, Len(RdataBytes(r))>>
    \o RdataBytes(r)

EncodeRecords(records) == FlattenSeq([i \in DOMAIN records |-> RecordBytes(records[i])])

Swapped(q) == [Blank EXCEPT !.proto = q.proto, !.src = q.dst, !.dst = q.src,
                            !.sport = q.dport, !.dport = q.sport]

Whole(p, l4) == [p EXCEPT !.l4 = l4, !.plen = l4]

(* What the target of a probe answers. *)
Answers(q) ==
  CASE q.proto = "tcp" ->
         LET s == Whole([Swapped(q) EXCEPT !.bytes = EncodeOptions(conf.options)],
                        TcpLen + Len(EncodeOptions(conf.options)))
         IN  IF q.flags = "syn"
             THEN {[s EXCEPT !.flags = f, !.ack = Next1(q.seq)] : f \in {"synack", "rst"}}
             ELSE {[s EXCEPT !.flags = "rst", !.seq = q.ack]}
    [] q.proto = "udp" /\ conf.module = "dns" ->
         LET body == q.bytes \o EncodeRecords(conf.records)
         IN  {Whole([Swapped(q) EXCEPT !.id = q.id, !.flags = "noerror", !.bytes = body,
                                       !.data = <<1, Len(conf.records), 0, 0>>],
                    UdpLen + DnsHeaderLen + Len(body))}
    [] q.proto = "udp" ->
         {Whole([Swapped(q) EXCEPT !.payload = conf.payload, !.flags = "noerror"], UdpLen + 21)}
    [] q.proto = "icmp" ->
         {Whole([Swapped(q) EXCEPT !.type = "echoreply", !.id = q.id, !.icmpSeq = q.icmpSeq],
                q.ipLen - IpLen)}
    [] q.proto = "icmp6" ->
         {Whole([Swapped(q) EXCEPT !.type = "echoreply", !.id = q.id, !.data = q.data],
                q.ipLen - Ip6Len)}
    [] q.proto = "ipip" -> {Whole(Inner(q), Inner(q).l4)}

(* The errors a host may send about a probe: n bytes of it are quoted. *)
Errors(q) ==
  LET l4 == q.ipLen - (IF Ipv6 THEN Ip6Len ELSE IpLen)
      quoted(n) == [q EXCEPT !.l4 = n]
      types == IF Ipv6 THEN Icmp6Errors ELSE QuotingTypes
  IN  {Whole([Blank EXCEPT !.proto = IF Ipv6 THEN "icmp6" ELSE "icmp", !.type = t, !.src = h,
                           !.dst = q.src, !.inner = <<quoted(n)>>],
             IF Ipv6 THEN IcmpMin + Ip6Len + n ELSE IcmpMin + IpLen + n)
         : t \in types, h \in {q.dst} \cup OtherHosts, n \in {8, l4}}

(* An answer with one thing wrong: it comes from another host, its ports,  *)
(* acknowledgement, identifier or sequence number are not the probe's, it  *)
(* is cut short, or, if it is a DNS message, its UDP header states more    *)
(* than was captured or less than the message is long.                     *)
Resembling(p) ==
  {[p EXCEPT !.src = h] : h \in Targets \cup OtherHosts}
    \cup {[p EXCEPT !.sport = 0], [p EXCEPT !.dport = FirstPort + NumPorts],
          [p EXCEPT !.ack = p.seq], [p EXCEPT !.id = Blank.id], [p EXCEPT !.icmpSeq = Blank.id],
          [p EXCEPT !.l4 = 4], [p EXCEPT !.l4 = -1]}
    \cup IF conf.module = "dns"
         THEN {[p EXCEPT !.l4 = p.plen - IpLen - 1], [p EXCEPT !.plen = UdpLen + DnsHeaderLen - 1]}
         ELSE {}
-----------------------------------------------------------------------------
(* handle_packet: a frame too short for an IP header is ignored; the       *)
(* validation is generated from its addresses and, if it holds a TCP or    *)
(* UDP header, from its source port.                                       *)
SrcPort(p) ==
  IF Ipv6 THEN IF HasIpv6Payload(p) THEN p.sport ELSE 0
  ELSE IF (p.proto = "tcp" /\ HasTcp(p)) \/ (p.proto = "udp" /\ HasUdp(p)) THEN p.sport ELSE 0

ReceivedValidation(p) ==
  IF Ipv6 THEN ValidateGenIpv6(p.dst, p.src, SrcPort(p)) ELSE ValidateGen(p.dst, p.src, SrcPort(p))

RowOf(p) ==
  LET v  == ReceivedValidation(p)
      fs == FsCalls(FieldDefs, IpAdds(p) \o ModuleProcessPacket(p, v) \o Adds(SysFields))
  IN  IF p.l4 < 0 THEN [Nothing EXCEPT !.verdict = "ignored"]
      ELSE IF ~ModuleValidatePacket(p, p.src, v) THEN [Nothing EXCEPT !.verdict = "invalid"]
      ELSE [verdict |-> IF fs.fatal THEN "fatal" ELSE "row", words |-> fs.words,
            src_ip |-> ModuleSrcIp(p)]

(* What becomes of a packet depends on no other packet, deduplication      *)
(* aside (module Recv): a behaviour ends with the first one.               *)
HandlePacket(kind, p) ==
  /\ phase = "sending" /\ origin = "none"
  /\ origin' = kind /\ got' = p
  /\ row' = RowOf(p)
  /\ phase' = IF row'.verdict = "fatal" THEN "failed" ELSE phase
  /\ UNCHANGED <<conf, mod, buf, rate, sent>>

Answered == \E q \in sent : \E p \in Answers(q) : HandlePacket("answer", p)

Failed == \E q \in sent : \E p \in Errors(q) : HandlePacket("error", p)

Stray == \E q \in sent : \E a \in Answers(q) : \E p \in Resembling(a) : HandlePacket("stray", p)

(* The module's close callback frees what global_initialize allocated. *)
Close ==
  /\ phase = "sending"
  /\ mod' = GlobalCleanup
  /\ phase' = "closed"
  /\ UNCHANGED <<conf, buf, rate, sent, origin, got, row>>

Next ==
  \/ SendInit
  \/ PreparePacket
  \/ \E dst \in conf.targets, dport \in Ports, k \in 0 .. conf.streams - 1 :
       MakePacket(dst, dport, k)
  \/ Answered
  \/ Failed
  \/ Stray
  \/ Close

Spec == Init /\ [][Next]_probesVars
-----------------------------------------------------------------------------
(* The number added to the probe number leaves the range of the word for   *)
(* some probe: check_dst_port then looks for ports that were not used.     *)
WordWraps ==
  \E src \in SourceIps, dst \in conf.targets, port \in Ports :
    LET v == IF Ipv6 THEN ValidateGenIpv6(src, dst, port) ELSE ValidateGen(src, dst, port)
    IN  Number(v) + conf.streams - 1 >= 2^WordBits

Value(name) == row.words[FdsGetIndexByName(FieldDefs, name)][2]

(* The host and port an accepted packet is about. *)
Subject(p) == IF p.inner # << >> THEN Inner(p) ELSE Swapped(p)

(* What a target answers to a probe passes the module's validation: the    *)
(* ports, sequence numbers and identifiers that make_packet derives from   *)
(* the validation words are those that validate_packet derives from the    *)
(* answer.  An echo reply must hold as many bytes as struct icmp has.      *)
AnswersAccepted ==
  /\ origin = "answer" /\ ~WordWraps /\ conf.streams <= NumPorts
  /\ (conf.module = "icmp_echoscan" => got.l4 >= IcmpLen)
  => row.verdict # "invalid"

(* Modules that generate the validation of a quoted probe again. *)
ErrorTypes == [m \in {"tcp_synscan", "tcp_synackscan", "icmp_echoscan", "icmp_echo_time",
                      "icmp6_echoscan"} |->
                 CASE m = "icmp_echo_time" -> {"unreach", "timxceed"}
                   [] m = "icmp6_echoscan" -> Icmp6Errors
                   [] OTHER -> QuotingTypes]

(* An ICMP error that quotes the whole of a probe is accepted, whoever     *)
(* sends it: a router's address takes part in no validation word.          *)
ErrorsAccepted ==
  /\ origin = "error" /\ ~WordWraps /\ conf.streams <= NumPorts
  /\ conf.module \in DOMAIN ErrorTypes /\ got.type \in ErrorTypes[conf.module]
  /\ Inner(got).l4 = Inner(got).ipLen - (IF Ipv6 THEN Ip6Len ELSE IpLen)
  /\ (conf.module = "icmp_echoscan" => Inner(got).l4 >= IcmpLen)
  => row.verdict # "invalid"

(* Modules that find a validation word in the answer itself. *)
WordModules == {"tcp_synscan", "tcp_synackscan", "tcp_synopt", "ipv6_tcp_synscan",
                "ipv6_tcp_synopt", "icmp_echoscan", "icmp_echo_time", "icmp6_echoscan"}

(* A packet that such a module accepts is about a host, and over IPv4 a    *)
(* port, that a probe has been sent to from the address it comes back to.  *)
OnlySolicited ==
  row.verdict \in {"row", "fatal"} /\ conf.module \in WordModules
    => \E q \in sent : /\ q.dst = Subject(got).dst /\ q.src = got.dst
                       /\ Ipv6 \/ q.dport = Subject(got).dport

(* The row of an ICMP error names the host that was probed as the source,  *)
(* not the router that sent the error.  The two IPv4 echo modules leave    *)
(* the address of the packet itself there, but icmp_echo_time gives the    *)
(* host that was probed to the deduplication.                              *)
ErrorRowNamesTarget ==
  row.verdict = "row" /\ origin = "error"
    => /\ Inner(got).dst \in Targets
       /\ conf.module \notin {"icmp_echoscan", "icmp_echo_time"}
            => Value("saddr") = Inner(got).dst
       /\ conf.module = "icmp_echo_time" => row.src_ip = Inner(got).dst

(* Modules that add the fields of an answer in another order than the one  *)
(* they declare: bacnet always, the QUIC ones for an answer that is not a  *)
(* QUIC packet.                                                            *)
Misordered ==
  \/ conf.module = "bacnet"
  \/ conf.module \in {"quic_initial", "ipv6_quic_initial"} /\ conf.payload # "quic"

(* Any other module adds its fields in the order in which it declares      *)
(* them, in every branch of process_packet: fs_add_word compares the name  *)
(* of each with the definition at its place and ends the program if they   *)
(* differ.                                                                 *)
RowsFollowDefinitions == ~Misordered => row.verdict # "fatal"

(* The length that make_packet returns covers the datagram whose length is *)
(* in its IP header, and the TCP header says how long it is, for every     *)
(* module with a make_packet of its own; ntp and upnp call udp_make_packet,*)
(* which knows nothing of their payload.                                   *)
FramesHoldDatagrams ==
  conf.module \notin {"ntp", "upnp"} =>
    \A q \in sent :
      /\ q.frame = EthLen + q.ipLen
      /\ (q.proto = "tcp" => 4 * q.off = q.ipLen - (IF Ipv6 THEN Ip6Len ELSE IpLen))

(* The modules that state less than the length of their frames when        *)
(* send_init reads it: icmp_echoscan 48 of 62 bytes unless a payload is    *)
(* given (module_icmp_echo.c:327), icmp6_echo_time_novalidation 70 of 86   *)
(* (line 268), and ntp, ipv6_udp and ipv6_dns 0 or 1, until they prepare   *)
(* their packets (module_ntp.c:250, module_ipv6_udp.c:776,                 *)
(* module_ipv6_udp_dns.c:415).  For ntp this matters once its arguments    *)
(* make the frame longer than the shortest one.                            *)
StatesTooLittle ==
  \/ conf.module = "icmp_echoscan" /\ conf.args.kind = "none"
  \/ conf.module = "ntp" /\ mod.len > 18
  \/ conf.module \in {"icmp6_echo_time_novalidation", "ipv6_udp", "ipv6_dns"}


(* The TCP options in a SYN-ACK are found, whatever their order and        *)
(* whatever stands between them.                                           *)
OptionsFound ==
  origin = "answer" /\ row.verdict = "row" /\ conf.module = "tcp_synscan"
    => \A f \in {<<"tcpopt_mss", 2>>, <<"tcpopt_wscale", 3>>, <<"tcpopt_sack_perm", 4>>,
                 <<"tcpopt_ts_val", 8>>, <<"tcpopt_ts_ecr", 8>>} :
         Value(f[1]) = IF \E i \in DOMAIN conf.options : conf.options[i] = f[2] THEN 1 ELSE 0

(* The text of a field as it was written in a template. *)
Unparsed(f) == IF f.ftype = "DATA" THEN f.data ELSE <<"$", "{", f.ftype, "}">>

(* A bracket that a closing one separates from its dollar. *)
Straddles(buffer) ==
  \E i, j \in DOMAIN buffer : /\ i + 1 < j /\ buffer[i] = "$" /\ buffer[j] = "{"
                              /\ \A k \in i + 1 .. j - 1 : buffer[k] = "}"

(* The fields and the text that udp_template_load finds in a template are  *)
(* the template, unless a dollar and its bracket are separated by closing  *)
(* brackets: no byte is lost, none is doubled.                             *)
TemplateLossless ==
  mod.template # << >> /\ ~Straddles(conf.args.tokens)
    => FlattenSeq([i \in DOMAIN mod.template |-> Unparsed(mod.template[i])]) = conf.args.tokens

(* Records whose name is not shown: an MX record whose data after the      *)
(* preference is a bare pointer, taken to be too short (module_dns.c:493), *)
(* is not parsed, and one with a preference of five digits shows only that *)
(* (lines 508-512).                                                        *)
BarePointerMx(r) == r.type = "MX" /\ r.rdata = "pointer"

NameCutOff(r) == r.type = "MX" /\ r.pref >= 10000

PaddingFits ==
  conf.padding
    => \A i \in DOMAIN Questions : Len(DomainToQname(Questions[i].domain)) > PaddingLen

=============================================================================
