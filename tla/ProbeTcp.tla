------------------------------ MODULE ProbeTcp ------------------------------
(***************************************************************************)
(* The TCP probe modules (src/src/probe_modules): tcp_synscan,             *)
(* tcp_synackscan, tcp_synopt, ipv6_tcp_synscan and ipv6_tcp_synopt.       *)
(*                                                                         *)
(* For each module: its global_initialize, prepare_packet, make_packet,    *)
(* validate_packet, process_packet and its field definitions.  A validate  *)
(* operator takes the packet p, the address src_ip the receiver passes and *)
(* the validation v it has generated for the packet.                       *)
(***************************************************************************)
EXTENDS Packet

(* The TCP segment of a probe. *)
TcpProbe(src, dst, dport, v, k, flags) ==
  [Blank EXCEPT !.proto = "tcp", !.src = src, !.dst = dst, !.dport = dport,
                !.sport = GetSrcPort(k, v), !.flags = flags, !.seq = Word(0, v)]

(* What the modules ask of the ports of an answer, and of a probe an ICMP  *)
(* error quotes, for which the validation is generated again.              *)
TcpPortsMatch(p, v) ==
  /\ (mod.checkSrc => CheckSrcPort(p.sport))
  /\ CheckDstPort(p.dport, v)

QuotedTcpMatches(p) ==
  /\ HasTcp(Inner(p))
  /\ CheckSrcPort(Inner(p).dport)
  /\ CheckDstPort(Inner(p).sport, ValidateGen(p.dst, Inner(p).dst, Inner(p).dport))

AcksProbe(p, v) == p.ack = Next1(Word(0, v))

TcpFields == <<"sport", "dport", "seqnum", "acknum", "window">>

TcpAdds(p) == <<Add("sport", p.sport), Add("dport", p.dport)>>
                \o Adds(<<"seqnum", "acknum", "window">>)
-----------------------------------------------------------------------------
(* tcp_synscan *)

SynscanHeader == [x \in {"smallest-probes", "bsd", "windows", "linux"} |->
                    CASE x = "smallest-probes" -> 24
                      [] x = "bsd"     -> 44
                      [] x = "windows" -> 32
                      [] x = "linux"   -> 40]

SynscanOs == IF conf.args.kind = "none" THEN "windows" ELSE conf.args.kind

(* Mutant: the windows options are counted without the window scale. *)
SynscanGlobalInitialize_Short ==
  IF SynscanOs \notin DOMAIN SynscanHeader THEN Refused
  ELSE Initialized(SynscanHeader[SynscanOs] + 34, SynscanHeader[SynscanOs] - 4,
                   ValidatesByDefault)

SynscanGlobalInitialize ==
  IF SynscanOs \notin DOMAIN SynscanHeader THEN Refused
  ELSE Initialized(SynscanHeader[SynscanOs] + 34, SynscanHeader[SynscanOs],
                   ValidatesByDefault)

SynscanPreparePacket == TcpDatagram(mod.len, SetTcpOptions(SynscanOs))

SynscanMakePacket(src, dst, dport, v, k) ==
  [TcpProbe(src, dst, dport, v, k, "syn")
     EXCEPT !.off = buf.off, !.ipLen = buf.ipLen, !.frame = mod.maxLen]

(* Mutant: the acknowledgement of a segment that is not a reset is not     *)
(* compared with the sequence number of the probe.                         *)
SynscanValidatePacket_AnyAck(p, src_ip, v) ==
  \/ /\ p.proto = "tcp" /\ HasTcp(p)
     /\ TcpPortsMatch(p, v)
     /\ BlocklistIsAllowed(src_ip)
     /\ (p.flags = "rst" => p.ack \in {Word(0, v), Next1(Word(0, v))})
  \/ p.proto = "icmp" /\ IcmpHelperValidate(p, TcpLen) /\ QuotedTcpMatches(p)

(* Mutant: the validation of a quoted probe is not generated again. *)
SynscanValidatePacket_Stale(p, src_ip, v) ==
  \/ /\ p.proto = "tcp" /\ HasTcp(p)
     /\ TcpPortsMatch(p, v)
     /\ BlocklistIsAllowed(src_ip)
     /\ IF p.flags = "rst" THEN p.ack \in {Word(0, v), Next1(Word(0, v))}
                           ELSE AcksProbe(p, v)
  \/ /\ p.proto = "icmp" /\ IcmpHelperValidate(p, TcpLen)
     /\ CheckSrcPort(Inner(p).dport) /\ CheckDstPort(Inner(p).sport, v)

SynscanValidatePacket(p, src_ip, v) ==
  \/ /\ p.proto = "tcp" /\ HasTcp(p)
     /\ TcpPortsMatch(p, v)
     /\ BlocklistIsAllowed(src_ip)
     /\ IF p.flags = "rst" THEN p.ack \in {Word(0, v), Next1(Word(0, v))}
                           ELSE AcksProbe(p, v)
  \/ p.proto = "icmp" /\ IcmpHelperValidate(p, TcpLen) /\ QuotedTcpMatches(p)

(* parse_tcp_opts: the options found in the bytes after the fixed header,  *)
(* from position at.  An option whose length does not fit, or is not the   *)
(* one of its kind, ends the search.                                       *)
OptionLength == [k \in {2, 3, 4, 8} |->
                   CASE k = 2 -> 4 [] k = 3 -> 3 [] k = 4 -> 2 [] k = 8 -> 10]

(* Mutant: the bytes of an option's kind and length are skipped twice. *)
RECURSIVE ParseTcpOpts_Skips(_, _)
ParseTcpOpts_Skips(opts, at) ==
  IF at > Len(opts) THEN {}
  ELSE IF opts[at] \in {0, 1} THEN ParseTcpOpts_Skips(opts, at + 1)
  ELSE IF at + 1 > Len(opts) THEN {}
  ELSE LET kind == opts[at]
           len  == opts[at + 1]
       IN  IF \/ len <= 1
              \/ at + len > Len(opts) + 1
              \/ kind \in DOMAIN OptionLength /\ len # OptionLength[kind]
           THEN {}
           ELSE (IF kind \in DOMAIN OptionLength THEN {kind} ELSE {})
                  \cup ParseTcpOpts_Skips(opts, at + len + 2)

RECURSIVE ParseTcpOpts(_, _)
ParseTcpOpts(opts, at) ==
  IF at > Len(opts) THEN {}
  ELSE IF opts[at] \in {0, 1} THEN ParseTcpOpts(opts, at + 1)
  ELSE IF at + 1 > Len(opts) THEN {}
  ELSE LET kind == opts[at]
           len  == opts[at + 1]
       IN  IF \/ len <= 1
              \/ at + len > Len(opts) + 1
              \/ kind \in DOMAIN OptionLength /\ len # OptionLength[kind]
           THEN {}
           ELSE (IF kind \in DOMAIN OptionLength THEN {kind} ELSE {})
                  \cup ParseTcpOpts(opts, at + len)

(* add_tcpopt_to_fs: a field holds a value if its option was found. *)
TcpOptAdd(name, found) == Add(name, IF found THEN 1 ELSE 0)

TcpOptAdds(found) ==
  <<TcpOptAdd("tcpopt_mss", 2 \in found), TcpOptAdd("tcpopt_wscale", 3 \in found),
    TcpOptAdd("tcpopt_sack_perm", 4 \in found), TcpOptAdd("tcpopt_ts_val", 8 \in found),
    TcpOptAdd("tcpopt_ts_ecr", 8 \in found)>>

SynscanFields ==
  TcpFields \o <<"tcpopt_mss", "tcpopt_wscale", "tcpopt_sack_perm", "tcpopt_ts_val",
                 "tcpopt_ts_ecr">>
            \o ClassificationSuccessFields \o IcmpFields

RstOrSynack(p) == IF p.flags = "rst" THEN Verdict("rst", 0) ELSE Verdict("synack", 1)

SynscanProcessPacket(p) ==
  IF p.proto = "tcp"
  THEN TcpAdds(p) \o TcpOptAdds(ParseTcpOpts(p.bytes, 1)) \o RstOrSynack(p)
         \o FsAddNullIcmp
  ELSE Adds(SubSeq(SynscanFields, 1, 10)) \o Verdict("icmp", 0) \o FsPopulateIcmp(p)
-----------------------------------------------------------------------------
(* tcp_synackscan *)

SynackscanGlobalInitialize == Initialized(58, 24, ValidatesByDefault)

SynackscanPreparePacket == TcpDatagram(24, MakeTcpHeader + OptionWords.mss)

SynackscanMakePacket(src, dst, dport, v, k) ==
  [TcpProbe(src, dst, dport, v, k, "synack")
     EXCEPT !.ack = Word(2, v), !.off = buf.off, !.ipLen = buf.ipLen, !.frame = 58]

SynackscanValidatePacket(p, src_ip, v) ==
  \/ /\ p.proto = "tcp" /\ HasTcp(p)
     /\ TcpPortsMatch(p, v)
     /\ BlocklistIsAllowed(src_ip)
     /\ \/ AcksProbe(p, v)
        \/ p.flags = "rst" /\ p.seq \in {Word(2, v), Next1(Word(2, v))}
  \/ p.proto = "icmp" /\ IcmpHelperValidate(p, UdpLen) /\ QuotedTcpMatches(p)

SynackscanFields == TcpFields \o ClassificationSuccessFields \o IcmpFields

SynackscanProcessPacket(p) ==
  IF p.proto = "tcp"
  THEN TcpAdds(p) \o Verdict(IF p.flags = "rst" THEN "rst" ELSE "synack", 1)
         \o FsAddNullIcmp
  ELSE Adds(TcpFields) \o Verdict("icmp", 0) \o FsPopulateIcmp(p)
-----------------------------------------------------------------------------
(* ipv6_tcp_synscan *)

Ipv6SynscanGlobalInitialize == Initialized(74, TcpLen, TRUE)

Ipv6SynscanPreparePacket == TcpDatagram6(TcpLen, MakeTcpHeader)

Ipv6SynscanMakePacket(src, dst, dport, v, k) ==
  [TcpProbe(src, dst, dport, v, k, "syn")
     EXCEPT !.off = buf.off, !.ipLen = buf.ipLen, !.frame = 74]

Ipv6SynscanValidatePacket(p, src_ip, v) ==
  /\ p.proto = "tcp" /\ HasIpv6Payload(p)
  /\ TcpPortsMatch(p, v)
  /\ AcksProbe(p, v)

Ipv6SynscanFields == TcpFields \o ClassificationSuccessFields

Ipv6SynscanProcessPacket(p) == TcpAdds(p) \o RstOrSynack(p)
-----------------------------------------------------------------------------
(* tcp_synopt and ipv6_tcp_synopt: the options are given on the command    *)
(* line, in hexadecimal, as whole words.                                   *)

MaxOptLen == 40   \* MAX_OPT_LEN

TcpsynoptGlobalInitialize ==
  IF conf.args.kind = "none" THEN Initialized(54, 0, TRUE)
  ELSE IF \/ conf.args.kind # "hex"
          \/ conf.args.len % 4 # 0
          \/ conf.args.len > MaxOptLen
  THEN Refused
  ELSE Initialized(54 + conf.args.len, conf.args.len, TRUE)

TcpsynoptPreparePacket == TcpDatagram(TcpLen + mod.len, MakeTcpHeader)

TcpsynoptMakePacket(src, dst, dport, v, k) ==
  [TcpProbe(src, dst, dport, v, k, "syn")
     EXCEPT !.off = 5 + mod.len \div 4, !.ipLen = buf.ipLen, !.frame = 54 + mod.len]

TcpsynoptValidatePacket(p, src_ip, v) ==
  /\ p.proto = "tcp" /\ HasTcp(p)
  /\ TcpPortsMatch(p, v)
  /\ BlocklistIsAllowed(src_ip)
  /\ AcksProbe(p, v)

TcpsynoptFields ==
  TcpFields \o <<"tcpmss", "tsval", "tsecr", "tsdiff", "qsfunc", "qsttl", "qsnonce",
                 "echo", "echoreply", "wscale", "mptcpkey", "mptcpdiff", "tfocookie",
                 "optionshex", "optionstext">>
            \o ClassificationSuccessFields

(* For each kind of option: how far the text grows (j) and how far the     *)
(* search advances (i); an advance of 0 stands for the option's own length *)
(* byte, and 99 ends the search.                                           *)
SynoptStep(kind, len) ==
  CASE kind = 0 -> <<2, 99, << >> >>
    [] kind = 1 -> <<2, 1, << >> >>
    [] kind = 2 -> IF len = 4 THEN <<4, 4, <<"tcpmss">> >> ELSE <<4, 99, << >> >>
    [] kind = 3 -> <<3, 3, <<"wscale">> >>
    [] kind = 4 -> <<5, 2, << >> >>
    [] kind = 6 -> <<5, 6, <<"echo">> >>
    [] kind = 7 -> <<6, 6, <<"echoreply">> >>
    [] kind = 8 -> IF len = 10 THEN <<3, 10, <<"tsval", "tsecr", "tsdiff">> >>
                               ELSE <<4, 99, << >> >>
    [] kind = 27 -> <<3, 8, <<"qsfunc", "qsttl", "qsnonce">> >>
    [] kind = 30 -> <<6, 0, <<"mptcpkey", "mptcpdiff">> >>
    [] kind = 34 -> <<5, 0, IF len > 2 THEN <<"mptcpdiff", "tfocookie">> ELSE << >> >>
    [] kind = 64 -> <<2, 2, << >> >>
    [] kind \in {5, 15, 253, 254} -> <<1, 0, << >> >>
    [] kind = 9 -> <<1, 2, << >> >>
    [] kind \in {10, 14, 18} -> <<1, 3, << >> >>
    [] kind = 19 -> <<1, 18, << >> >>
    [] kind = 28 -> <<1, 4, << >> >>
    [] OTHER -> <<2, 99, << >> >>

(* The fields the options change, in order; an option whose length byte is *)
(* zero is met again and again, until the text is full.                    *)
RECURSIVE SynoptModifies(_, _, _)
SynoptModifies(opts, i, j) ==
  IF i > Len(opts) \/ j > 180 THEN << >>
  ELSE LET len == IF i + 1 <= Len(opts) THEN opts[i + 1] ELSE 0
           s   == SynoptStep(opts[i], len)
       IN  [n \in DOMAIN s[3] |-> Modify(s[3][n], 1)]
             \o IF s[2] = 99 THEN << >>
                ELSE SynoptModifies(opts, i + (IF s[2] = 0 THEN len ELSE s[2]), j + s[1])

TcpsynoptProcessPacket(p) ==
  TcpAdds(p) \o Adds(SubSeq(TcpsynoptFields, 6, 18))
    \o SynoptModifies(p.bytes, 1, 0)
    \o Adds(<<"optionshex", "optionstext">>) \o RstOrSynack(p)

Ipv6TcpSynoptGlobalInitialize ==
  IF conf.args.kind = "none" THEN Initialized(74, 0, TRUE)
  ELSE IF \/ conf.args.kind # "hex"
          \/ conf.args.len % 4 # 0
          \/ conf.args.len > MaxOptLen
  THEN Refused
  ELSE Initialized(74 + conf.args.len, conf.args.len, TRUE)

Ipv6TcpSynoptPreparePacket == TcpDatagram6(TcpLen + mod.len, MakeTcpHeader)

Ipv6TcpSynoptMakePacket(src, dst, dport, v, k) ==
  [TcpProbe(src, dst, dport, v, k, "syn")
     EXCEPT !.off = 5 + mod.len \div 4, !.ipLen = buf.ipLen, !.frame = 74 + mod.len]

Ipv6TcpSynoptValidatePacket(p, src_ip, v) ==
  /\ p.proto = "tcp" /\ HasIpv6Payload(p)
  /\ TcpPortsMatch(p, v)
  /\ AcksProbe(p, v)

Ipv6TcpSynoptProcessPacket(p) == TcpsynoptProcessPacket(p)
=============================================================================
