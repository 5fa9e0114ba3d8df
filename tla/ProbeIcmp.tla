----------------------------- MODULE ProbeIcmp ------------------------------
(***************************************************************************)
(* The ICMP probe modules (src/src/probe_modules): icmp_echoscan,          *)
(* icmp_echo_time, icmp6_echoscan and icmp6_echo_time_novalidation.        *)
(***************************************************************************)
EXTENDS Packet

(* An echo request whose identifier and sequence number are two of the     *)
(* validation words.                                                       *)
EchoProbe(src, dst, v) ==
  [Blank EXCEPT !.proto = "icmp", !.src = src, !.dst = dst, !.type = "echo",
                !.id = Word(1, v), !.icmpSeq = Word(2, v)]

IcmpValidateIdSeq(p, v) == p.id = Word(1, v) /\ p.icmpSeq = Word(2, v)

(* How a packet is classified by its type. *)
IcmpClass(p) ==
  IF p.type = "echoreply" THEN Verdict("echoreply", 1)
  ELSE IF p.type \in QuotingTypes THEN Verdict(p.type, 0)
  ELSE Verdict("other", 0)

EchoFields == <<"type", "code", "icmp_id", "seq">>
-----------------------------------------------------------------------------
(* icmp_echoscan *)

IcmpMaxPayloadLen == 1458
IcmpDefaultPayload == 20

IcmpGlobalInitialize ==
  IF conf.args.kind = "none" THEN Initialized(48, IcmpDefaultPayload, FALSE)
  ELSE IF conf.args.kind \notin {"text", "file", "hex"} \/ conf.args.len > IcmpMaxPayloadLen
  THEN Refused
  ELSE Initialized(EthLen + IpLen + IcmpMin + conf.args.len, conf.args.len, FALSE)

IcmpEchoPreparePacket == Datagram(IcmpMin + mod.len)

IcmpEchoMakePacket(src, dst, dport, v, k) ==
  [EchoProbe(src, dst, v)
     EXCEPT !.ipLen = IpLen + IcmpMin + mod.len,
            !.frame = IpLen + IcmpMin + mod.len + EthLen]

IcmpValidatePacket(p, src_ip, v) ==
  /\ p.proto = "icmp" /\ HasIcmp(p)
  /\ IF p.type = "echoreply" THEN IcmpValidateIdSeq(p, v)
     ELSE /\ IcmpHelperValidate(p, IcmpLen)
          /\ IcmpValidateIdSeq(Inner(p), ValidateGen(p.dst, Inner(p).dst, 0))

IcmpEchoFields == EchoFields \o ClassificationSuccessFields \o <<"data">>

IcmpEchoProcessPacket(p) == Adds(EchoFields) \o IcmpClass(p) \o Adds(<<"data">>)
-----------------------------------------------------------------------------
(* icmp_echo_time *)

IcmpEchoTimePreparePacket == Datagram(IcmpLen - 8)

RttPayload == 12   \* sizeof(struct icmp_payload_for_rtt)

IcmpEchoTimeMakePacket(src, dst, dport, v, k) ==
  [EchoProbe(src, dst, v)
     EXCEPT !.ipLen = IpLen + IcmpMin + RttPayload,
            !.frame = IpLen + IcmpMin + RttPayload + EthLen]

(* ICMP_SMALLEST_SIZE bytes are enough of an answer; of a quoted probe its *)
(* first eight bytes are.                                                  *)
IcmpEchoTimeValidatePacket(p, src_ip, v) ==
  /\ p.proto = "icmp" /\ p.l4 >= 5
  /\ IF p.type \in {"timxceed", "unreach"}
     THEN /\ p.inner # << >> /\ Inner(p).l4 >= 8
          /\ IcmpValidateIdSeq(Inner(p), ValidateGen(p.dst, Inner(p).dst, 0))
     ELSE IcmpValidateIdSeq(p, v)

(* The address that stands for the source of an accepted packet when       *)
(* duplicates are looked for: of an error, the target of the probe.        *)
IcmpEchoTimeSrcIp(p, src_ip) ==
  IF p.type \in {"timxceed", "unreach"} THEN Inner(p).dst ELSE src_ip

IcmpEchoTimeFields ==
  EchoFields \o <<"sent_timestamp_ts", "sent_timestamp_us", "recv_timestamp_ts",
                  "recv_timestamp_us", "rtt_us", "dst_raw">>
             \o ClassificationSuccessFields

IcmpEchoTimeProcessPacket(p) == Adds(SubSeq(IcmpEchoTimeFields, 1, 10)) \o IcmpClass(p)
-----------------------------------------------------------------------------
(* icmp6_echoscan *)

(* The validation is in the identifier and in eight bytes of data. *)
Icmp6Probe(src, dst, v) ==
  [Blank EXCEPT !.proto = "icmp6", !.src = src, !.dst = dst, !.type = "echo",
                !.id = Word(2, v), !.data = <<Word(0, v), Word(1, v)>>]

Icmp6EchoGlobalInitialize == Initialized(70, 0, FALSE)

Icmp6EchoPreparePacket == Datagram6(8 + 8)

Icmp6EchoMakePacket(src, dst, dport, v, k) ==
  [Icmp6Probe(src, dst, v) EXCEPT !.ipLen = buf.ipLen, !.frame = EthLen + Ip6Len + IcmpMin + 8]

(* The header of an answer and, for an error, the probe in it fit. *)
Icmp6Fits(p) ==
  /\ p.proto = "icmp6" /\ p.l4 >= 8 + 8
  /\ p.type \in Icmp6Errors => (p.inner # << >> /\ Inner(p).l4 >= 8 + 8)

Icmp6ValidatePacket(p, src_ip, v) ==
  /\ Icmp6Fits(p)
  /\ LET quoted == p.type \in Icmp6Errors
         q      == IF quoted THEN Inner(p) ELSE p
         w      == IF quoted THEN ValidateGenIpv6(Inner(p).dst, Inner(p).src, 0) ELSE v
     IN  q.id = Word(2, w) /\ q.data = <<Word(0, w), Word(1, w)>>

(* The row of an error names the hosts of the probe it quotes. *)
Icmp6Class(p) ==
  IF p.type = "echoreply" THEN Verdict("echoreply", 1)
  ELSE <<Modify("saddr", Inner(p).dst), Modify("daddr", Inner(p).src)>>
         \o Verdict(p.type, 0)

Icmp6EchoFields ==
  <<"type", "code", "icmp-id", "seq", "outersaddr">> \o ClassificationSuccessFields

Icmp6EchoProcessPacket(p) == Adds(SubSeq(Icmp6EchoFields, 1, 5)) \o Icmp6Class(p)
-----------------------------------------------------------------------------
(* icmp6_echo_time_novalidation: the times overwrite the validation words, *)
(* and only lengths are checked.                                           *)

Rtt6Payload == 24   \* sizeof(struct icmp6_payload_for_rtt)

Icmp6EchotimeGlobalInitialize == Initialized(70, 0, FALSE)

Icmp6EchotimePreparePacket == Datagram6(8 + Rtt6Payload)

Icmp6EchotimeMakePacket(src, dst, dport, v, k) ==
  [Icmp6Probe(src, dst, v)
     EXCEPT !.data = << >>, !.ipLen = buf.ipLen,
            !.frame = EthLen + Ip6Len + IcmpMin + Rtt6Payload]

Icmp6EchotimeValidatePacket(p, src_ip, v) == Icmp6Fits(p)

Icmp6EchotimeFields ==
  <<"type", "code", "icmp-id", "seq", "outersaddr", "sent_timestamp_ts",
    "sent_timestamp_us", "initial-ip">> \o ClassificationSuccessFields

Icmp6EchotimeProcessPacket(p) == Adds(SubSeq(Icmp6EchotimeFields, 1, 8)) \o Icmp6Class(p)
=============================================================================
