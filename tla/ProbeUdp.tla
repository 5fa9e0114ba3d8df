------------------------------ MODULE ProbeUdp ------------------------------
(***************************************************************************)
(* The UDP probe modules (src/src/probe_modules): udp with its payload     *)
(* templates, ntp, upnp, bacnet, ipip, ipv6_udp, quic_initial and          *)
(* ipv6_quic_initial.                                                      *)
(***************************************************************************)
EXTENDS Packet

MaxUdpPayloadLen == 1472   \* MAX_UDP_PAYLOAD_LEN
HeadersLen  == EthLen + IpLen + UdpLen
Headers6Len == EthLen + Ip6Len + UdpLen

Shortened(len, max) == IF len > max THEN max ELSE len

UdpProbe(src, dst, dport, v, k) ==
  [Blank EXCEPT !.proto = "udp", !.src = src, !.dst = dst, !.dport = dport,
                !.sport = GetSrcPort(k, v)]
-----------------------------------------------------------------------------
(* udp: payload templates.  A template is a sequence of tokens: "$", "{",  *)
(* "}", "=", names, and numbers, of which ParamValue gives the values.     *)
(* Outside a field every token stands for one byte.                        *)

UdpPayloadTemplateFields ==
  [SADDR_N |-> 4, SADDR |-> 15, DADDR_N |-> 4, DADDR |-> 15, SPORT_N |-> 2, SPORT |-> 5,
   DPORT_N |-> 2, DPORT |-> 5, RAND_BYTE |-> 0, RAND_DIGIT |-> 0, RAND_ALPHA |-> 0,
   RAND_ALPHANUM |-> 0, HEX |-> 0, UNIXTIME_SEC |-> 4, UNIXTIME_USEC |-> 4]

ParamValue == [n0 |-> 0, n7 |-> 7, n1465 |-> 1465, n9999 |-> 9999]

Field(ftype, length, data) == [ftype |-> ftype, length |-> length, data |-> data]

(* The field a name between brackets stands for, if any; a parameter that  *)
(* is not a length is fatal.                                               *)
UdpTemplateFieldLookup(vname) ==
  LET eq    == FdsGetIndexByName(vname, "=")
      type  == IF eq = 0 THEN vname ELSE SubSeq(vname, 1, eq - 1)
      param == IF eq = 0 THEN << >> ELSE SubSeq(vname, eq + 1, Len(vname))
      olen  == IF eq = 0 THEN 0 ELSE ParamValue[param[1]]
      known == Len(type) = 1 /\ type[1] \in DOMAIN UdpPayloadTemplateFields
      bad   == eq # 0 /\ (\/ Len(param) # 1
                          \/ param[1] \notin DOMAIN ParamValue
                          \/ ParamValue[param[1]] > MaxUdpPayloadLen)
  IN  IF type = <<"HEX">>
      THEN [found |-> eq # 0, fatal |-> eq = 0, field |-> Field("HEX", Len(param), param)]
      ELSE [found |-> ~bad /\ known, fatal |-> bad,
            field |-> IF bad \/ ~known THEN Field("DATA", 0, << >>)
                      ELSE Field(type[1],
                                 IF UdpPayloadTemplateFields[type[1]] # 0
                                 THEN UdpPayloadTemplateFields[type[1]] ELSE olen,
                                 << >>)]

DataField(bytes) == IF bytes = << >> THEN << >> ELSE <<Field("DATA", Len(bytes), bytes)>>

(* Mutant: after an unknown field the text goes on behind its bracket. *)
UdpTemplateStep_DropsUnknown(buffer, t, p) ==
  LET look == UdpTemplateFieldLookup(SubSeq(buffer, t.lbrack + 1, p - 1))
      out  == [t EXCEPT !.dollar = 0, !.lbrack = 0]
  IN  IF t.fatal THEN t
      ELSE CASE buffer[p] = "$" -> IF t.lbrack = 0 THEN [t EXCEPT !.dollar = p] ELSE t
             [] buffer[p] = "{" -> IF t.dollar # 0 /\ t.lbrack = 0
                                   THEN [t EXCEPT !.lbrack = p] ELSE t
             [] buffer[p] = "}" ->
                  IF t.lbrack = 0 THEN t
                  ELSE [out EXCEPT
                          !.fields = @ \o DataField(SubSeq(buffer, t.s, t.dollar - 1))
                                       \o IF look.found THEN <<look.field>> ELSE << >>,
                          !.fatal = look.fatal,
                          !.s = p + 1]
             [] OTHER -> IF t.lbrack # 0 THEN t ELSE out

(* One step of udp_template_load, at position p: the place of the last     *)
(* dollar and opening bracket, the start s of the text not yet stored, and *)
(* the fields so far.  An opening bracket counts only after a dollar.      *)
UdpTemplateStep(buffer, t, p) ==
  LET look == UdpTemplateFieldLookup(SubSeq(buffer, t.lbrack + 1, p - 1))
      out  == [t EXCEPT !.dollar = 0, !.lbrack = 0]
  IN  IF t.fatal THEN t
      ELSE CASE buffer[p] = "$" -> IF t.lbrack = 0 THEN [t EXCEPT !.dollar = p] ELSE t
             [] buffer[p] = "{" -> IF t.dollar # 0 /\ t.lbrack = 0
                                   THEN [t EXCEPT !.lbrack = p] ELSE t
             [] buffer[p] = "}" ->
                  IF t.lbrack = 0 THEN t
                  ELSE [out EXCEPT
                          !.fields = @ \o DataField(SubSeq(buffer, t.s, t.dollar - 1))
                                       \o IF look.found THEN <<look.field>> ELSE << >>,
                          !.fatal = look.fatal,
                          !.s = IF look.found THEN p + 1 ELSE t.dollar]
             [] OTHER -> IF t.lbrack # 0 THEN t ELSE out

UdpTemplateLoad(buffer) ==
  LET start == [dollar |-> 0, lbrack |-> 0, s |-> 1, fields |-> << >>, fatal |-> FALSE]
      t     == FoldLeft(LAMBDA x, p : UdpTemplateStep(buffer, x, p), start,
                        [p \in 1 .. Len(buffer) |-> p])
  IN  [t EXCEPT !.fields = @ \o DataField(SubSeq(buffer, t.s, Len(buffer)))]

TemplateMaxLen(fields) == FoldLeft(LAMBDA n, f : n + f.length, 0, fields)

(* The number of characters of an address and of a port below 100000. *)
AddrText(ip) == 7 + (ip % 9)
PortText(port) == IF port < 10 THEN 1 ELSE IF port < 100 THEN 2 ELSE 5

FieldOutput(f, q) ==
  CASE f.ftype = "SADDR" -> AddrText(q.src)
    [] f.ftype = "DADDR" -> AddrText(q.dst)
    [] f.ftype = "SPORT" -> PortText(q.sport)
    [] f.ftype = "DPORT" -> PortText(q.dport)
    [] OTHER -> f.length

(* The length of the payload for probe q; 0 if it does not fit, and then   *)
(* the fields that follow are not looked at.                               *)
UdpTemplateBuild(fields, q) ==
  LET step(b, f) == IF b.full \/ b.n + f.length >= MaxUdpPayloadLen
                    THEN [n |-> 0, full |-> TRUE]
                    ELSE [b EXCEPT !.n = @ + FieldOutput(f, q)]
  IN  FoldLeft(step, [n |-> 0, full |-> FALSE], fields).n
-----------------------------------------------------------------------------
(* udp *)

UdpGlobalInitialize ==
  LET t   == UdpTemplateLoad(conf.args.tokens)
      len == Shortened(conf.args.len, MaxUdpPayloadLen)
      ok  == Initialized(HeadersLen + len, len, ValidatesOnDemand)
  IN  CASE conf.args.kind \in {"text", "file", "hex"} -> IF len = 0 THEN Refused ELSE ok
        [] conf.args.kind = "template" ->
             IF t.fatal \/ TemplateMaxLen(t.fields) = 0
                \/ HeadersLen + TemplateMaxLen(t.fields) > MaxPacketSize
             THEN Refused
             ELSE [Initialized(HeadersLen + TemplateMaxLen(t.fields), 0, ValidatesOnDemand)
                     EXCEPT !.template = t.fields]
        [] OTHER -> Refused

UdpPreparePacket == Datagram(UdpLen + mod.len)

UdpMakePacket(src, dst, dport, v, k) ==
  [UdpProbe(src, dst, dport, v, k) EXCEPT !.ipLen = buf.ipLen, !.frame = HeadersLen + mod.len]

(* A payload of no bytes is fatal. *)
UdpMakeTemplatedPacket(src, dst, dport, v, k) ==
  LET q == UdpProbe(src, dst, dport, v, k)
      n == UdpTemplateBuild(mod.template, q)
  IN  [q EXCEPT !.payload = IF n <= 0 THEN "fatal" ELSE "none",
                !.ipLen = IpLen + UdpLen + n, !.frame = HeadersLen + n]

UdpFields == ClassificationSuccessFields \o <<"sport", "dport", "udp_pkt_size", "data">>
               \o IcmpFields

UdpPortAdds(p) == <<Add("sport", p.sport), Add("dport", p.dport)>>

NoPortAdds == Adds(<<"sport", "dport">>)

(* Mutant: the ICMP fields of an answer are added before its data. *)
UdpProcessPacket_DataLast(p) ==
  Verdict("udp", 1) \o UdpPortAdds(p) \o FsAddNullIcmp \o Adds(<<"udp_pkt_size", "data">>)

UdpProcessPacket(p) ==
  IF p.proto = "udp"
  THEN Verdict("udp", 1) \o UdpPortAdds(p) \o Adds(<<"udp_pkt_size", "data">>)
         \o FsAddNullIcmp
  ELSE Verdict("icmp", 0) \o NoPortAdds \o Adds(<<"udp_pkt_size", "data">>)
         \o FsPopulateIcmp(p)

(* udp_do_validate_packet.  An ICMP error is compared with the validation  *)
(* generated for the packet that carries it.                               *)
UdpDoValidatePacket(p, src_ip, v) ==
  \/ /\ p.proto = "udp" /\ HasUdp(p)
     /\ CheckDstPort(p.dport, v)
     /\ BlocklistIsAllowed(src_ip)
     /\ (mod.checkSrc => CheckSrcPort(p.sport))
  \/ /\ p.proto = "icmp" /\ IcmpHelperValidate(p, UdpLen)
     /\ CheckSrcPort(Inner(p).dport)
     /\ CheckDstPort(Inner(p).sport, v)

UdpValidatePacket(p, src_ip, v) == UdpDoValidatePacket(p, src_ip, v)

(* ipv6_udp_validate_packet, for ipv6_udp and ipv6_dns. *)
Ipv6UdpValidatePacket(p, v) ==
  \/ /\ p.proto = "udp" /\ HasIpv6Payload(p)
     /\ CheckSrcPort(p.sport) /\ CheckDstPort(p.dport, v)
  \/ /\ p.proto = "icmp6" /\ p.type \in Icmp6Errors
     /\ p.inner # << >> /\ Inner(p).l4 >= UdpLen
     /\ CheckSrcPort(Inner(p).dport) /\ CheckDstPort(Inner(p).sport, v)
-----------------------------------------------------------------------------
(* ntp: the probe is sent by udp_make_packet, which knows nothing of the   *)
(* NTP header.                                                             *)

NtpLen == 48   \* sizeof(struct ntphdr)

NtpGlobalInitialize ==
  IF UdpGlobalInitialize.status # "ready" THEN Refused
  ELSE [UdpGlobalInitialize EXCEPT !.maxLen = 0, !.checkSrc = ValidatesByDefault]

NtpPreparePacket == Datagram(UdpLen + NtpLen)

NtpMakePacket(src, dst, dport, v, k) == UdpMakePacket(src, dst, dport, v, k)

NtpValidatePacket(p, src_ip, v) == UdpDoValidatePacket(p, src_ip, v)

NtpHeaderFields ==
  <<"LI_VN_MODE", "stratum", "poll", "precision", "root_delay", "root_dispersion",
    "reference_clock_identifier", "reference_timestamp", "originate_timestamp",
    "receive_timestamp", "transmit_timestamp">>

NtpFields == ClassificationSuccessFields \o <<"sport", "dport">> \o IcmpFields
               \o NtpHeaderFields

NtpProcessPacket(p) ==
  IF p.proto = "udp"
  THEN Verdict("ntp", 1) \o UdpPortAdds(p) \o FsAddNullIcmp \o Adds(NtpHeaderFields)
  ELSE <<Modify("saddr", Inner(p).dst)>> \o Verdict("icmp", 0) \o NoPortAdds
         \o <<Add("icmp_responder", p.src)>>
         \o Adds(<<"icmp_type", "icmp_code", "icmp_unreach_str">>) \o Adds(NtpHeaderFields)
-----------------------------------------------------------------------------
(* upnp: the query is in the buffer; udp_make_packet does not count it. *)

UpnpQueryLen == 97   \* strlen(upnp_query)

UpnpGlobalInitialize == Initialized(139, 0, ValidatesByDefault)

UpnpPreparePacket == Datagram(UdpLen + UpnpQueryLen)

UpnpMakePacket(src, dst, dport, v, k) == UdpMakePacket(src, dst, dport, v, k)

UpnpValidatePacket(p, src_ip, v) == UdpDoValidatePacket(p, src_ip, v)

UpnpHeaderFields == <<"server", "location", "usn", "st", "ext", "cache_control",
                      "x_user_agent", "agent", "date">>

UpnpFields == ClassificationSuccessFields \o UpnpHeaderFields \o <<"sport", "dport">>
                \o IcmpFields \o <<"data">>

(* The first line of the payload that is not empty decides: "none" stands  *)
(* for a payload without one, "http" for HTTP/1.1 200 OK.                  *)
UpnpVerdict(p) ==
  CASE p.payload = "none" -> Verdict("none", 0)
    [] p.payload = "http" -> Verdict("upnp", 1)
    [] OTHER -> Verdict("no-http-header", 0)

UpnpProcessPacket(p) ==
  IF p.proto = "udp"
  THEN UpnpVerdict(p) \o Adds(UpnpHeaderFields) \o UdpPortAdds(p) \o FsAddNullIcmp
         \o Adds(<<"data">>)
  ELSE Verdict("icmp", 0) \o Adds(UpnpHeaderFields) \o NoPortAdds \o FsPopulateIcmp(p)
         \o Adds(<<"data">>)
-----------------------------------------------------------------------------
(* bacnet *)

BacnetLen == 17   \* 0x11

BacnetGlobalInitialize == Initialized(HeadersLen + BacnetLen, 0, ValidatesByDefault)

BacnetPreparePacket == Datagram(UdpLen + BacnetLen)

BacnetMakePacket(src, dst, dport, v, k) ==
  [UdpProbe(src, dst, dport, v, k)
     EXCEPT !.id = Word(1, v), !.ipLen = buf.ipLen, !.frame = HeadersLen + BacnetLen]

(* The UDP length is compared as it is on the wire, in network order. *)
NetworkOrder(n) == (n % 256) * 256 + (n \div 256)

BacnetValidatePacket(p, src_ip, v) ==
  /\ UdpDoValidatePacket(p, src_ip, v)
  /\ p.proto = "udp" => NetworkOrder(p.l4) >= UdpLen + 4 /\ p.payload = "bacnet"

BacnetFields == <<"sport", "dport">> \o ClassificationSuccessFields \o <<"udp_payload">>
                  \o IcmpFields

BacnetProcessPacket(p) ==
  IF p.proto = "udp"
  THEN UdpPortAdds(p) \o Verdict("bacnet", 1) \o FsAddNullIcmp \o Adds(<<"udp_payload">>)
         \o FsAddNullIcmp
  ELSE NoPortAdds \o Verdict("icmp", 0) \o Adds(<<"udp_payload">>) \o FsPopulateIcmp(p)
-----------------------------------------------------------------------------
(* ipip: the probe is a UDP datagram from the target to the scanner, sent  *)
(* to the target inside another datagram; a target that forwards it sends  *)
(* it back.                                                                *)

IpipMaxPayloadLen == 200   \* MAX_UDP_PAYLOAD_LEN in module_ipip.c
DefaultMessageLen == 29    \* strlen(udp_send_msg_default)

IpipGlobalInitialize ==
  LET len == Shortened(conf.args.len, IpipMaxPayloadLen)
  IN  CASE conf.args.kind = "none" ->
             Initialized(HeadersLen + IpLen + 30, DefaultMessageLen, ValidatesByDefault)
        [] conf.args.kind \in {"text", "file", "hex"} ->
             Initialized(HeadersLen + IpLen + len, len, ValidatesByDefault)
        [] OTHER -> Refused

IpipPreparePacket == Datagram(IpLen + UdpLen + mod.len)

IpipMakePacket(src, dst, dport, v, k) ==
  [Blank EXCEPT !.proto = "ipip", !.src = src, !.dst = dst,
                !.inner = <<[UdpProbe(dst, src, dport, v, k) EXCEPT !.l4 = UdpLen + mod.len]>>,
                !.ipLen = buf.ipLen, !.frame = HeadersLen + IpLen + mod.len]

(* The receiver generates the validation with the source port, which in a  *)
(* forwarded probe is one of the scanner's: it is generated again.         *)
IpipValidatePacket(p, src_ip, v) ==
  \/ /\ p.proto = "udp" /\ HasUdp(p)
     /\ (mod.checkSrc => CheckSrcPort(p.dport))
     /\ BlocklistIsAllowed(src_ip)
     /\ \/ CheckDstPort(p.sport, v)
        \/ \E ip \in SourceIps : CheckDstPort(p.sport, ValidateGen(ip, p.src, p.dport))
  \/ /\ p.proto = "icmp" /\ p.type = "unreach"
     /\ p.inner # << >> /\ Inner(p).l4 >= IpLen + UdpLen
     /\ BlocklistIsAllowed(Inner(p).dst)
     /\ Inner(p).inner # << >>
     /\ LET outer == Inner(p)
            udp   == Inner(outer)
        IN  /\ outer.dst = udp.src /\ outer.src = udp.dst
            /\ (mod.checkSrc => CheckSrcPort(udp.dport))
            /\ CheckDstPort(udp.sport, v)

MessageFields == ClassificationSuccessFields \o <<"sport", "dport">> \o IcmpFields
                   \o <<"udp_pkt_size", "data">>

UnreachAdds(p) == <<Modify("saddr", Inner(p).dst)>> \o Verdict("icmp-unreach", 0)
                    \o NoPortAdds \o <<Add("icmp_responder", p.src)>>
                    \o Adds(<<"icmp_type", "icmp_code", "icmp_unreach_str">>)

IpipFields == MessageFields

IpipProcessPacket(p) ==
  IF p.proto = "udp"
  THEN Verdict("udp", 1) \o UdpPortAdds(p) \o FsAddNullIcmp \o Adds(<<"udp_pkt_size", "data">>)
  ELSE UnreachAdds(p) \o Adds(<<"udp_pkt_size", "data">>)
-----------------------------------------------------------------------------
(* ipv6_udp *)

Ipv6UdpGlobalInitialize ==
  CASE conf.args.kind = "none" -> Initialized(1, DefaultMessageLen, FALSE)
    [] conf.args.kind \in {"text", "file", "hex"} ->
         Initialized(1, Shortened(conf.args.len, MaxUdpPayloadLen), FALSE)
    [] OTHER -> Refused

Ipv6UdpPreparePacket == Datagram6(UdpLen + mod.len)

Ipv6UdpMakePacket(src, dst, dport, v, k) ==
  [UdpProbe(src, dst, dport, v, k) EXCEPT !.ipLen = buf.ipLen, !.frame = Headers6Len + mod.len]

Ipv6UdpModuleValidatePacket(p, src_ip, v) == HasIpv6Payload(p) /\ Ipv6UdpValidatePacket(p, v)

Ipv6UdpFields == MessageFields

Ipv6UdpProcessPacket(p) ==
  IF p.proto = "udp"
  THEN Verdict("udp", 1) \o UdpPortAdds(p) \o FsAddNullIcmp \o Adds(<<"udp_pkt_size", "data">>)
  ELSE UnreachAdds(p) \o Adds(<<"udp_pkt_size", "data">>)
-----------------------------------------------------------------------------
(* quic_initial and ipv6_quic_initial.  A payload is "quic" (a version     *)
(* negotiation for our connection with some version), "quic-empty" (with   *)
(* none), "echo" (our own packet), "none", or anything else.               *)

QuicLongHdr == 22   \* sizeof(quic_long_hdr)

QuicPadding == IF conf.args.kind = "padding" THEN conf.args.len ELSE 1200 - QuicLongHdr

QuicInitialGlobalInitialize == Initialized(HeadersLen + 1200, QuicPadding + QuicLongHdr, FALSE)

QuicInitialPreparePacket ==
  IF HeadersLen + mod.len > MaxPacketSize THEN Aborted ELSE Datagram(UdpLen + mod.len)

QuicInitialMakePacket(src, dst, dport, v, k) ==
  [UdpProbe(src, dst, dport, v, k)
     EXCEPT !.ipLen = IpLen + UdpLen + mod.len, !.frame = HeadersLen + mod.len]

QuicInitialFields == ClassificationSuccessFields \o <<"versions">>

QuicInitialProcessPacket(p) ==
  CASE p.payload = "quic"       -> Verdict("quic", 1) \o Adds(<<"versions">>)
    [] p.payload = "quic-empty" -> Verdict("quic", 1)
    [] p.payload \in {"echo", "none"} -> Verdict("udp", 0)
    [] OTHER -> << >>

QuicInitialValidatePacket(p, src_ip, v) ==
  /\ p.proto = "udp" /\ HasUdp(p)
  /\ CheckDstPort(p.dport, v)
  /\ (mod.checkSrc => CheckSrcPort(p.sport))
  /\ BlocklistIsAllowed(src_ip)

Ipv6QuicInitialGlobalInitialize ==
  Initialized(Headers6Len + 1200, QuicPadding + QuicLongHdr, FALSE)

(* The length written here counts the header; make_packet writes it again. *)
Ipv6QuicInitialPreparePacket ==
  IF Headers6Len + mod.len > MaxPacketSize THEN Aborted
  ELSE Datagram6(Ip6Len + UdpLen + mod.len)

Ipv6QuicInitialMakePacket(src, dst, dport, v, k) ==
  [UdpProbe(src, dst, dport, v, k)
     EXCEPT !.ipLen = Ip6Len + UdpLen + mod.len, !.frame = Headers6Len + mod.len]

Ipv6QuicInitialProcessPacket(p) ==
  CASE p.payload = "quic"       -> Verdict("quic", 1) \o Adds(<<"versions">>)
    [] p.payload = "quic-empty" -> Verdict("quic", 1)
    [] p.payload \in {"echo", "none"} -> Verdict("udp", 0)
    [] OTHER -> << >>

Ipv6QuicInitialValidatePacket(p, src_ip, v) ==
  /\ p.proto = "udp" /\ HasIpv6Payload(p)
  /\ CheckDstPort(p.dport, v)
  /\ (mod.checkSrc => CheckSrcPort(p.sport))
=============================================================================
