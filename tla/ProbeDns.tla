------------------------------ MODULE ProbeDns ------------------------------
(***************************************************************************)
(* The DNS probe modules (src/src/probe_modules/module_dns.c and           *)
(* module_ipv6_udp_dns.c): the questions, and how an answer is parsed.     *)
(*                                                                         *)
(* A domain and a message are sequences of bytes.  Of an answer, bytes is  *)
(* the message after its header, flags is its response code ("query" if it *)
(* is not an answer), and data holds the four counts of its header.        *)
(***************************************************************************)
EXTENDS ProbeUdp

Dot == 46
DnsHeaderLen == 12          \* sizeof(dns_header)
QuestionTailLen == 4        \* sizeof(dns_question_tail)
AnswerTailLen == 10         \* sizeof(dns_answer_tail)
DnsPayloadLenLimit == 512   \* DNS_PAYLOAD_LEN_LIMIT
MaxLabelRecursion == 10     \* MAX_LABEL_RECURSION
MaxNameLength == 512        \* MAX_NAME_LENGTH
PaddingLen == 16            \* the part of the name dnsippadding overwrites

QtypeCode == [A |-> 1, NS |-> 2, CNAME |-> 5, SOA |-> 6, PTR |-> 12, MX |-> 15,
              TXT |-> 16, AAAA |-> 28, RRSIG |-> 46, ALL |-> 255]

QtypeStrToCode(str) == IF str \in DOMAIN QtypeCode THEN QtypeCode[str] ELSE 0

(* Every dot, with one put in front, becomes the length of the label after *)
(* it.                                                                     *)
DomainToQname(domain) ==
  LET dotted == <<Dot>> \o domain
      Ends(i) == {j \in i + 1 .. Len(dotted) : dotted[j] = Dot} \cup {Len(dotted) + 1}
  IN  [i \in 1 .. Len(dotted) |->
         IF dotted[i] = Dot THEN (CHOOSE j \in Ends(i) : \A k \in Ends(i) : j <= k) - i - 1
                            ELSE dotted[i]] \o <<0>>

PacketLen(domain) == DnsHeaderLen + Len(DomainToQname(domain)) + QuestionTailLen
-----------------------------------------------------------------------------
(* The names of an answer.  payload is what the parser looks at: the bytes *)
(* from the DNS header on, and the length it takes them to have, which is  *)
(* that of the UDP header and so eight more than the message has.          *)

NoName == [consumed |-> 0, name |-> << >>]

(* Mutant: the bytes a pointer leads to count as consumed. *)
RECURSIVE GetNameHelper_CountsTarget(_, _, _, _, _, _)
GetNameHelper_CountsTarget(at, end, payload, consumed, name, level) ==
  LET byte   == payload.mem[at + 1]
      offset == (byte % 4) * 256 + payload.mem[at + 2]
      dotted == IF level > 0 \/ consumed > 0 THEN Append(name, Dot) ELSE name
      rest   == GetNameHelper_CountsTarget(offset, payload.len, payload, 0, dotted, level + 1)
      chain  == IF consumed > 0 THEN Append(name, Dot) ELSE name
  IN  CASE at >= end \/ level > MaxLabelRecursion -> NoName
        [] byte >= 192 ->
             IF end - at < 2 \/ offset >= payload.len \/ rest.consumed = 0 THEN NoName
             ELSE [consumed |-> consumed + rest.consumed, name |-> rest.name]
        [] byte = 0 -> [consumed |-> consumed + 1, name |-> name]
        [] OTHER ->
             IF byte + 1 > end - at - 1 THEN NoName
             ELSE GetNameHelper_CountsTarget(at + 1 + byte, end, payload, consumed + 1 + byte,
                                chain \o SubSeq(payload.mem, at + 2, at + 1 + byte), level)

(* get_name_helper, from position at of the payload and no further than    *)
(* end: labels up to a zero byte or a pointer, which the rest of the name  *)
(* is read from.  name is what has been read, of which there is room for   *)
(* MaxNameLength - 1 bytes.                                                *)
RECURSIVE GetNameHelper(_, _, _, _, _, _)
GetNameHelper(at, end, payload, consumed, name, level) ==
  LET room(n) == MaxNameLength - 1 - Len(n)
      byte    == payload.mem[at + 1]
      offset  == (byte % 4) * 256 + payload.mem[at + 2]
      dotted  == IF level > 0 \/ consumed > 0 THEN Append(name, Dot) ELSE name
      rest    == GetNameHelper(offset, payload.len, payload, 0, dotted, level + 1)
      chain   == IF consumed > 0 THEN Append(name, Dot) ELSE name
  IN  CASE at >= end \/ level > MaxLabelRecursion \/ (consumed = 0 /\ room(name) = 0) -> NoName
        [] byte >= 192 ->
             IF \/ end - at < 2 \/ offset >= payload.len
                \/ room(dotted) < 0 \/ rest.consumed = 0
             THEN NoName
             ELSE [consumed |-> consumed + 2, name |-> rest.name]
        [] byte = 0 -> [consumed |-> consumed + 1, name |-> name]
        [] OTHER ->
             IF byte + 1 > end - at - 1 \/ room(chain) < 0 \/ byte > room(chain) THEN NoName
             ELSE GetNameHelper(at + 1 + byte, end, payload, consumed + 1 + byte,
                                chain \o SubSeq(payload.mem, at + 2, at + 1 + byte), level)

GetName(at, end, payload) == GetNameHelper(at, end, payload, 0, << >>, 0)

Uint16(payload, at) == payload.mem[at + 1] * 256 + payload.mem[at + 2]

(* The parser: where it is, where the message ends, the entries found, and *)
(* whether an entry could not be parsed.                                   *)
Parse(at, end) == [at |-> at, end |-> end, list |-> << >>, err |-> FALSE]

ProcessResponseQuestion(d, payload) ==
  LET n    == GetName(d.at, d.end, payload)
      tail == d.at + n.consumed
  IN  IF n.consumed = 0 \/ tail + QuestionTailLen > d.end THEN [d EXCEPT !.err = TRUE]
      ELSE [d EXCEPT !.at = tail + QuestionTailLen,
                     !.list = Append(@, [name |-> n.name, type |-> Uint16(payload, tail)])]

(* How the data of a record is shown: as a name, as it is, or not parsed.  *)
(* The name of an MX record follows its preference, which is printed into  *)
(* six bytes: one of five digits ends the string before the name.          *)
RdataOf(type, rdlength, at, payload) ==
  LET nameAt(p) == GetName(p, at + rdlength, payload)
      shown(n)  == IF n.consumed = 0 THEN [parsed |-> 0, rdata |-> << >>]
                   ELSE [parsed |-> 1, rdata |-> n.name]
      raw(ok)   == [parsed |-> IF ok THEN 1 ELSE 0, rdata |-> << >>]
      mx        == shown(nameAt(at + 2))
  IN  CASE type \in {QtypeCode.NS, QtypeCode.CNAME} -> shown(nameAt(at))
        [] type = QtypeCode.MX -> IF rdlength <= 4 THEN raw(FALSE)
                                  ELSE IF Uint16(payload, at) >= 10000
                                  THEN [mx EXCEPT !.rdata = << >>] ELSE mx
        [] type = QtypeCode.TXT -> raw(rdlength >= 1 => rdlength - 1 = payload.mem[at + 1])
        [] type = QtypeCode.A -> raw(rdlength = 4)
        [] type = QtypeCode.AAAA -> raw(rdlength = 16)
        [] OTHER -> raw(FALSE)

ProcessResponseAnswer(d, payload) ==
  LET n        == GetName(d.at, d.end, payload)
      tail     == d.at + n.consumed
      type     == Uint16(payload, tail)
      rdlength == Uint16(payload, tail + 8)
      rdata    == tail + AnswerTailLen
  IN  IF \/ n.consumed = 0
         \/ rdata > d.end
         \/ rdlength + rdata > d.end
      THEN [d EXCEPT !.err = TRUE]
      ELSE [d EXCEPT !.at = rdata + rdlength,
                     !.list = Append(@, [name |-> n.name, type |-> type,
                                         rr |-> RdataOf(type, rdlength, rdata, payload)])]

(* The four sections of a message, one after another, up to the first      *)
(* entry that cannot be parsed; bytes left over are an error too.  The     *)
(* length of what follows the header is a uint16_t.                        *)
QuestionSection(d, payload, count) ==
  FoldLeft(LAMBDA x, i : IF x.err THEN x ELSE ProcessResponseQuestion(x, payload),
           d, [i \in 1 .. count |-> i])

RecordSection(d, payload, count) ==
  FoldLeft(LAMBDA x, i : IF x.err THEN x ELSE ProcessResponseAnswer(x, payload),
           [d EXCEPT !.list = << >>], [i \in 1 .. count |-> i])

ParseMessage(p) ==
  LET payload == [mem |-> [i \in 1 .. DnsHeaderLen |-> 0] \o p.bytes
                            \o [i \in 1 .. UdpLen |-> conf.slack],
                  len |-> p.plen]
      data_len == (p.plen - UdpLen - DnsHeaderLen) % 2^16
      qd == QuestionSection(Parse(DnsHeaderLen, DnsHeaderLen + data_len), payload, p.data[1])
      an == RecordSection(qd, payload, p.data[2])
      ns == RecordSection(an, payload, p.data[3])
      ar == RecordSection(ns, payload, p.data[4])
  IN  [questions |-> qd.list, answers |-> an.list, authorities |-> ns.list,
       additionals |-> ar.list, unconsumed |-> ar.end - ar.at,
       err |-> IF ar.err \/ ar.at # ar.end THEN 1 ELSE 0]
-----------------------------------------------------------------------------
(* dns *)

(* www.google.com *)
DefaultDomain == <<119, 119, 119, Dot, 103, 111, 111, 103, 108, 101, Dot, 99, 111, 109>>

Questions ==
  IF conf.args.questions = << >> THEN <<[qtype |-> "A", domain |-> DefaultDomain]>>
  ELSE conf.args.questions

DnsGlobalInitialize ==
  LET lens == {PacketLen(Questions[i].domain) : i \in DOMAIN Questions}
  IN  IF \/ conf.args.kind = "none"
         \/ \E i \in DOMAIN Questions :
              Questions[i].domain = << >> \/ QtypeStrToCode(Questions[i].qtype) = 0
         \/ conf.streams % Len(Questions) # 0
         \/ \E n \in lens : n > DnsPayloadLenLimit
      THEN Refused
      ELSE Initialized(HeadersLen + Max(lens), 0, ValidatesByDefault)

DnsPreparePacket == Datagram(UdpLen + PacketLen(Questions[1].domain))

GetDnsQuestionIndexByProbeNum(k) == (k % Len(Questions)) + 1

(* make_ip_strinqname: four labels of three digits. *)
MakeIpStrInQname(ip) == [i \in 1 .. PaddingLen |-> IF i % 4 = 1 THEN 3 ELSE 48 + ip]

(* The question sent: with dnsippadding its first bytes, be they those of  *)
(* the name or of the type and class after a short one, are overwritten    *)
(* with the address of the target.                                         *)
AskedQuestion(question, dst) ==
  IF conf.padding
  THEN [i \in DOMAIN question |-> IF i <= PaddingLen THEN MakeIpStrInQname(dst)[i] ELSE question[i]]
  ELSE question

DnsMakePacket(src, dst, dport, v, k) ==
  LET q == Questions[GetDnsQuestionIndexByProbeNum(k)]
  IN  [UdpProbe(src, dst, dport, v, k)
         EXCEPT !.id = Word(2, v),
                !.bytes = AskedQuestion(DomainToQname(q.domain) \o <<0, QtypeCode[q.qtype], 0, 1>>,
                                         dst),
                !.flags = "query", !.data = <<1, 0, 0, 0>>,
                !.ipLen = IpLen + UdpLen + PacketLen(q.domain),
                !.frame = HeadersLen + PacketLen(q.domain)]

(* The UDP length, which counts the UDP header, is compared with the       *)
(* length of a question, which does not.                                   *)
LongEnough(p, i) == p.plen >= PacketLen(Questions[i].domain)

(* The bytes captured that the UDP length is compared with include the IP  *)
(* header.                                                                 *)
DnsValidatePacket(p, src_ip, v) ==
  /\ UdpDoValidatePacket(p, src_ip, v)
  /\ p.proto = "udp" => /\ \E i \in DOMAIN Questions : LongEnough(p, i)
                        /\ IpLen + p.l4 >= p.plen

(* The string that starts after n bytes and ends before a zero byte. *)
CString(bytes, n) ==
  LET zeros == {i \in n + 1 .. Len(bytes) : bytes[i] = 0}
  IN  SubSeq(bytes, n + 1, IF zeros = {} THEN Len(bytes) ELSE Min(zeros) - 1)

(* The identifier and the name are those of a question; the type and class *)
(* that are compared are the question's own.  With dnsippadding a name too *)
(* short to hold the address is compared past its end: slack decides.      *)
IsValidAnswer(p, v) ==
  LET skip == IF conf.padding THEN PaddingLen ELSE 0
      SameName(qname) == IF skip >= Len(qname) THEN conf.slack = 0
                         ELSE CString(qname, skip) = CString(p.bytes, skip)
  IN  \E i \in DOMAIN Questions :
        /\ LongEnough(p, i)
        /\ p.id = Word(2, v)
        /\ SameName(DomainToQname(Questions[i].domain))

DnsHeaderFields ==
  <<"dns_id", "dns_rd", "dns_tc", "dns_aa", "dns_opcode", "dns_qr", "dns_rcode", "dns_cd",
    "dns_ad", "dns_z", "dns_ra", "dns_qdcount", "dns_ancount", "dns_nscount", "dns_arcount">>

DnsFields == <<"sport", "dport">> \o ClassificationSuccessFields \o <<"app_success">>
               \o IcmpFields \o <<"udp_len">> \o DnsHeaderFields
               \o <<"dns_questions", "dns_answers", "dns_authorities", "dns_additionals",
                    "dns_parse_err", "dns_unconsumed_bytes", "raw_data">>

DnsSections(m) ==
  <<Add("dns_questions", m.questions), Add("dns_answers", m.answers),
    Add("dns_authorities", m.authorities), Add("dns_additionals", m.additionals),
    Add("dns_parse_err", m.err), Add("dns_unconsumed_bytes", m.unconsumed)>>

DnsAddNullFs ==
  Adds(DnsHeaderFields)
    \o DnsSections([questions |-> << >>, answers |-> << >>, authorities |-> << >>,
                    additionals |-> << >>, err |-> 1, unconsumed |-> 0])

DnsProcessPacket(p, v) ==
  LET valid == IsValidAnswer(p, v)
      one(b) == IF b THEN 1 ELSE 0
  IN  IF p.proto = "udp"
      THEN UdpPortAdds(p) \o Verdict("dns", one(valid))
             \o <<Add("app_success", one(valid /\ p.flags = "noerror"))>>
             \o FsAddNullIcmp \o Adds(<<"udp_len">>)
             \o (IF valid THEN Adds(DnsHeaderFields) \o DnsSections(ParseMessage(p))
                 ELSE DnsAddNullFs)
             \o Adds(<<"raw_data">>)
      ELSE NoPortAdds \o Verdict("icmp", 0) \o <<Add("app_success", 0)>>
             \o FsPopulateIcmp(p) \o Adds(<<"udp_len">>) \o DnsAddNullFs
             \o Adds(<<"raw_data">>)
-----------------------------------------------------------------------------
(* ipv6_dns: one question, or a default message of 32 bytes. *)

Ipv6DnsQuestion == conf.args.questions[1]

Ipv6UdpDnsGlobalInitialize ==
  CASE conf.args.kind = "none" -> Initialized(1, 32, FALSE)
    [] conf.args.questions = << >> -> Refused
    [] QtypeStrToCode(Ipv6DnsQuestion.qtype) = 0 -> Refused
    [] OTHER -> Initialized(1, Shortened(PacketLen(Ipv6DnsQuestion.domain), MaxUdpPayloadLen),
                            FALSE)

Ipv6UdpDnsPreparePacket == Datagram6(UdpLen + mod.len)

Ipv6UdpDnsMakePacket(src, dst, dport, v, k) ==
  [UdpProbe(src, dst, dport, v, k)
     EXCEPT !.id = Word(2, v), !.ipLen = buf.ipLen, !.frame = Headers6Len + mod.len]

Ipv6UdpDnsValidatePacket(p, src_ip, v) == HasIpv6Payload(p) /\ Ipv6UdpValidatePacket(p, v)

Ipv6UdpDnsFields ==
  ClassificationSuccessFields \o <<"sport", "dport">> \o IcmpFields
    \o <<"app_response_str", "app_response_code", "udp_pkt_size", "data", "addrs">>

Ipv6UdpDnsProcessPacket(p) ==
  IF p.proto = "udp"
  THEN Verdict("udp_dns", IF p.flags = "noerror" THEN 1 ELSE 0) \o UdpPortAdds(p)
         \o FsAddNullIcmp \o Adds(SubSeq(Ipv6UdpDnsFields, 9, 13))
  ELSE UnreachAdds(p) \o Adds(SubSeq(Ipv6UdpDnsFields, 9, 13))
=============================================================================
