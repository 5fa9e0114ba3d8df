------------------------------- MODULE Packet -------------------------------
(***************************************************************************)
(* What the probe modules share (src/src/probe_modules/packet.c, packet.h, *)
(* src/src/validate.c): the packets, the validation words that tie an      *)
(* answer to a probe, source ports and the checks on them, and the checks  *)
(* on ICMP errors.                                                         *)
(*                                                                         *)
(* Hosts and ports are numbers.  Of a packet the model keeps the addresses,*)
(* the fields a module writes or checks, the number of bytes of its        *)
(* transport part, and for an ICMP error the packet it quotes.             *)
(***************************************************************************)
EXTENDS Fieldset, Integers, FiniteSets

CONSTANTS
  WordBits,      \* width of the second validation word, 32 in the code
  FirstPort,     \* zconf.source_port_first
  NumPorts,      \* source_port_last - source_port_first + 1
  TargetPorts,   \* the ports in zconf.ports
  SourceIps,     \* zconf.source_ip_addresses
  AllowedHosts   \* the addresses blocklist_is_allowed accepts

ASSUME PacketAssumption ==
  /\ WordBits \in Nat /\ FirstPort \in Nat /\ NumPorts \in Nat \ {0}
  /\ TargetPorts \subseteq Nat /\ SourceIps \subseteq Nat /\ AllowedHosts \subseteq Nat

VARIABLES
  conf,   \* the options: the module, its arguments, packet_streams, the
          \* source port override, and the key of the validation words
  mod,    \* what global_initialize and prepare_packet leave in the module
  buf     \* the lengths prepare_packet has written into the packet buffer

Inner(p) == p.inner[1]

(* A captured or sent packet with nothing in it. *)
Blank == [proto |-> "none", src |-> 0, dst |-> 0, sport |-> 0, dport |-> 0,
          flags |-> "none", seq |-> << >>, ack |-> << >>, type |-> "none",
          id |-> << >>, icmpSeq |-> << >>, data |-> << >>, payload |-> "none",
          bytes |-> << >>, l4 |-> 0, plen |-> 0, off |-> 0, ipLen |-> 0,
          frame |-> 0, inner |-> << >>]
-----------------------------------------------------------------------------
(* Sizes of the headers. *)
EthLen  == 14
IpLen   == 20
Ip6Len  == 40
TcpLen  == 20
UdpLen  == 8
IcmpMin == 8     \* ICMP_MINLEN
IcmpLen == 28    \* sizeof(struct icmp)

MaxPacketSize == 2042   \* MAX_PACKET_SIZE
-----------------------------------------------------------------------------
(* The AES block of validate_gen: words that differ for different inputs,  *)
(* except that the second one, used as a number, is only some number.      *)
Word(i, v) == <<i, v[1], v[2], v[3], 0>>

Number(v) == (conf.key + 2 * v[2] + v[3]) % 2^WordBits

Next1(w) == [w EXCEPT ![5] = @ + 1]

ValidateGen(src, dst, port) == <<src, dst, port>>

(* The addresses are xored, and the port is not used. *)
ValidateGenIpv6(src, dst, port) ==
  IF src < dst THEN <<src, dst, 0>> ELSE <<dst, src, 0>>

(* Mutant: one port past the range. *)
GetSrcPort_OffByOne(k, v) == FirstPort + 1 + (((Number(v) + k) % 2^WordBits) % NumPorts)

GetSrcPort(k, v) == FirstPort + (((Number(v) + k) % 2^WordBits) % NumPorts)

CheckDstPort(port, v) ==
  LET at == port - FirstPort
      lo == Number(v) % NumPorts
      hi == ((Number(v) + conf.streams - 1) % 2^WordBits) % NumPorts
  IN  /\ port >= FirstPort /\ port <= FirstPort + NumPorts - 1
      /\ IF lo <= hi THEN at <= hi /\ at >= lo ELSE (at <= hi) # (at >= lo)

CheckSrcPort(port) == port \in TargetPorts

BlocklistIsAllowed(ip) == ip \in AllowedHosts
-----------------------------------------------------------------------------
(* get_tcp_header, get_udp_header and get_icmp_header find a header only   *)
(* if the bytes of the packet hold it; over IPv6 only the length the       *)
(* header declares is compared, with the bytes of the header included.     *)
HasTcp(p)  == p.l4 >= TcpLen
HasUdp(p)  == p.l4 >= UdpLen
HasIcmp(p) == p.l4 >= IcmpLen
HasIpv6Payload(p) == p.plen <= Ip6Len + p.l4

QuotingTypes == {"unreach", "sourcequench", "redirect", "timxceed"}

Icmp6Errors == {"timxceed", "unreach", "toobig", "paramprob"}

(* An ICMP error that quotes at least min bytes of the transport part of a *)
(* packet to an address that may be probed.                                *)
IcmpHelperValidate(p, min) ==
  /\ p.type \in QuotingTypes /\ p.inner # << >> /\ Inner(p).l4 >= min
  /\ BlocklistIsAllowed(Inner(p).dst)
-----------------------------------------------------------------------------
(* Fields that several modules declare. *)
ClassificationSuccessFields == <<"classification", "success">>

IcmpFields == <<"icmp_responder", "icmp_type", "icmp_code", "icmp_unreach_str">>

Verdict(classification, success) ==
  <<Add("classification", classification), Add("success", success)>>

FsAddNullIcmp == Adds(IcmpFields)

(* Mutant: the row keeps the address of the host that sent the error. *)
FsPopulateIcmp_Responder(p) ==
  <<Add("icmp_responder", p.src)>>
    \o Adds(<<"icmp_type", "icmp_code", "icmp_unreach_str">>)

(* fs_populate_icmp_from_iphdr: the error comes from another host, saddr   *)
(* becomes the host the probe was sent to.                                 *)
FsPopulateIcmp(p) ==
  <<Modify("saddr", Inner(p).dst), Add("icmp_responder", p.src)>>
    \o Adds(<<"icmp_type", "icmp_code", "icmp_unreach_str">>)
-----------------------------------------------------------------------------
(* What a module is after global_initialize, and what prepare_packet writes. *)
(* Refused and Aborted stand for the ways the program ends there: an error   *)
(* that send_init reports, log_fatal, exit, or a failed assertion.           *)
NotInitialized == [status |-> "none", maxLen |-> 0, len |-> 0, checkSrc |-> FALSE,
                   template |-> << >>]

Initialized(maxLen, len, checkSrc) ==
  [NotInitialized EXCEPT !.status = "ready", !.maxLen = maxLen, !.len = len,
                         !.checkSrc = checkSrc]

Refused == [NotInitialized EXCEPT !.status = "failed"]

(* A module's close callback: what global_initialize has allocated is freed. *)
GlobalCleanup == [mod EXCEPT !.status = "closed"]

(* Validating source ports by default, unless it is disabled. *)
ValidatesByDefault == conf.override # "disable"

(* Not validating source ports by default, unless it is enabled. *)
ValidatesOnDemand == conf.override = "enable"

(* make_tcp_header and the setters of options: the length of the TCP       *)
(* header, in words of four bytes.                                         *)
MakeTcpHeader == 5

OptionWords == [mss |-> 1, nop_ws |-> 1, ts_nops |-> 3, sack_ts |-> 3,
                nop_sack |-> 1, sack_eol |-> 1]

SetTcpOptions(os) ==
  MakeTcpHeader +
    CASE os = "smallest-probes" -> OptionWords.mss
      [] os = "linux"   -> OptionWords.mss + OptionWords.sack_ts + OptionWords.nop_ws
      [] os = "bsd"     -> OptionWords.mss + OptionWords.nop_ws + OptionWords.ts_nops
                             + OptionWords.sack_eol
      [] os = "windows" -> OptionWords.mss + OptionWords.nop_ws + OptionWords.nop_sack

(* make_eth_header, make_ip_header and make_ip6_header: the length of the  *)
(* datagram; off is the length of a TCP header in words.                   *)
Datagram(l4) == [ipLen |-> IpLen + l4, off |-> 0]
TcpDatagram(l4, off) == [ipLen |-> IpLen + l4, off |-> off]
Datagram6(l4) == [ipLen |-> Ip6Len + l4, off |-> 0]
Aborted == [ipLen |-> -1, off |-> 0]
TcpDatagram6(l4, off) == [ipLen |-> Ip6Len + l4, off |-> off]
=============================================================================
