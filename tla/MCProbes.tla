------------------------------ MODULE MCProbes ------------------------------
(* Options for the model of the probe modules. *)
EXTENDS Probes

NoArgs == [kind |-> "none", len |-> 0, tokens |-> << >>, questions |-> << >>]

Plain(module) ==
  [module |-> module, args |-> NoArgs, streams |-> 2, override |-> "unset", key |-> 0,
   padding |-> FALSE, slack |-> 0, bandwidth |-> 0, rate |-> -1, options |-> << >>,
   payload |-> "data", records |-> << >>, targets |-> Targets]

(* One probe to each port of one target, where it is the bytes that matter. *)
Quiet(c) == [c EXCEPT !.streams = 1, !.targets = {2}]

With(module, kind, len) ==
  [Plain(module) EXCEPT !.args = [NoArgs EXCEPT !.kind = kind, !.len = len]]

Question(qtype, domain) == [qtype |-> qtype, domain |-> domain]

Asking(module, questions) ==
  [Plain(module) EXCEPT !.args = [NoArgs EXCEPT !.kind = "questions", !.questions = questions]]

Record(name, type, rdata) == [name |-> name, type |-> type, rdata |-> rdata, pref |-> 7]

(* Every module, with arguments it accepts. *)
Working ==
  {Plain(m) : m \in {"tcp_synscan", "tcp_synackscan", "tcp_synopt", "ipv6_tcp_synscan",
                     "ipv6_tcp_synopt", "icmp_echoscan", "icmp_echo_time", "icmp6_echoscan",
                     "icmp6_echo_time_novalidation", "ipip", "ipv6_udp", "ipv6_dns"}}
    \cup {With("tcp_synscan", os, 0) : os \in {"linux", "bsd", "smallest-probes"}}
    \cup {With(m, "hex", 8) : m \in {"tcp_synopt", "ipv6_tcp_synopt"}}
    \cup {With("udp", "text", n) : n \in {1, 1473}}
    \cup {With("icmp_echoscan", "text", 24), With("ipip", "hex", 201), With("ipv6_udp", "file", 3)}
    \cup {[Plain(m) EXCEPT !.payload = b] : m \in {"quic_initial", "ipv6_quic_initial"},
                                            b \in {"quic", "data"}}
    \cup {With("ntp", "text", 4), [Plain("upnp") EXCEPT !.payload = "http"],
          [Plain("bacnet") EXCEPT !.payload = "bacnet"]}
    \cup {Asking("ipv6_dns", <<Question("AAAA", <<97>>)>>),
          Asking("dns", <<Question("A", <<97, Dot, 98, 99>>), Question("MX", <<97>>)>>)}

(* Arguments a module refuses. *)
Refusing ==
  {With("tcp_synscan", "solaris", 0), With("tcp_synopt", "hex", 6), With("tcp_synopt", "hex", 44),
   With("udp", "none", 0), With("icmp_echoscan", "text", 1459), With("ipv6_udp", "template", 0),
   With("quic_initial", "padding", 2000), With("dns", "none", 0),
   [Asking("dns", <<Question("A", <<97>>), Question("A", <<98>>)>>) EXCEPT !.streams = 3],
   Asking("dns", <<Question("ANY", <<97>>)>>), Asking("ipv6_dns", << >>),
   [Plain("tcp_synscan") EXCEPT !.rate = 5, !.bandwidth = 10000],
   [Plain("tcp_synscan") EXCEPT !.rate = -2]}

Streams == {[c EXCEPT !.streams = s, !.key = k] :
              c \in {Plain("tcp_synscan"), Plain("ipip"), With("udp", "text", 4)},
              s \in 1 .. 3, k \in {0, 1, 17}}

Overrides == {[c EXCEPT !.override = o] :
                c \in {Plain("tcp_synscan"), With("udp", "text", 4), Plain("ipip")},
                o \in {"enable", "disable"}}

(* One probe of every module, and a long one. *)
Bandwidths == {[Quiet(c) EXCEPT !.bandwidth = b] :
                 c \in Working \cup {With("udp", "text", 900)}
                       \cup {With("ntp", "text", n) : n \in {18, 19}},
                 b \in {500, 30000, 42400, 50000, 90000}}

Optioned == {[Quiet(Plain("tcp_synscan")) EXCEPT !.options = o] :
               o \in UNION {[1 .. n -> {1, 2, 3, 4, 8, 30}] : n \in 1 .. 3}}

Templates == {[Quiet(With("udp", "template", 0)) EXCEPT !.args.tokens = t] :
                t \in UNION {[1 .. n -> {"$", "{", "}", "SPORT_N", "x"}] : n \in 1 .. 4}
                        \cup [1 .. 5 -> {"$", "{", "}", "SPORT_N"}]}

Domains == {<<97>>, <<97, Dot, 98>>, <<97, 98, Dot, 99, Dot, 97>>}

Resolving ==
  {[Quiet(Asking("dns", <<Question("A", d)>>)) EXCEPT !.records = r, !.slack = s] :
     d \in Domains, s \in {0, 1},
     r \in {<<Record(n, "A", "none")>> : n \in {"pointer", "mixed", "literal"}}
             \cup {<<Record("pointer", "TXT", "none"), Record(n, "NS", m)>> :
                     n, m \in {"pointer", "mixed", "literal"}}
             \cup {<<[Record("literal", "MX", m) EXCEPT !.pref = n]>> :
                     m \in {"pointer", "mixed", "literal"}, n \in {7, 9999, 10000}}}
  \cup {[Asking("dns", <<Question("A", d)>>) EXCEPT !.padding = TRUE, !.slack = s] :
          d \in {[i \in 1 .. 20 |-> IF i = 16 THEN Dot ELSE 97], <<97, Dot, 98, 99>>}, s \in {0, 1}}

AllConfigs == Working \cup Refusing \cup Streams \cup Overrides \cup Bandwidths \cup Optioned
                \cup Templates \cup Resolving
=============================================================================
