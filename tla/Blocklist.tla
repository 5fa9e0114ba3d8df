------------------------------ MODULE Blocklist -----------------------------
(***************************************************************************)
(* The block- and allowlist (src/lib/blocklist.c): blocklist_init reads up *)
(* to four sources one entry at a time, colours the constraint tree with   *)
(* them, takes 0.0.0.0 out and paints the tree.  The programs that call it *)
(* (zmap, zblocklist) extend this module.                                  *)
(*                                                                         *)
(* What an entry of a file or of the command line says is chosen when it   *)
(* is read.  An entry is an address with a prefix length, a host name with *)
(* the addresses the resolver (external) returns, an IPv6 address, a bad   *)
(* prefix length or an unresolvable name.                                  *)
(***************************************************************************)
EXTENDS Constraint, FiniteSets

CONSTANTS
  Entries,      \* the entries a source may hold
  MaxEntries    \* bound: entries read from one source

VARIABLES
  con,           \* constraint
  blocklisted,   \* blocklisted_cidrs: <<prefix, length>>, in order
  allowlisted,   \* allowlisted_cidrs
  given,         \* the sources the caller passes
  ignoreInvalid, \* ignore_invalid_hosts
  stage,         \* where blocklist_init is
  numRead        \* entries read from the current source

blocklistVars == <<con, blocklisted, allowlisted, given, ignoreInvalid, stage, numRead>>

Allowed    == 1   \* ADDR_ALLOWED
Disallowed == 0   \* ADDR_DISALLOWED

AllowSources == {"allowfile", "allowargs"}
BlockSources == {"blockfile", "blockargs"}
Sources      == AllowSources \cup BlockSources
SourceArgs   == {"allowargs", "blockargs"}

After(s) == CASE s = "allowfile" -> "allowargs"
              [] s = "allowargs" -> "blockfile"
              [] s = "blockfile" -> "blockargs"
              [] s = "blockargs" -> "finish"

(* A given allowlist makes everything disallowed that it does not name. *)
DefaultValue == IF given \cap AllowSources # {} THEN Disallowed ELSE Allowed

BlocklistInit ==
  /\ ignoreInvalid \in BOOLEAN
  /\ con = ConstraintInit(DefaultValue)
  /\ blocklisted = << >> /\ allowlisted = << >>
  /\ stage = "allowfile"
  /\ numRead = 0

ValueOf(s) == IF s \in AllowSources THEN Allowed ELSE Disallowed

(* _add_constraint for each address of an entry in turn. *)
RECURSIVE SetAll(_, _, _, _)
SetAll(c, addrs, len, value) ==
  IF addrs = << >> THEN c
  ELSE SetAll(ConstraintSet(c, Head(addrs), len, value), Tail(addrs), len, value)

AddConstraints(addrs, len, value) ==
  LET cidrs == [i \in 1 .. Len(addrs) |-> <<addrs[i], len>>]
  IN  /\ con' = SetAll(con, addrs, len, value)
      /\ allowlisted' = IF value = Allowed THEN allowlisted \o cidrs ELSE allowlisted
      /\ blocklisted' = IF value = Disallowed THEN blocklisted \o cidrs ELSE blocklisted

(* init_from_string as the loops of init_from_file and init_from_array     *)
(* call it: a bad prefix length is fatal, an IPv6 entry is skipped, and an *)
(* entry that yields no address is fatal unless invalid hosts are ignored. *)
InitFromString(e) ==
  /\ stage \in given
  /\ numRead < MaxEntries
  /\ numRead' = numRead + 1
  /\ \/ /\ e.kind = "badlen"
        /\ stage' = "fatal"
        /\ UNCHANGED <<con, blocklisted, allowlisted>>
     \/ /\ e.kind = "ipv6"
        /\ UNCHANGED <<stage, con, blocklisted, allowlisted>>
     \/ /\ e.kind = "ipv4"
        /\ AddConstraints(e.addrs, e.len, ValueOf(stage))
        /\ stage' = IF e.addrs = << >> /\ ~ignoreInvalid THEN "fatal" ELSE stage
  /\ UNCHANGED <<given, ignoreInvalid>>

(* The end of a source; one that is not given is passed over.  A list of   *)
(* arguments has at least one element when it is given.                    *)
EndOfSource ==
  /\ stage \in Sources
  /\ stage \in given \cap SourceArgs => numRead > 0
  /\ stage' = After(stage)
  /\ numRead' = 0
  /\ UNCHANGED <<con, blocklisted, allowlisted, given, ignoreInvalid>>

(* The rest of blocklist_init: 0.0.0.0, the paint, and the failure when no *)
(* address is left.                                                        *)
FinishInit ==
  LET blocked == ConstraintSet(con, 0, AddrBits, Disallowed)
      painted == ConstraintPaintValue(blocked, Allowed)
  IN  /\ stage = "finish"
      /\ con' = painted
      /\ blocklisted' = Append(blocklisted, <<0, AddrBits>>)
      /\ stage' = IF ConstraintCountIps(painted, Allowed) = 0
                    THEN "failure" ELSE "success"
      /\ UNCHANGED <<allowlisted, given, ignoreInvalid, numRead>>

IsAllowed(a) == ConstraintLookupIp(con, a) = Allowed

BlocklistNext == (\E e \in Entries : InitFromString(e)) \/ EndOfSource \/ FinishInit

-----------------------------------------------------------------------------
(* What the lists say, without the tree: the last entry that covers an     *)
(* address decides, allowlist entries coming before blocklist entries.     *)
Covers(cidr, a) ==
  LET size == 2 ^ (AddrBits - cidr[2]) IN a \div size = cidr[1] \div size

CoveredBy(cidrs, a) == \E i \in 1 .. Len(cidrs) : Covers(cidrs[i], a)

ListValue(a) == IF CoveredBy(blocklisted, a) THEN Disallowed
                ELSE IF CoveredBy(allowlisted, a) THEN Allowed
                ELSE DefaultValue

(* The tree gives every address the value the entries read so far give it, *)
(* and counts the addresses of both values right, whether it answers from  *)
(* the painted counts or by walking: splitting a leaf, overwriting a       *)
(* subtree and merging equal leaves lose no address, and no count          *)
(* outlives the entries it was made for.                                   *)
TreeMatchesLists ==
  /\ \A a \in Addrs : ConstraintLookupIp(con, a) = ListValue(a)
  /\ \A v \in {Allowed, Disallowed} :
       ConstraintCountIps(con, v) = Cardinality({a \in Addrs : ListValue(a) = v})

(* Once blocklist_init has succeeded, blocklist_lookup_index maps the      *)
(* indices below blocklist_count_allowed one to one onto the allowed       *)
(* addresses, of which 0.0.0.0 is none: the radix part and the tree part   *)
(* of the index neither overlap nor leave a gap.  The iterator depends on  *)
(* this to probe every allowed address and no other.                       *)
IndexEnumeratesAllowed ==
  stage = "success" =>
    LET n == ConstraintCountIps(con, Allowed)
        ips == {ConstraintLookupIndex(con, i, Allowed) : i \in 0 .. n - 1}
    IN  /\ ips = {a \in Addrs : ListValue(a) = Allowed}
        /\ Cardinality(ips) = n
        /\ n > 0 /\ 0 \notin ips
=============================================================================
