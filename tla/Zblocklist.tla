------------------------------ MODULE Zblocklist ----------------------------
(***************************************************************************)
(* The zblocklist program (src/src/zblocklist.c): builds the lists from    *)
(* its files, then copies the lines of its input whose address is allowed, *)
(* each address once unless duplicate checking is off.                     *)
(***************************************************************************)
EXTENDS Blocklist, Pbm, SequencesExt

CONSTANTS
  LineAddrs,   \* the addresses a line of the input may hold
  MaxLines     \* bound: lines of input

VARIABLES
  checkDuplicates,   \* conf.check_duplicates
  ignoreInputErrors, \* conf.ignore_input_errors
  seen,              \* the paged bitmap
  input, output      \* the lines read and the lines given to printf

zblocklistVars == <<blocklistVars, checkDuplicates, ignoreInputErrors, seen, input, output>>

NotAnAddress == 2 ^ AddrBits   \* a line inet_aton rejects
TooLong      == NotAnAddress + 1

(* The last line of an input that does not end in a newline, when it has   *)
(* no comma, tab, space or '#' either; whether it is an address does not   *)
(* matter.                                                                 *)
NoEnd == NotAnAddress + 2

Lines == LineAddrs \cup {NotAnAddress, TooLong, NoEnd}

(* The options; at least one file must be given. *)
Init ==
  /\ given \in SUBSET {"allowfile", "blockfile"} \ {{}}
  /\ BlocklistInit
  /\ checkDuplicates \in BOOLEAN /\ ignoreInputErrors \in BOOLEAN
  /\ seen = PbmInit
  /\ input = << >> /\ output = << >>

InitLists ==
  /\ BlocklistNext
  /\ UNCHANGED <<checkDuplicates, ignoreInputErrors, seen, input, output>>

Repeated(line) == checkDuplicates /\ PbmCheck(seen, line)

(* assert(n) fails, and abort does not flush: of the lines given to printf *)
(* those still in the buffer of stdout are lost.                           *)
AssertFails ==
  /\ stage' = "aborted"
  /\ \E n \in 0 .. Len(output) : output' = SubSeq(output, 1, n)

(* One turn of the loop over the input. *)
ProcessLine(line) ==
  /\ stage = "success"
  /\ Len(input) < MaxLines
  /\ input' = Append(input, line)
  /\ \/ /\ line = TooLong
        /\ stage' = "fatal"
        /\ UNCHANGED <<seen, output>>
     \/ /\ line = NoEnd
        /\ AssertFails
        /\ UNCHANGED seen
     \/ /\ line = NotAnAddress
        /\ output' = IF ignoreInputErrors THEN output ELSE Append(output, line)
        /\ UNCHANGED <<seen, stage>>
     \/ /\ line \in Addrs
        /\ Repeated(line) \/ ~IsAllowed(line)
        /\ UNCHANGED <<seen, output, stage>>
     \/ /\ line \in Addrs
        /\ ~Repeated(line) /\ IsAllowed(line)
        /\ seen' = IF checkDuplicates THEN PbmSet(seen, line) ELSE seen
        /\ output' = Append(output, line)
        /\ UNCHANGED stage
  /\ UNCHANGED <<con, blocklisted, allowlisted, given, ignoreInvalid, numRead,
                 checkDuplicates, ignoreInputErrors>>

Next == InitLists \/ \E line \in Lines : ProcessLine(line)

Spec == Init /\ [][Next]_zblocklistVars

-----------------------------------------------------------------------------
(* What belongs on the output: of the lines read, those that are allowed,  *)
(* without the ones an earlier line repeats when duplicates are checked,   *)
(* and the unparsable ones unless these are to be ignored.                 *)
Wanted(i) ==
  IF input[i] \in Addrs
    THEN /\ ListValue(input[i]) = Allowed
         /\ checkDuplicates => \A j \in 1 .. i - 1 : input[j] # input[i]
    ELSE input[i] = NotAnAddress /\ ~ignoreInputErrors

(* zblocklist prints exactly those lines, in the order of the input; the   *)
(* page a bit is on and the order of the check and the set do not show.    *)
(* An input that ends in a line without a newline or a separator is the    *)
(* exception: that line is not filtered, whatever address it holds, and    *)
(* the program aborts (zblocklist.c:224) with the lines before it printed  *)
(* up to some point.                                                       *)
OutputIsFilteredInput ==
  LET kept == SelectSeq([i \in 1 .. Len(input) |-> i], LAMBDA i : Wanted(i))
      filtered == [k \in 1 .. Len(kept) |-> input[kept[k]]]
  IN  IF stage = "aborted" THEN IsPrefix(output, filtered) ELSE output = filtered
=============================================================================
