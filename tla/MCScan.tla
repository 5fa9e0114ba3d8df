------------------------------- MODULE MCScan -------------------------------
(* Model-checking instances of Scan. *)
EXTENDS Scan

CONSTANTS a, b

OneThread  == {a}
TwoThreads == {a, b}

\* two targets for one thread, one for the other
SmallWalk == [t \in TwoThreads |->
  IF t = a THEN << <<1, 1>>, <<2, 1>> >> ELSE << <<3, 1>> >>]

NoLimit  == [t \in Senders |-> 0]

\* the host that is probed second answers, once or twice, and a stray packet
Reply(success) == [ip |-> 2, port |-> 1, short |-> FALSE, valid |-> TRUE, success |-> success]
Stray   == [ip |-> 9, port |-> 1, short |-> FALSE, valid |-> FALSE, success |-> FALSE]
Replies == {Reply(TRUE), Stray}

\* with the monitor joined at the end and without
Talkative ==
  {[dedup_method |-> "FULL", default_mode |-> TRUE, quiet |-> q, ipv6 |-> FALSE] : q \in BOOLEAN}

KeepAll == BOOLEAN \X BOOLEAN
=============================================================================
