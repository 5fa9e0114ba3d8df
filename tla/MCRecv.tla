------------------------------- MODULE MCRecv -------------------------------
(* Model-checking instances of Recv. *)
EXTENDS Recv

Reply(ip, port, success) ==
  [ip |-> ip, port |-> port, short |-> FALSE, valid |-> TRUE, success |-> success]
Stray(short) == [ip |-> 9, port |-> 1, short |-> short, valid |-> FALSE, success |-> FALSE]

\* three targets, two of them on one host, one of which may also answer with
\* a failure, and a stray packet
ThreeTargets ==
  {Reply(1, 1, TRUE), Reply(1, 2, TRUE), Reply(2, 1, TRUE), Reply(2, 1, FALSE),
   Stray(FALSE), Stray(TRUE)}

Options(method, default, ipv6) ==
  [dedup_method |-> method, default_mode |-> default, quiet |-> FALSE, ipv6 |-> ipv6]

SomeConfs ==
  {Options("FULL", TRUE, FALSE), Options("WINDOW", FALSE, FALSE), Options("NONE", FALSE, FALSE),
   Options("FULL", TRUE, TRUE), Options("WINDOW", FALSE, TRUE)}

KeepFresh == BOOLEAN \X {FALSE}
=============================================================================
