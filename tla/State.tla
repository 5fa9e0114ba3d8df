------------------------------- MODULE State --------------------------------
(***************************************************************************)
(* The globals of src/src/state.c through which the threads of a scan see  *)
(* each other.  They are plain variables: no lock protects them.           *)
(***************************************************************************)
EXTENDS Integers, Sequences, FiniteSets, FiniteSetsExt

VARIABLES
  proc,           \* the process: "running", "completed" (main returned) or
                  \* "aborted" (log_fatal was called)
  send_complete,  \* zsend.complete
  recv_complete   \* zrecv.complete

stateVars == <<proc, send_complete, recv_complete>>

StateInit ==
  /\ proc = "running"
  /\ send_complete = FALSE /\ recv_complete = FALSE

StateTypeOK ==
  /\ proc \in {"running", "completed", "aborted"}
  /\ send_complete \in BOOLEAN /\ recv_complete \in BOOLEAN

(* log_fatal: exit(EXIT_FAILURE) takes every thread down. *)
LogFatal == proc' = "aborted"
=============================================================================
