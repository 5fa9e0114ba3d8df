-------------------------------- MODULE Ztee --------------------------------
(***************************************************************************)
(* The ztee program (src/src/ztee.c).  Main detects the format from the    *)
(* first line and starts three threads: one reads lines into the queue,    *)
(* one writes them to the output file and, filtered, to standard output,   *)
(* and one reports statistics.                                             *)
(***************************************************************************)
EXTENDS Queue, Csv

CONSTANTS
  Headers,   \* the first lines: sequences of field names
  Rows,      \* the other lines: sequences of values
  MaxRows    \* bound: lines after the first

ASSUME ZteeAssumption ==
  MaxNodes \in Nat /\ MaxRows \in Nat /\ MaxNodes >= MaxRows + 1

VARIABLES
  conf,          \* tconf and what the input looks like
  input,         \* the lines of standard input: a header and rows, or nothing
  pc,            \* where each thread is
  node,          \* the node the writer has popped
  nread,         \* lines read from standard input
  done,          \* done
  processDone,   \* process_done
  totalWritten,  \* total_written
  ipField, successField,   \* tconf.ip_field, tconf.success_field
  file, stdout,  \* what has been written
  exit           \* "running", "fatal" or "ok"

zteeVars == <<queueVars, conf, input, pc, node, nread, done, processDone,
              totalWritten, ipField, successField, file, stdout, exit>>

Threads == {"main", "reader", "writer", "monitor"}

Shape == [json : BOOLEAN, fills : BOOLEAN, newline : BOOLEAN, raw : BOOLEAN,
          success_only : BOOLEAN, monitor : BOOLEAN]

SeqUpTo(S, n) == UNION {[1 .. k -> S] : k \in 0 .. n}

Init ==
  /\ QueueInit
  /\ conf \in Shape
  /\ \/ input = << >>
     \/ \E h \in Headers, r \in SeqUpTo(Rows, MaxRows) : input = <<h>> \o r
  /\ pc = [t \in Threads |-> IF t = "main" THEN "start" ELSE "none"]
  /\ node = NoNode /\ nread = 0 /\ totalWritten = 0
  /\ done = FALSE /\ processDone = FALSE
  /\ ipField = NotFound /\ successField = NotFound
  /\ file = << >> /\ stdout = << >> /\ exit = "running"

Header == input[1]

(* test_input_format.  Main passes the size of the buffer for the length   *)
(* of the line, so a JSON line is recognised only if it fills the buffer   *)
(* and has no newline at its end.                                          *)
TestInputFormat ==
  IF conf.json /\ conf.fills THEN "json"
  ELSE IF Len(Header) > 1 THEN "csv" ELSE "raw"

InFormat == IF conf.raw THEN "raw" ELSE TestInputFormat

Fatal ==
  /\ exit' = "fatal"
  /\ UNCHANGED <<queueVars, conf, input, pc, node, nread, done, processDone,
                 totalWritten, ipField, successField, file, stdout>>

(* The log_fatal calls of main from reading the first line to making the   *)
(* queue.  The one for a missing address field cannot be reached.          *)
Refused ==
  input # << >> => \/ InFormat = "json"
                   \/ conf.success_only /\ InFormat # "csv"
                   \/ conf.success_only /\ CsvFindIndex(Header, {"success"}) = NotFound

(* main up to the creation of the reader: the first line is read, looked   *)
(* at and pushed.                                                          *)
StartRefused ==
  /\ pc["main"] = "start" /\ Refused
  /\ Fatal

Start ==
  /\ pc["main"] = "start" /\ ~Refused
  /\ IF InFormat = "csv"
       THEN /\ successField' = CsvFindIndex(Header, {"success"})
            /\ ipField' = CsvFindIndex(Header, {"saddr", "ip"})
       ELSE UNCHANGED <<ipField, successField>>
  /\ PushBack(1)
  /\ nread' = 1
  /\ pc' = [pc EXCEPT !["main"] = "create_reader"]
  /\ UNCHANGED <<lock, waiting, conf, input, node, done, processDone,
                 totalWritten, file, stdout, exit>>

(* pthread_create for the threads in turn; a failure is fatal. *)
CreateThread(t, at, then) ==
  /\ pc["main"] = at
  /\ \/ /\ pc' = [pc EXCEPT ![t] = "top", !["main"] = then]
        /\ UNCHANGED <<queueVars, conf, input, node, nread, done, processDone,
                       totalWritten, ipField, successField, file, stdout, exit>>
     \/ Fatal

CreateReader == CreateThread("reader", "create_reader", "create_writer")
CreateWriter == CreateThread("writer", "create_writer",
                             IF conf.monitor THEN "create_monitor" ELSE "join")
CreateMonitor == CreateThread("monitor", "create_monitor", "join")

(* The joins at the end of main: all the threads it has created. *)
Join ==
  /\ pc["main"] = "join"
  /\ \A t \in Threads \ {"main"} : pc[t] \in {"none", "ended"}
  /\ exit' = "ok"
  /\ pc' = [pc EXCEPT !["main"] = "ended"]
  /\ UNCHANGED <<queueVars, conf, input, node, nread, done, processDone,
                 totalWritten, ipField, successField, file, stdout>>

Main == StartRefused \/ Start \/ CreateReader \/ CreateWriter \/ CreateMonitor \/ Join
-----------------------------------------------------------------------------
(* read_in: getline and push_back, which takes the lock, links the node,   *)
(* signals and gives the lock back; at the end of the input done is set    *)
(* under the lock, again with a signal.                                    *)
ReadLine ==
  /\ pc["reader"] = "top"
  /\ Lock("reader")
  /\ pc' = [pc EXCEPT !["reader"] = IF nread < Len(input) THEN "push" ELSE "eof"]
  /\ UNCHANGED <<front, back, size, nextOf, freed, waiting, conf, input, node,
                 nread, done, processDone, totalWritten, ipField, successField,
                 file, stdout, exit>>

PushLine ==
  /\ pc["reader"] = "push"
  /\ PushBack(nread + 1) /\ Signal /\ Unlock("reader")
  /\ nread' = nread + 1
  /\ pc' = [pc EXCEPT !["reader"] = "top"]
  /\ UNCHANGED <<conf, input, node, done, processDone, totalWritten, ipField,
                 successField, file, stdout, exit>>

(* Mutant: the end of the input is not signalled. *)
EndOfInput_Silent ==
  /\ pc["reader"] = "eof"
  /\ done' = TRUE /\ UNCHANGED waiting /\ Unlock("reader")
  /\ pc' = [pc EXCEPT !["reader"] = "ended"]
  /\ UNCHANGED <<front, back, size, nextOf, freed, conf, input, node, nread,
                 processDone, totalWritten, ipField, successField, file, stdout, exit>>

EndOfInput ==
  /\ pc["reader"] = "eof"
  /\ done' = TRUE /\ Signal /\ Unlock("reader")
  /\ pc' = [pc EXCEPT !["reader"] = "ended"]
  /\ UNCHANGED <<front, back, size, nextOf, freed, conf, input, node, nread,
                 processDone, totalWritten, ipField, successField, file, stdout, exit>>

Reader == ReadLine \/ PushLine \/ EndOfInput
-----------------------------------------------------------------------------
(* process_queue.  A thread that waits on the condition has given up the   *)
(* lock; woken, it takes the lock again before it looks at the queue.      *)
LockQueue ==
  /\ pc["writer"] \in {"top", "wait"}
  /\ "writer" \notin waiting
  /\ Lock("writer")
  /\ pc' = [pc EXCEPT !["writer"] = "test"]
  /\ UNCHANGED <<front, back, size, nextOf, freed, waiting, conf, input, node,
                 nread, done, processDone, totalWritten, ipField, successField,
                 file, stdout, exit>>

Wait ==
  /\ pc["writer"] = "test" /\ ~done /\ IsEmpty
  /\ waiting' = waiting \cup {"writer"} /\ Unlock("writer")
  /\ pc' = [pc EXCEPT !["writer"] = "wait"]
  /\ UNCHANGED <<front, back, size, nextOf, freed, conf, input, node, nread,
                 done, processDone, totalWritten, ipField, successField, file,
                 stdout, exit>>

(* pthread_cond_wait may return without a signal. *)
SpuriousWakeup ==
  /\ waiting # {}
  /\ waiting' = {}
  /\ UNCHANGED <<front, back, size, nextOf, freed, lock, conf, input, pc, node,
                 nread, done, processDone, totalWritten, ipField, successField,
                 file, stdout, exit>>

(* Mutant: the writer leaves when the reader is done, whatever is queued. *)
Drained_Early ==
  /\ pc["writer"] = "test" /\ done
  /\ processDone' = TRUE /\ Unlock("writer")
  /\ pc' = [pc EXCEPT !["writer"] = "ended"]
  /\ UNCHANGED <<front, back, size, nextOf, freed, waiting, conf, input, node,
                 nread, done, totalWritten, ipField, successField, file, stdout, exit>>

(* Done and empty: the writer leaves its loop and closes the file. *)
Drained ==
  /\ pc["writer"] = "test" /\ done /\ IsEmpty
  /\ processDone' = TRUE /\ Unlock("writer")
  /\ pc' = [pc EXCEPT !["writer"] = "ended"]
  /\ UNCHANGED <<front, back, size, nextOf, freed, waiting, conf, input, node,
                 nread, done, totalWritten, ipField, successField, file, stdout, exit>>

Pop ==
  /\ pc["writer"] = "test" /\ ~IsEmpty
  /\ node' = front
  /\ PopFrontUnsafe /\ Unlock("writer")
  /\ pc' = [pc EXCEPT !["writer"] = "write"]
  /\ UNCHANGED <<waiting, conf, input, nread, done, processDone, totalWritten,
                 ipField, successField, file, stdout, exit>>

(* The write to the output file, which may fail. *)
WriteFile ==
  /\ pc["writer"] = "write"
  /\ \/ /\ file' = Append(file, input[node])
        /\ pc' = [pc EXCEPT !["writer"] = "print"]
        /\ UNCHANGED <<queueVars, conf, input, node, nread, done, processDone,
                       totalWritten, ipField, successField, stdout, exit>>
     \/ Fatal

(* Every line but the last ends in a newline; the last may. *)
HasNewline(n) == n < Len(input) \/ conf.newline

Entry(n, field) == CsvGetIndex(input[n], HasNewline(n), field)

(* Whether print_from_csv takes a row for a success: atoi sees a number,   *)
(* and strcasecmp sees "true" unless a newline follows it.                 *)
Successful(n) ==
  LET entry == Entry(n, successField)
  IN  entry.text = "1" \/ (entry.text = "true" /\ ~ entry.newline)

(* fprintf with "%s\n": an entry with a newline of its own is followed by  *)
(* an empty line.                                                          *)
PrintEntry(entry) == IF entry.newline THEN <<entry.text, "">> ELSE <<entry.text>>

(* Mutant: the header line is treated as a row. *)
Printed_Header(n) ==
  IF InFormat # "csv" THEN <<input[n]>>
  ELSE IF conf.success_only /\ ~Successful(n) THEN << >>
  ELSE PrintEntry(Entry(n, ipField))

(* The lines that go to standard output for line n; none for the first     *)
(* line of a CSV file.                                                     *)
Printed(n) ==
  IF InFormat # "csv" THEN <<input[n]>>
  ELSE IF totalWritten = 0 \/ (conf.success_only /\ ~Successful(n)) THEN << >>
  ELSE PrintEntry(Entry(n, ipField))

(* The rest of the loop: standard output, the count, the two frees. *)
PrintLine ==
  /\ pc["writer"] = "print"
  /\ \/ /\ stdout' = stdout \o Printed(node)
        /\ totalWritten' = totalWritten + 1
        /\ freed' = freed \cup {node}
        /\ pc' = [pc EXCEPT !["writer"] = "top"]
        /\ UNCHANGED <<front, back, size, nextOf, lock, waiting, conf, input,
                       node, nread, done, processDone, ipField, successField,
                       file, exit>>
     \/ Fatal

Writer == LockQueue \/ Wait \/ Drained \/ Pop \/ WriteFile \/ PrintLine
-----------------------------------------------------------------------------
(* monitor_ztee: reports once more after each second until process_done is *)
(* set; it reads the size and the count without the lock.                  *)
MonitorTurn ==
  /\ pc["monitor"] = "top"
  /\ pc' = [pc EXCEPT !["monitor"] = IF processDone THEN "ended" ELSE "report"]
  /\ UNCHANGED <<queueVars, conf, input, node, nread, done, processDone,
                 totalWritten, ipField, successField, file, stdout, exit>>

MonitorReport ==
  /\ pc["monitor"] = "report"
  /\ \/ /\ pc' = [pc EXCEPT !["monitor"] = "top"]
        /\ UNCHANGED <<queueVars, conf, input, node, nread, done, processDone,
                       totalWritten, ipField, successField, file, stdout, exit>>
     \/ Fatal

Monitor == MonitorTurn \/ MonitorReport

Ended == exit # "running" /\ UNCHANGED zteeVars

Next == \/ exit = "running" /\ (Main \/ Reader \/ Writer \/ Monitor \/ SpuriousWakeup)
        \/ Ended

(* Every thread that can run does, and standard input comes to its end. *)
Fairness ==
  /\ WF_zteeVars(exit = "running" /\ Main)
  /\ WF_zteeVars(exit = "running" /\ Reader)
  /\ WF_zteeVars(exit = "running" /\ Writer)
  /\ WF_zteeVars(exit = "running" /\ Monitor)

Spec == Init /\ [][Next]_zteeVars /\ Fairness
-----------------------------------------------------------------------------
(* The output file is a copy of the input: at any time its first lines, in *)
(* order, none twice, and all of it when ztee exits with success.          *)
FileIsInput ==
  /\ file = SubSeq(input, 1, Len(file))
  /\ exit = "ok" => file = input

(* A header that names the address field, no field before it beginning     *)
(* with a name looked for, over rows whose first field is not empty.       *)
WellFormed ==
  /\ \A i \in 1 .. Len(Header) : Header[i] \notin {"saddr_raw", "ipid"}
  /\ \E i \in 1 .. Len(Header) : Header[i] = "saddr"
  /\ \A k \in 2 .. Len(input) : input[k][1] # "" /\ Len(input[k]) = Len(Header)

Column(name) == CHOOSE i \in 1 .. Len(Header) : Header[i] = name

(* With such a CSV input, standard output is the address of every row, in  *)
(* order, without the header, and with --success-only that of every row    *)
(* whose success field is 1 or true.  The last field of a row is not freed *)
(* of its newline (csv.c:49), which shows twice: an empty line follows     *)
(* each address when the addresses are the last column, and "true" is not  *)
(* recognised when the success field is.                                   *)
StdoutIsFiltered ==
  exit = "ok" /\ InFormat = "csv" /\ WellFormed =>
    LET last(name, k) == Column(name) = Len(Header) /\ HasNewline(k)
        success(k) == \/ input[k][Column("success")] = "1"
                      \/ input[k][Column("success")] = "true" /\ ~ last("success", k)
        address(k) == input[k][Column("saddr")]
        lines[k \in 1 .. Len(input)] ==
          IF k = 1 THEN << >>
          ELSE IF conf.success_only /\ ~ success(k) THEN lines[k - 1]
          ELSE IF last("saddr", k) THEN lines[k - 1] \o <<address(k), "">>
          ELSE Append(lines[k - 1], address(k))
    IN  stdout = lines[Len(input)]

(* ztee ends, unless the condition variable wakes the writer for ever      *)
(* without a signal: the writer is woken for every line and at the end of  *)
(* the input, and nobody waits for somebody who has left.                  *)
ZteeTermination == <>(exit # "running") \/ []<><<SpuriousWakeup>>_zteeVars
-----------------------------------------------------------------------------
(* The lines the writer has taken out of the queue. *)
Popped == Len(file) + (IF pc["writer"] = "write" THEN 1 ELSE 0)

(* No node is used after it was freed: neither the nodes that are linked,  *)
(* which push_back and pop_front_unsafe touch, nor the one whose line is   *)
(* being written and which is freed after it (ztee.c:335-370).             *)
NodesAlive ==
  /\ ~IsEmpty => front \notin freed /\ back \notin freed
  /\ pc["writer"] \in {"write", "print"} => node \notin freed

(* Reader and writer are never both inside the queue's lock.               *)
QueueExclusive == ~ (pc["reader"] \in {"push", "eof"} /\ pc["writer"] = "test")

(* The writer is never left asleep when there is something for it to do:   *)
(* while it waits for a signal the queue is empty and the input goes on.   *)
NoLostWakeup == "writer" \in waiting => IsEmpty /\ ~done

WakeupInv ==
  /\ waiting \subseteq {"writer"}
  /\ "writer" \in waiting => pc["writer"] = "wait"
  /\ NoLostWakeup

(* The inductive invariant behind the proofs of module ZteeProofs: the     *)
(* queue links the nodes from the first line that the writer has not taken *)
(* to the last one read, and the file holds the lines before them.         *)
Places ==
  {"none", "start", "create_reader", "create_writer", "create_monitor", "join", "top",
   "push", "eof", "wait", "test", "write", "print", "report", "ended"}

ZteeTypeOK ==
  /\ input \in Seq(Headers \cup Rows) /\ file \in Seq(Headers \cup Rows)
  /\ Len(input) <= MaxRows + 1
  /\ pc \in [Threads -> Places]
  /\ nread \in 0 .. Len(input) /\ done \in BOOLEAN
  /\ nextOf \in [QNodes -> 0 .. MaxNodes]
  /\ freed \subseteq Nat

PlacesInv ==
  /\ pc["main"] = "start" => nread = 0 /\ file = << >> /\ freed = {}
  /\ pc["main"] # "start" => nread > 0
  /\ pc["main"] \in {"start", "create_reader", "create_writer"} => pc["writer"] = "none"
  /\ pc["main"] \in {"start", "create_reader"} => pc["reader"] = "none"
  /\ pc["main"] \notin {"start", "create_reader", "create_writer"} => pc["writer"] # "none"
  /\ pc["reader"] = "push" => nread < Len(input)
  /\ pc["reader"] = "eof" \/ done => nread = Len(input)
  /\ done <=> pc["reader"] = "ended"
  /\ pc["reader"] \in {"push", "eof"} => lock = "reader"
  /\ pc["writer"] = "test" => lock = "writer"
  /\ pc["writer"] = "ended" => done /\ size = 0
  /\ exit = "ok" => pc["writer"] = "ended"

LinksInv ==
  /\ size = nread - Popped /\ size >= 0
  /\ size > 0 => front = Popped + 1 /\ back = nread
  /\ \A n \in Popped + 1 .. nread - 1 : nextOf[n] = n + 1
  /\ pc["writer"] \in {"write", "print"} => node = Popped
  /\ \A n \in freed : n <= Popped /\ (pc["writer"] \in {"write", "print"} => n < Popped)
  /\ \A i \in 1 .. Len(file) : file[i] = input[i]

ZteeInv == ZteeTypeOK /\ PlacesInv /\ LinksInv
=============================================================================
