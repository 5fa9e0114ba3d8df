----------------------------- MODULE ZteeProofs -----------------------------
(***************************************************************************)
(* Proofs about ztee: whatever the lines, their number and the             *)
(* interleaving of its threads, the output file is a prefix of the input,  *)
(* the whole of it at a successful exit, and no node of the queue is used  *)
(* after it was freed.                                                     *)
(***************************************************************************)
EXTENDS Ztee, SequenceTheorems, TLAPS

(* The input main is given is a sequence of lines, no longer than the bound. *)
LEMMA InputIsSeq ==
  Init => input \in Seq(Headers \cup Rows) /\ Len(input) <= MaxRows + 1
<1> SUFFICES ASSUME Init
             PROVE  input \in Seq(Headers \cup Rows) /\ Len(input) <= MaxRows + 1
  OBVIOUS
<1>1. CASE input = << >>
  BY <1>1, ZteeAssumption
<1>2. CASE input # << >>
  <2>1. PICK h \in Headers, r \in SeqUpTo(Rows, MaxRows) : input = <<h>> \o r
    BY <1>2, Zenon DEF Init
  <2>2. PICK k \in 0 .. MaxRows : r \in [1 .. k -> Rows]
    BY <2>1, SMTT(30) DEF SeqUpTo
  <2>3. r \in Seq(Headers \cup Rows) /\ Len(r) = k
    BY <2>2, ZteeAssumption
  <2>4. <<h>> \in Seq(Headers \cup Rows) /\ Len(<<h>>) = 1
    OBVIOUS
  <2> QED BY <2>1, <2>2, <2>3, <2>4, ConcatProperties, ZteeAssumption
<1> QED BY <1>1, <1>2

(* The initial states satisfy the invariant. *)
LEMMA InitZtee == Init => ZteeInv
<1> SUFFICES ASSUME Init PROVE ZteeInv
  OBVIOUS
<1>1. ZteeTypeOK
  <2>1. input \in Seq(Headers \cup Rows) /\ Len(input) <= MaxRows + 1
    BY InputIsSeq
  <2>2. /\ pc = [t \in Threads |-> IF t = "main" THEN "start" ELSE "none"]
        /\ nextOf = [n \in QNodes |-> 0]
        /\ nread = 0 /\ done = FALSE /\ file = << >> /\ freed = {}
    BY DEF Init, QueueInit, NoNode
  <2>3. pc \in [Threads -> Places] /\ nextOf \in [QNodes -> 0 .. MaxNodes]
    BY <2>2, ZteeAssumption DEF Places
  <2>4. nread \in 0 .. Len(input) /\ file \in Seq(Headers \cup Rows)
    BY <2>1, <2>2
  <2>5. done \in BOOLEAN /\ freed \subseteq Nat
    BY <2>2, Zenon
  <2> QED BY <2>1, <2>3, <2>4, <2>5 DEF ZteeTypeOK
<1>2. PlacesInv
  BY DEF Init, QueueInit, PlacesInv, Threads
<1>3. LinksInv
  <2>1. nread = 0 /\ size = 0 /\ Len(file) = 0 /\ freed = {} /\ pc["writer"] = "none"
    BY DEF Init, QueueInit, Threads
  <2> QED BY <2>1 DEF LinksInv, Popped
<1> QED BY <1>1, <1>2, <1>3 DEF ZteeInv

(* A step that changes neither the queue's links, the lock, the places of  *)
(* the threads nor what was read and written keeps the invariant.          *)
LEMMA SameZtee ==
  ASSUME ZteeInv,
         UNCHANGED <<front, back, size, nextOf, freed, lock, input, pc, node, nread,
                     done, file>>,
         exit' # "ok" \/ UNCHANGED exit
  PROVE  ZteeInv'
<1>1. ZteeTypeOK'
  BY DEF ZteeInv, ZteeTypeOK, QNodes
<1>2. PlacesInv'
  BY DEF ZteeInv, PlacesInv
<1>3. LinksInv'
  BY DEF ZteeInv, LinksInv, Popped
<1> QED BY <1>1, <1>2, <1>3 DEF ZteeInv

(* A fatal error ends the program and changes nothing else. *)
LEMMA FatalZtee == ZteeInv /\ Fatal => ZteeInv'
BY SameZtee DEF Fatal, queueVars

(* What a thread's move to another place does to pc. *)
LEMMA ThreadMoves ==
  ASSUME pc \in [Threads -> Places], NEW t \in Threads, NEW s \in Places,
         pc' = [pc EXCEPT ![t] = s]
  PROVE  /\ pc' \in [Threads -> Places]
         /\ pc'["main"] = IF t = "main" THEN s ELSE pc["main"]
         /\ pc'["reader"] = IF t = "reader" THEN s ELSE pc["reader"]
         /\ pc'["writer"] = IF t = "writer" THEN s ELSE pc["writer"]
<1>1. pc' \in [Threads -> Places]
  OBVIOUS
<1>2. \A u \in Threads : pc'[u] = IF u = t THEN s ELSE pc[u]
  OBVIOUS
<1> QED BY <1>1, <1>2 DEF Threads

(* Main keeps the invariant: it pushes the first line and then only        *)
(* creates and joins the threads.                                          *)
LEMMA MainZtee == ZteeInv /\ exit = "running" /\ Main => ZteeInv'
<1> SUFFICES ASSUME ZteeInv, exit = "running", Main PROVE ZteeInv'
  OBVIOUS
<1>0. pc \in [Threads -> Places] /\ "main" \in Threads
  BY DEF ZteeInv, ZteeTypeOK, Threads
<1>1. CASE Fatal
  BY <1>1, FatalZtee
<1>2. CASE Start
  <2>1. input # << >> /\ Len(input) > 0 /\ 1 \in QNodes
    BY <1>2, ZteeAssumption DEF Start, Refused, ZteeInv, ZteeTypeOK, QNodes
  <2>2. size = 0 /\ nread = 0 /\ file = << >> /\ pc["writer"] = "none" /\ pc["reader"] = "none"
    <3>1. nread = 0 /\ file = << >> /\ pc["writer"] = "none" /\ pc["reader"] = "none"
      BY <1>2 DEF Start, ZteeInv, PlacesInv
    <3>2. Len(file) = 0
      BY <3>1
    <3>3. Popped = 0
      BY <3>1, <3>2 DEF Popped
    <3> QED BY <3>1, <3>3 DEF ZteeInv, LinksInv
  <2>3. /\ front' = 1 /\ nextOf' = nextOf /\ back' = 1 /\ size' = 1 /\ nread' = 1
        /\ UNCHANGED <<freed, lock, input, node, done, file, exit>>
        /\ pc' = [pc EXCEPT !["main"] = "create_reader"]
    BY <1>2, <2>2 DEF Start, PushBack, IsEmpty
  <2>4. pc'["writer"] = "none" /\ pc'["reader"] = "none" /\ pc'["main"] = "create_reader"
    <3>1. "create_reader" \in Places
      BY DEF Places
    <3> QED BY <1>0, <2>2, <2>3, <3>1, ThreadMoves
  <2>5. ZteeTypeOK'
    <3>1. pc' \in [Threads -> Places]
      BY <1>0, <2>3, ThreadMoves, Zenon DEF Places
    <3> QED BY <3>1, <2>1, <2>3 DEF ZteeInv, ZteeTypeOK, QNodes
  <2>6. PlacesInv'
    BY <2>2, <2>3, <2>4 DEF ZteeInv, PlacesInv
  <2>7. LinksInv'
    BY <1>2, <2>2, <2>3, <2>4 DEF Start, ZteeInv, PlacesInv, LinksInv, Popped
  <2> QED BY <2>5, <2>6, <2>7 DEF ZteeInv
<1>3. ASSUME NEW t \in {"reader", "writer", "monitor"},
             NEW then \in {"create_writer", "create_monitor", "join"},
             pc' = [pc EXCEPT ![t] = "top", !["main"] = then],
             UNCHANGED <<front, back, size, nextOf, freed, lock, input, node, nread,
                         done, file, exit>>,
             \/ t = "reader" /\ pc["main"] = "create_reader" /\ then = "create_writer"
             \/ t = "writer" /\ pc["main"] = "create_writer" /\ then # "create_writer"
             \/ t = "monitor" /\ pc["main"] = "create_monitor" /\ then = "join"
      PROVE  ZteeInv'
  <2>0. pc' \in [Threads -> Places]
    BY <1>0, <1>3 DEF Places
  <2>1. /\ pc'["main"] = then
        /\ pc'["reader"] = IF t = "reader" THEN "top" ELSE pc["reader"]
        /\ pc'["writer"] = IF t = "writer" THEN "top" ELSE pc["writer"]
    BY <1>0, <1>3 DEF Threads
  <2>2. ZteeTypeOK'
    BY <1>3, <2>0 DEF ZteeInv, ZteeTypeOK, QNodes
  <2>3. PlacesInv'
    BY <1>3, <2>1 DEF ZteeInv, PlacesInv
  <2>4. LinksInv'
    <3>1. Popped' = Popped /\ (pc["writer"] \in {"write", "print"} <=> pc'["writer"] \in {"write", "print"})
      BY <1>3, <2>1 DEF ZteeInv, PlacesInv, Popped
    <3> QED BY <1>3, <3>1, Zenon DEF ZteeInv, LinksInv
  <2> QED BY <2>2, <2>3, <2>4 DEF ZteeInv
<1>4. CASE Join
  <2>1. /\ pc["writer"] = "ended" /\ pc["main"] = "join"
        /\ UNCHANGED <<front, back, size, nextOf, freed, lock, input, node, nread,
                       done, file>>
    BY <1>4 DEF Join, ZteeInv, PlacesInv, queueVars, Threads
  <2>2. /\ pc'["main"] = "ended" /\ pc'["reader"] = pc["reader"]
        /\ pc'["writer"] = pc["writer"] /\ pc' \in [Threads -> Places]
    BY <1>0, <1>4, ThreadMoves, Zenon DEF Join, Places
  <2>3. ZteeTypeOK'
    BY <2>1, <2>2 DEF ZteeInv, ZteeTypeOK, QNodes
  <2>4. PlacesInv'
    BY <2>1, <2>2 DEF ZteeInv, PlacesInv
  <2>5. LinksInv'
    BY <2>1, <2>2 DEF ZteeInv, LinksInv, Popped
  <2> QED BY <2>3, <2>4, <2>5 DEF ZteeInv
<1>5. CASE CreateReader
  BY <1>1, <1>3, <1>5 DEF CreateReader, CreateThread, queueVars
<1>6. CASE CreateWriter
  BY <1>1, <1>3, <1>6 DEF CreateWriter, CreateThread, queueVars
<1>7. CASE CreateMonitor
  BY <1>1, <1>3, <1>7 DEF CreateMonitor, CreateThread, queueVars
<1> QED
  BY <1>1, <1>2, <1>4, <1>5, <1>6, <1>7 DEF Main, StartRefused

(* A step of the lock, or of a thread that does not touch the links, leaves *)
(* the queue as it is.                                                     *)
LEMMA LinksKept ==
  ASSUME LinksInv, UNCHANGED <<front, back, size, nextOf, freed, input, node, nread, file>>,
         pc["writer"] = "write" <=> pc'["writer"] = "write",
         pc["writer"] = "print" <=> pc'["writer"] = "print"
  PROVE  LinksInv'
<1>1. Popped' = Popped
  BY DEF Popped
<1> QED BY <1>1 DEF LinksInv

(* Popped is a number of lines, and the pieces of the type invariant. *)
LEMMA ZteeTypes ==
  ASSUME ZteeInv
  PROVE  /\ pc \in [Threads -> Places] /\ Len(file) \in Nat /\ Len(input) \in Nat
         /\ Popped \in Nat /\ nread \in Nat /\ nread <= Len(input) /\ Popped <= nread
         /\ size = nread - Popped /\ Len(input) <= MaxNodes
<1>1. /\ pc \in [Threads -> Places] /\ Len(file) \in Nat /\ Len(input) \in Nat
      /\ nread \in Nat /\ nread <= Len(input) /\ Len(input) <= MaxNodes
  BY ZteeAssumption DEF ZteeInv, ZteeTypeOK
<1>2. Popped \in Nat
  BY <1>1 DEF Popped
<1>3. size = nread - Popped /\ size >= 0
  BY DEF ZteeInv, LinksInv
<1> QED BY <1>1, <1>2, <1>3

(* The reader keeps the invariant: it links the next line behind the last  *)
(* one and says so when there is none.                                     *)
LEMMA ReaderZtee == ZteeInv /\ exit = "running" /\ Reader => ZteeInv'
<1> SUFFICES ASSUME ZteeInv, exit = "running", Reader PROVE ZteeInv'
  OBVIOUS
<1>0. "reader" \in Threads /\ {"push", "eof", "top", "ended"} \subseteq Places
  BY DEF Threads, Places
<1>1. CASE ReadLine
  <2>1. /\ UNCHANGED <<front, back, size, nextOf, freed, input, node, nread, done, file, exit>>
        /\ lock = "free" /\ lock' = "reader" /\ pc["reader"] = "top"
        /\ pc' = [pc EXCEPT !["reader"] = IF nread < Len(input) THEN "push" ELSE "eof"]
    BY <1>1 DEF ReadLine, Lock
  <2>2. /\ pc' \in [Threads -> Places] /\ pc'["main"] = pc["main"]
        /\ pc'["writer"] = pc["writer"]
        /\ pc'["reader"] = IF nread < Len(input) THEN "push" ELSE "eof"
    BY <1>0, <2>1, ZteeTypes, ThreadMoves
  <2>3. ZteeTypeOK'
    BY <2>1, <2>2 DEF ZteeInv, ZteeTypeOK, QNodes
  <2>4. PlacesInv'
    BY <2>1, <2>2, ZteeTypes DEF ZteeInv, PlacesInv
  <2>5. LinksInv'
    BY <2>1, <2>2, LinksKept DEF ZteeInv
  <2> QED BY <2>3, <2>4, <2>5 DEF ZteeInv
<1>2. CASE PushLine
  <2> DEFINE p == Popped
  <2>0. /\ p \in Nat /\ nread \in Nat /\ p <= nread /\ nread < Len(input) /\ size = nread - p
        /\ Len(input) \in Nat /\ Len(input) <= MaxNodes /\ MaxNodes \in Nat
    BY <1>2, ZteeTypes, ZteeAssumption DEF PushLine, ZteeInv, PlacesInv
  <2>1. /\ UNCHANGED <<freed, input, node, done, file, exit>>
        /\ lock = "reader" /\ lock' = "free" /\ pc["reader"] = "push"
        /\ nread' = nread + 1 /\ back' = nread + 1 /\ size' = size + 1
        /\ pc' = [pc EXCEPT !["reader"] = "top"]
    BY <1>2 DEF PushLine, PushBack, Unlock
  <2>2. /\ pc' \in [Threads -> Places] /\ pc'["main"] = pc["main"]
        /\ pc'["writer"] = pc["writer"] /\ pc'["reader"] = "top"
    BY <1>0, <2>1, ZteeTypes, ThreadMoves
  <2>l. size # 0 => front = p + 1 /\ back = nread
    BY <2>0 DEF ZteeInv, LinksInv
  <2>3. /\ front' = IF size = 0 THEN nread + 1 ELSE front
        /\ nextOf' = IF size = 0 THEN nextOf ELSE [nextOf EXCEPT ![nread] = nread + 1]
    <3>1. /\ front' = IF size = 0 THEN nread + 1 ELSE front
          /\ nextOf' = IF size = 0 THEN nextOf ELSE [nextOf EXCEPT ![back] = nread + 1]
      BY <1>2 DEF PushLine, PushBack, IsEmpty
    <3> QED BY <3>1, <2>l, Zenon
  <2>4. nextOf' \in [QNodes -> 0 .. MaxNodes]
    <3>1. nextOf \in [QNodes -> 0 .. MaxNodes] /\ nread + 1 \in 0 .. MaxNodes
      BY <2>0 DEF ZteeInv, ZteeTypeOK
    <3> QED BY <2>3, <3>1, Zenon
  <2>5. ZteeTypeOK'
    BY <2>0, <2>1, <2>2, <2>4, SMTT(30) DEF ZteeInv, ZteeTypeOK, QNodes
  <2>6. PlacesInv'
    BY <2>0, <2>1, <2>2 DEF ZteeInv, PlacesInv
  <2>7. p' = p
    BY <2>1, <2>2 DEF Popped
  <2> HIDE DEF p
  <2>8. ASSUME NEW n \in p + 1 .. nread PROVE nextOf'[n] = n + 1
    <3>1. size # 0 /\ n \in QNodes /\ nextOf' = [nextOf EXCEPT ![nread] = nread + 1]
      BY <2>0, <2>3, <2>8 DEF QNodes
    <3>2. CASE n = nread
      BY <3>1, <3>2 DEF ZteeInv, ZteeTypeOK
    <3>3. CASE n # nread
      <4>1. n \in p + 1 .. nread - 1
        BY <2>0, <2>8, <3>3
      <4> QED BY <3>1, <3>3, <4>1 DEF ZteeInv, ZteeTypeOK, LinksInv, p
    <3> QED BY <3>2, <3>3
  <2>9. LinksInv'
    <3>1. size' = nread' - p' /\ size' >= 0
      BY <2>0, <2>1, <2>7
    <3>2. front' = p' + 1 /\ back' = nread'
      <4>1. CASE size = 0
        BY <2>0, <2>1, <2>3, <2>7, <4>1
      <4>2. CASE size # 0
        BY <2>1, <2>3, <2>7, <2>l, <4>2
      <4> QED BY <4>1, <4>2
    <3>3. \A n \in p' + 1 .. nread' - 1 : nextOf'[n] = n + 1
      BY <2>0, <2>1, <2>7, <2>8
    <3>4. /\ pc'["writer"] \in {"write", "print"} => node' = p'
          /\ \A n \in freed' : n <= p' /\ (pc'["writer"] \in {"write", "print"} => n < p')
          /\ \A i \in 1 .. Len(file') : file'[i] = input'[i]
      BY <2>1, <2>2, <2>7 DEF ZteeInv, LinksInv, p
    <3> QED BY <3>1, <3>2, <3>3, <3>4 DEF LinksInv, p
  <2> QED BY <2>5, <2>6, <2>9 DEF ZteeInv
<1>3. CASE EndOfInput
  <2>1. /\ UNCHANGED <<front, back, size, nextOf, freed, input, node, nread, file, exit>>
        /\ lock = "reader" /\ lock' = "free" /\ pc["reader"] = "eof" /\ done' = TRUE
        /\ pc' = [pc EXCEPT !["reader"] = "ended"]
    BY <1>3 DEF EndOfInput, Unlock
  <2>2. /\ pc' \in [Threads -> Places] /\ pc'["main"] = pc["main"]
        /\ pc'["writer"] = pc["writer"] /\ pc'["reader"] = "ended"
    BY <1>0, <2>1, ZteeTypes, ThreadMoves
  <2>3. ZteeTypeOK'
    BY <2>1, <2>2 DEF ZteeInv, ZteeTypeOK, QNodes
  <2>4. PlacesInv'
    BY <2>1, <2>2 DEF ZteeInv, PlacesInv
  <2>5. LinksInv'
    BY <2>1, <2>2, LinksKept DEF ZteeInv
  <2> QED BY <2>3, <2>4, <2>5 DEF ZteeInv
<1> QED BY <1>1, <1>2, <1>3 DEF Reader

(* The writer keeps the invariant: it takes the first node that is linked, *)
(* appends its line to the file and frees the node only then.              *)
LEMMA WriterZtee == ZteeInv /\ exit = "running" /\ Writer => ZteeInv'
<1> SUFFICES ASSUME ZteeInv, exit = "running", Writer PROVE ZteeInv'
  OBVIOUS
<1>0. "writer" \in Threads /\ {"top", "wait", "test", "write", "print", "ended"} \subseteq Places
  BY DEF Threads, Places
<1>f. CASE Fatal
  BY <1>f, FatalZtee
<1>1. ASSUME UNCHANGED <<front, back, size, nextOf, freed, input, node, nread, done, file, exit>>,
             pc["writer"] \in {"top", "wait", "test"},
             NEW s \in {"test", "wait", "ended"}, pc' = [pc EXCEPT !["writer"] = s],
             s = "test" => lock = "free" /\ lock' = "writer",
             s # "test" => lock = "writer" /\ lock' = "free",
             s = "ended" => done /\ size = 0
      PROVE  ZteeInv'
  <2>1. /\ pc' \in [Threads -> Places] /\ pc'["main"] = pc["main"]
        /\ pc'["reader"] = pc["reader"] /\ pc'["writer"] = s
    BY <1>0, <1>1, ZteeTypes, ThreadMoves
  <2>2. ZteeTypeOK'
    BY <1>1, <2>1 DEF ZteeInv, ZteeTypeOK, QNodes
  <2>3. PlacesInv'
    BY <1>1, <2>1 DEF ZteeInv, PlacesInv
  <2>4. LinksInv'
    BY <1>1, <2>1, LinksKept DEF ZteeInv
  <2> QED BY <2>2, <2>3, <2>4 DEF ZteeInv
<1>2. CASE LockQueue
  BY <1>1, <1>2 DEF LockQueue, Lock
<1>3. CASE Wait
  BY <1>1, <1>3 DEF Wait, Unlock
<1>4. CASE Drained
  BY <1>1, <1>4 DEF Drained, Unlock, IsEmpty
<1>5. CASE Pop
  <2> DEFINE p == Popped
  <2>0. /\ p \in Nat /\ nread \in Nat /\ p < nread /\ size = nread - p /\ size > 0
        /\ p = Len(file) /\ nread <= MaxNodes /\ MaxNodes \in Nat
    BY <1>5, ZteeTypes, ZteeAssumption DEF Pop, IsEmpty, Popped
  <2>1. /\ UNCHANGED <<back, nextOf, freed, input, nread, done, file, exit>>
        /\ lock = "writer" /\ lock' = "free" /\ pc["writer"] = "test"
        /\ node' = front /\ front' = nextOf[front] /\ size' = size - 1
        /\ pc' = [pc EXCEPT !["writer"] = "write"]
    BY <1>5 DEF Pop, PopFrontUnsafe, Unlock
  <2>2. /\ pc' \in [Threads -> Places] /\ pc'["main"] = pc["main"]
        /\ pc'["reader"] = pc["reader"] /\ pc'["writer"] = "write"
    BY <1>0, <2>1, ZteeTypes, ThreadMoves
  <2>3. ZteeTypeOK'
    BY <2>1, <2>2 DEF ZteeInv, ZteeTypeOK, QNodes
  <2>4. PlacesInv'
    BY <2>1, <2>2 DEF ZteeInv, PlacesInv
  <2>5. p' = p + 1
    BY <2>0, <2>1, <2>2 DEF Popped
  <2>6. /\ front = p + 1 /\ back = nread
        /\ \A n \in p + 1 .. nread - 1 : nextOf[n] = n + 1
        /\ \A n \in freed : n <= p
        /\ \A i \in 1 .. Len(file) : file[i] = input[i]
    BY <2>0 DEF ZteeInv, LinksInv
  <2>t. freed \subseteq Int
    BY <2>0 DEF ZteeInv, ZteeTypeOK, QNodes
  <2> HIDE DEF p
  <2>7. size' = nread' - p' /\ size' >= 0
    BY <2>0, <2>1, <2>5
  <2>8. size' > 0 => front' = p' + 1 /\ back' = nread'
    BY <2>0, <2>1, <2>5, <2>6
  <2>9. \A n \in p' + 1 .. nread' - 1 : nextOf'[n] = n + 1
    BY <2>0, <2>1, <2>5, <2>6, SMTT(30)
  <2>10. /\ node' = p'
         /\ \A n \in freed' : n <= p' /\ n < p'
         /\ \A i \in 1 .. Len(file') : file'[i] = input'[i]
    BY <2>0, <2>1, <2>5, <2>6, <2>t
  <2>11. LinksInv'
    BY <2>7, <2>8, <2>9, <2>10 DEF LinksInv, p
  <2> QED BY <2>3, <2>4, <2>11 DEF ZteeInv
<1>6. CASE WriteFile /\ ~Fatal
  <2> DEFINE p == Popped
  <2>0. /\ p \in Nat /\ nread \in Nat /\ p <= nread /\ nread <= Len(input)
        /\ p = Len(file) + 1 /\ Len(file) \in Nat /\ Len(input) \in Nat
    BY <1>6, ZteeTypes DEF WriteFile, Popped
  <2>1. /\ UNCHANGED <<front, back, size, nextOf, freed, lock, input, node, nread, done, exit>>
        /\ pc["writer"] = "write" /\ file' = Append(file, input[node])
        /\ pc' = [pc EXCEPT !["writer"] = "print"]
    BY <1>6 DEF WriteFile, queueVars
  <2>2. /\ pc' \in [Threads -> Places] /\ pc'["main"] = pc["main"]
        /\ pc'["reader"] = pc["reader"] /\ pc'["writer"] = "print"
    BY <1>0, <2>1, ZteeTypes, ThreadMoves
  <2>3. node = p /\ node \in 1 .. Len(input)
    BY <2>0, <2>1 DEF ZteeInv, LinksInv
  <2>4. /\ file' \in Seq(Headers \cup Rows) /\ Len(file') = Len(file) + 1
        /\ \A i \in 1 .. Len(file) : file'[i] = file[i]
        /\ file'[Len(file) + 1] = input[node]
    <3>1. file \in Seq(Headers \cup Rows) /\ input[node] \in Headers \cup Rows
      BY <2>3, ElementOfSeq DEF ZteeInv, ZteeTypeOK
    <3> QED BY <2>1, <3>1, AppendProperties
  <2>5. ZteeTypeOK'
    BY <2>1, <2>2, <2>4 DEF ZteeInv, ZteeTypeOK, QNodes
  <2>6. PlacesInv'
    BY <2>1, <2>2 DEF ZteeInv, PlacesInv
  <2>7. p' = p
    BY <2>0, <2>2, <2>4 DEF Popped
  <2>8. \A i \in 1 .. Len(file') : file'[i] = input'[i]
    BY <2>0, <2>1, <2>3, <2>4 DEF ZteeInv, LinksInv
  <2>9. LinksInv'
    <3> HIDE DEF p
    <3>1. /\ size' = nread' - p' /\ size' >= 0
          /\ size' > 0 => front' = p' + 1 /\ back' = nread'
          /\ \A n \in p' + 1 .. nread' - 1 : nextOf'[n] = n + 1
          /\ node' = p' /\ \A n \in freed' : n <= p' /\ n < p'
      BY <2>1, <2>3, <2>7 DEF ZteeInv, LinksInv, p
    <3> QED BY <3>1, <2>8 DEF LinksInv, p
  <2> QED BY <2>5, <2>6, <2>9 DEF ZteeInv
<1>7. CASE PrintLine /\ ~Fatal
  <2> DEFINE p == Popped
  <2>0. /\ p \in Nat /\ nread \in Nat /\ p <= nread /\ nread <= Len(input)
        /\ p = Len(file) /\ Len(input) <= MaxNodes /\ MaxNodes \in Nat
    BY <1>7, ZteeTypes, ZteeAssumption DEF PrintLine, Popped
  <2>1. /\ UNCHANGED <<front, back, size, nextOf, lock, input, node, nread, done, file, exit>>
        /\ pc["writer"] = "print" /\ freed' = freed \cup {node}
        /\ pc' = [pc EXCEPT !["writer"] = "top"]
    BY <1>7 DEF PrintLine
  <2>2. /\ pc' \in [Threads -> Places] /\ pc'["main"] = pc["main"]
        /\ pc'["reader"] = pc["reader"] /\ pc'["writer"] = "top"
    BY <1>0, <2>1, ZteeTypes, ThreadMoves
  <2>3. node = p /\ pc["main"] # "start"
    BY <2>1 DEF ZteeInv, LinksInv, PlacesInv
  <2>4. PlacesInv'
    BY <2>1, <2>2, <2>3 DEF ZteeInv, PlacesInv
  <2>5. p' = p
    BY <2>0, <2>1, <2>2 DEF Popped
  <2>6. ZteeTypeOK'
    BY <2>0, <2>1, <2>2, <2>3, Zenon DEF ZteeInv, ZteeTypeOK, QNodes
  <2>7. LinksInv'
    <3>1. /\ size = nread - p /\ size >= 0
          /\ size > 0 => front = p + 1 /\ back = nread
          /\ \A n \in p + 1 .. nread - 1 : nextOf[n] = n + 1
          /\ \A n \in freed : n <= p
          /\ \A i \in 1 .. Len(file) : file[i] = input[i]
      BY DEF ZteeInv, LinksInv
    <3> HIDE DEF p
    <3>2. \A n \in freed' : n <= p
      BY <2>0, <2>1, <2>3, <3>1
    <3> QED BY <2>1, <2>2, <2>5, <3>1, <3>2 DEF LinksInv, p
  <2> QED BY <2>4, <2>6, <2>7 DEF ZteeInv
<1> QED BY <1>f, <1>2, <1>3, <1>4, <1>5, <1>6, <1>7 DEF Writer, WriteFile, PrintLine

(* The monitor and a wake-up without a signal touch nothing of this. *)
LEMMA MonitorZtee ==
  ZteeInv /\ exit = "running" /\ (Monitor \/ SpuriousWakeup) => ZteeInv'
<1> SUFFICES ASSUME ZteeInv, exit = "running", Monitor \/ SpuriousWakeup PROVE ZteeInv'
  OBVIOUS
<1>1. CASE Fatal
  BY <1>1, FatalZtee
<1>2. CASE SpuriousWakeup
  BY <1>2, SameZtee DEF SpuriousWakeup
<1>3. ASSUME NEW s \in {"top", "report", "ended"}, pc' = [pc EXCEPT !["monitor"] = s],
             UNCHANGED <<queueVars, input, node, nread, done, file, exit>>
      PROVE  ZteeInv'
  <2>0. "monitor" \in Threads /\ s \in Places
    BY DEF Threads, Places
  <2>1. /\ pc' \in [Threads -> Places] /\ pc'["main"] = pc["main"]
        /\ pc'["reader"] = pc["reader"] /\ pc'["writer"] = pc["writer"]
    BY <1>3, <2>0, ZteeTypes, ThreadMoves
  <2>2. ZteeTypeOK'
    BY <1>3, <2>1 DEF ZteeInv, ZteeTypeOK, QNodes, queueVars
  <2>3. PlacesInv'
    BY <1>3, <2>1 DEF ZteeInv, PlacesInv, queueVars
  <2>4. LinksInv'
    BY <1>3, <2>1, LinksKept DEF ZteeInv, queueVars
  <2> QED BY <2>2, <2>3, <2>4 DEF ZteeInv
<1>4. CASE MonitorTurn
  BY <1>3, <1>4, Zenon DEF MonitorTurn
<1>5. CASE MonitorReport
  BY <1>1, <1>3, <1>5 DEF MonitorReport
<1> QED BY <1>2, <1>4, <1>5 DEF Monitor

(* The queue's invariant holds in every behaviour of ztee.                 *)
THEOREM ZteeInvariant == Spec => []ZteeInv
<1>1. ZteeInv /\ [Next]_zteeVars => ZteeInv'
  <2> SUFFICES ASSUME ZteeInv, [Next]_zteeVars PROVE ZteeInv'
    OBVIOUS
  <2>1. CASE UNCHANGED zteeVars
    BY <2>1, SameZtee DEF zteeVars, queueVars
  <2> QED
    BY <2>1, MainZtee, ReaderZtee, WriterZtee, MonitorZtee DEF Next, Ended
<1> QED BY <1>1, InitZtee, PTL DEF Spec

(* The output file is a copy of the input (process_queue and read_in): at  *)
(* any time its first lines, in order and none twice, and all of them when *)
(* ztee exits with success, for any lines and any number of them.          *)
THEOREM ZteeFileIsInput == Spec => []FileIsInput
<1>1. ZteeInv => FileIsInput
  <2> SUFFICES ASSUME ZteeInv PROVE FileIsInput
    OBVIOUS
  <2>1. Len(file) \in Nat /\ Len(file) <= Len(input) /\ Len(input) \in Nat
    BY ZteeTypes DEF Popped
  <2>2. /\ file \in Seq(Headers \cup Rows) /\ input \in Seq(Headers \cup Rows)
        /\ \A i \in 1 .. Len(file) : file[i] = input[i]
    BY DEF ZteeInv, ZteeTypeOK, LinksInv
  <2> DEFINE s == SubSeq(input, 1, Len(file))
  <2>3. s \in Seq(Headers \cup Rows) /\ Len(s) = Len(file) /\ \A i \in 1 .. Len(s) : s[i] = input[i]
    BY <2>1, <2>2, SubSeqProperties
  <2>4. file = s
    BY <2>2, <2>3, SeqEqual
  <2>5. ASSUME exit = "ok" PROVE file = input
    <3>1. pc["writer"] = "ended" /\ nread = Len(input) /\ size = 0
      BY <2>5 DEF ZteeInv, PlacesInv
    <3>2. Len(file) = Len(input)
      BY <2>1, <3>1, ZteeTypes DEF Popped
    <3> QED BY <2>2, <3>2, SeqEqual
  <2> QED BY <2>4, <2>5 DEF FileIsInput
<1> QED BY <1>1, ZteeInvariant, PTL

(* push_back, pop_front_unsafe and the writing of a line never touch a     *)
(* node that process_queue has freed.                                      *)
THEOREM ZteeNodesAlive == Spec => []NodesAlive
<1>1. ZteeInv => NodesAlive
  <2> SUFFICES ASSUME ZteeInv PROVE NodesAlive
    OBVIOUS
  <2>1. Popped \in Nat /\ nread \in Nat /\ size = nread - Popped /\ Popped <= nread
    BY ZteeTypes
  <2>2. /\ size > 0 => front = Popped + 1 /\ back = nread
        /\ pc["writer"] \in {"write", "print"} => node = Popped
        /\ freed \subseteq Nat
        /\ \A n \in freed : n <= Popped /\ (pc["writer"] \in {"write", "print"} => n < Popped)
    BY DEF ZteeInv, ZteeTypeOK, LinksInv
  <2> QED BY <2>1, <2>2 DEF NodesAlive, IsEmpty
<1> QED BY <1>1, ZteeInvariant, PTL

(* The lock of the queue keeps the reader's push and its setting of done   *)
(* apart from the writer's test of done and of the queue, so that no       *)
(* signal falls between the test and the wait.                             *)
THEOREM ZteeQueueExclusive == Spec => []QueueExclusive
<1>1. ZteeInv => QueueExclusive
  BY DEF ZteeInv, PlacesInv, QueueExclusive
<1> QED BY <1>1, ZteeInvariant, PTL

(* Every push and the end of the input come with a signal that the waiting *)
(* writer gets, and the writer waits only after it has seen, under the     *)
(* lock, that there is nothing to do.                                      *)
THEOREM ZteeNoLostWakeup == Spec => []NoLostWakeup
<1>1. Init => WakeupInv
  BY DEF Init, QueueInit, WakeupInv, NoLostWakeup
<1>2. ZteeInv /\ WakeupInv /\ [Next]_zteeVars => WakeupInv'
  <2> SUFFICES ASSUME ZteeInv, WakeupInv, [Next]_zteeVars PROVE WakeupInv'
    OBVIOUS
  <2>0. pc \in [Threads -> Places]
    BY ZteeTypes
  <2> USE DEF WakeupInv, NoLostWakeup, IsEmpty
  <2>1. ASSUME UNCHANGED <<waiting, size, done>>, pc'["writer"] = pc["writer"]
        PROVE  WakeupInv'
    BY <2>1
  <2>2. ASSUME NEW t \in {"main", "reader", "monitor"}, NEW s \in Places,
               pc' = [pc EXCEPT ![t] = s]
        PROVE  pc'["writer"] = pc["writer"]
    BY <2>0, <2>2 DEF Threads
  <2>3. CASE UNCHANGED zteeVars
    BY <2>1, <2>3 DEF zteeVars, queueVars
  <2>4. CASE Fatal
    BY <2>1, <2>4 DEF Fatal, queueVars
  <2>5. CASE Main
    <3>1. CASE Start
      <4>1. "writer" \notin waiting
        BY <3>1 DEF Start, ZteeInv, PlacesInv
      <4> QED BY <3>1, <4>1 DEF Start
    <3>2. CASE CreateWriter /\ ~Fatal
      <4>1. "writer" \notin waiting /\ UNCHANGED waiting
        BY <3>2 DEF CreateWriter, CreateThread, ZteeInv, PlacesInv, queueVars
      <4> QED BY <4>1
    <3>3. CASE (CreateReader \/ CreateMonitor) /\ ~Fatal
      <4>1. UNCHANGED <<waiting, size, done>>
        BY <3>3 DEF CreateReader, CreateMonitor, CreateThread, queueVars
      <4>2. pc'["writer"] = pc["writer"]
        BY <2>0, <3>3 DEF CreateReader, CreateMonitor, CreateThread, Threads
      <4> QED BY <2>1, <4>1, <4>2
    <3>4. CASE Join
      BY <2>1, <2>2, <3>4 DEF Join, queueVars, Places
    <3> QED BY <2>4, <2>5, <3>1, <3>2, <3>3, <3>4 DEF Main, StartRefused
  <2>6. CASE Reader
    <3>1. CASE ReadLine
      <4>1. pc'["writer"] = pc["writer"]
        BY <2>0, <3>1 DEF ReadLine, Threads
      <4> QED BY <2>1, <3>1, <4>1 DEF ReadLine
    <3>2. CASE PushLine \/ EndOfInput
      <4>1. waiting' = {}
        BY <3>2, Zenon DEF PushLine, EndOfInput, Signal
      <4> QED BY <4>1
    <3> QED BY <2>6, <3>1, <3>2 DEF Reader
  <2>7. CASE Writer
    <3>1. CASE LockQueue \/ Drained
      BY <3>1, Zenon DEF LockQueue, Drained
    <3>2. CASE Wait
      BY <2>0, <3>2 DEF Wait, Threads
    <3>3. CASE (Pop \/ WriteFile \/ PrintLine) /\ ~Fatal
      <4>1. "writer" \notin waiting /\ UNCHANGED waiting
        BY <3>3 DEF Pop, WriteFile, PrintLine, queueVars
      <4> QED BY <4>1
    <3> QED BY <2>4, <2>7, <3>1, <3>2, <3>3 DEF Writer
  <2>8. CASE Monitor
    <3>1. CASE ~Fatal
      <4>1. UNCHANGED <<waiting, size, done>>
        BY <2>8, <3>1 DEF Monitor, MonitorTurn, MonitorReport, queueVars
      <4>2. pc'["writer"] = pc["writer"]
        BY <2>0, <2>8, <3>1 DEF Monitor, MonitorTurn, MonitorReport, Threads
      <4> QED BY <2>1, <4>1, <4>2
    <3> QED BY <2>4, <3>1
  <2>9. CASE SpuriousWakeup
    BY <2>9 DEF SpuriousWakeup
  <2> QED BY <2>3, <2>5, <2>6, <2>7, <2>8, <2>9 DEF Next, Ended
<1>3. WakeupInv => NoLostWakeup
  BY DEF WakeupInv
<1> QED BY <1>1, <1>2, <1>3, ZteeInvariant, PTL DEF Spec
=============================================================================
