--------------------------------- MODULE Csv --------------------------------
(***************************************************************************)
(* Rows of comma-separated values (src/lib/csv.c).  A row is the sequence  *)
(* of its fields; an index counts from 0, as in the code.  An entry is the *)
(* text of a field, and whether a newline follows it in the entry.         *)
(***************************************************************************)
EXTENDS Integers, Sequences

(* NULL, which printf shows as "(null)". *)
NoField  == [text |-> "(null)", newline |-> FALSE]
NotFound == -1

(* The names of ZMap's fields that begin with a name looked for. *)
StartsWith(field, name) ==
  \/ field = name
  \/ name = "saddr" /\ field = "saddr_raw"
  \/ name = "ip" /\ field = "ipid"

(* csv_find_index: the first field of the header that begins with one of   *)
(* the names.                                                              *)
CsvFindIndex(header, names) ==
  LET hits == {i \in 1 .. Len(header) : \E n \in names : StartsWith(header[i], n)}
  IN  IF hits = {} THEN NotFound
      ELSE (CHOOSE i \in hits : \A j \in hits : i <= j) - 1

(* csv_get_index.  The search for the first comma begins one character     *)
(* into the row, so an empty first field is passed over.  An index of -1,  *)
(* cast to size_t, runs off the end of every row.  The last field reaches  *)
(* to the end of the string, so it keeps the newline of the row if there   *)
(* is one.                                                                 *)
CsvGetIndex(row, newline, idx) ==
  LET at == IF idx > 0 /\ row[1] = "" THEN idx + 2 ELSE idx + 1
  IN  IF idx = NotFound \/ at > Len(row) THEN NoField
      ELSE [text |-> row[at], newline |-> newline /\ at = Len(row)]
=============================================================================
