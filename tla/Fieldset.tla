------------------------------ MODULE Fieldset ------------------------------
(***************************************************************************)
(* Fieldsets (src/src/fieldset.c): the rows the receiver builds.  A probe  *)
(* module declares its fields; when it fills a row it must add them in the *)
(* declared order, or fs_add_word ends the program.                        *)
(*                                                                         *)
(* A row is a record: the fields added so far, as <<name, value>> pairs,   *)
(* and whether a call ended the program.                                   *)
(***************************************************************************)
EXTENDS Naturals, SequencesExt

MaxFields == 128   \* MAX_FIELDS

(* The calls a probe module makes: fs_add_* and fs_modify_*. *)
Add(name, value) == [call |-> "add", name |-> name, value |-> value]
Modify(name, value) == [call |-> "modify", name |-> name, value |-> value]

(* Fields whose values no property looks at. *)
Adds(names) == [i \in DOMAIN names |-> Add(names[i], 0)]

(* The fields of one part after those of another; too many are fatal,      *)
(* which the empty definition stands for.                                  *)
GenFielddefSet(fds, fields) ==
  IF Len(fds) + Len(fields) > MaxFields THEN << >> ELSE fds \o fields

FsNewFieldset == [words |-> << >>, fatal |-> FALSE]

(* The position of a field; 0 for the code's -1. *)
FdsGetIndexByName(fds, name) ==
  IF \E i \in DOMAIN fds : fds[i] = name
  THEN CHOOSE i \in DOMAIN fds : fds[i] = name /\ \A j \in 1 .. i - 1 : fds[j] # name
  ELSE 0

Die(fs) == [fs EXCEPT !.fatal = TRUE]

FsAddWord(fds, fs, name, value) ==
  IF \/ Len(fs.words) + 1 >= MaxFields
     \/ Len(fs.words) + 1 \notin DOMAIN fds
     \/ fds[Len(fs.words) + 1] # name
  THEN Die(fs)
  ELSE [fs EXCEPT !.words = Append(@, <<name, value>>)]

(* The first field of that name; a field that was not added is fatal. *)
FsModifyWord(fs, name, value) ==
  LET names == [i \in DOMAIN fs.words |-> fs.words[i][1]]
      i     == FdsGetIndexByName(names, name)
  IN  IF i = 0 THEN Die(fs) ELSE [fs EXCEPT !.words[i] = <<name, value>>]

(* The row after a sequence of calls; nothing happens after a fatal one. *)
FsCalls(fds, calls) ==
  FoldLeft(LAMBDA fs, c :
             IF fs.fatal THEN fs
             ELSE IF c.call = "add" THEN FsAddWord(fds, fs, c.name, c.value)
             ELSE FsModifyWord(fs, c.name, c.value),
           FsNewFieldset, calls)

(* Where the fields to be output are; a field that is not defined is fatal *)
(* (0 stands for it).                                                      *)
FsGenerateFieldsetTranslation(fds, outputs) ==
  [i \in DOMAIN outputs |-> FdsGetIndexByName(fds, outputs[i])]

FsGenerateFullFieldsetTranslation(fds) == [i \in DOMAIN fds |-> i]
=============================================================================
