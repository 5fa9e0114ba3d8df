------------------------------- MODULE Filter -------------------------------
(***************************************************************************)
(* Output filters (src/src/parser.y, lexer.l, filter.c, expression.c): the *)
(* text of a filter becomes a tree, the tree is checked against the field  *)
(* definitions, and the receiver evaluates it on every row.                *)
(*                                                                         *)
(* The text is given by its operands and the connectives between them: an  *)
(* operand is a comparison or a filter in parentheses.  A definition of a  *)
(* field is a record [name, type].                                         *)
(***************************************************************************)
EXTENDS Naturals, SequencesExt

CONSTANTS
  UInt,    \* number of values of an unsigned int: 2^32
  ULong    \* number of values of a uint64_t

Comparison(field, op, lit) == [field |-> field, op |-> op, lit |-> lit]
IntLit(n)  == [type |-> "INT", num |-> n, str |-> ""]
StrLit(s)  == [type |-> "STRING", num |-> 0, str |-> s]
Chain(operands, conns) == [operands |-> operands, conns |-> conns]

IsChain(x) == "conns" \in DOMAIN x

(* A number passes through the int of the parser's semantic value and of   *)
(* make_int_node before it is stored as a uint64_t.                        *)
MakeIntNode(n) ==
  LET word == n % UInt
  IN  IF word < UInt \div 2 THEN word ELSE ULong - UInt + word

(* The rules number_filter and string_filter. *)
MakeComparison(c) ==
  [type |-> "OP", op |-> c.op, field |-> c.field,
   lit |-> IF c.lit.type = "INT" THEN [c.lit EXCEPT !.num = MakeIntNode(@)]
           ELSE c.lit]

OpNode(op, left, right) == [type |-> "OP", op |-> op, left |-> left, right |-> right]

(* Mutant: && and || bind alike. *)
RECURSIVE ParseFilterString_Flat(_)
ParseFilterString_Flat(f) ==
  IF ~IsChain(f) THEN MakeComparison(f)
  ELSE LET n == Len(f.operands)
       IN  IF n = 1 THEN ParseFilterString_Flat(f.operands[1])
           ELSE OpNode(f.conns[n - 1],
                  ParseFilterString_Flat(Chain(Front(f.operands), Front(f.conns))),
                  ParseFilterString_Flat(f.operands[n]))

(* filter_expr: both connectives associate to the left and && binds        *)
(* tighter, so that the root is the last || if there is one.               *)
RECURSIVE ParseFilterString(_)
ParseFilterString(f) ==
  IF ~IsChain(f) THEN MakeComparison(f)
  ELSE LET n    == Len(f.operands)
           ors  == {k \in 1 .. n - 1 : f.conns[k] = "OR"}
           root == IF ors = {} THEN n - 1 ELSE Max(ors)
           part(i, j) == Chain(SubSeq(f.operands, i, j), SubSeq(f.conns, i, j - 1))
       IN  IF n = 1 THEN ParseFilterString(f.operands[1])
           ELSE OpNode(f.conns[root], ParseFilterString(part(1, root)),
                       ParseFilterString(part(root + 1, n)))

IsConnective(node) == node.op \in {"AND", "OR"}

(* The index validate_node stores in the node: that of the first field of  *)
(* the name; 0 if there is none.                                           *)
FieldIndex(fields, name) ==
  LET found == {i \in DOMAIN fields : fields[i].name = name}
  IN  IF found = {} THEN 0 ELSE Min(found)

ValidateNode(node, fields) ==
  ~IsConnective(node) =>
    LET i == FieldIndex(fields, node.field)
    IN  /\ i # 0
        /\ fields[i].type \in (IF node.lit.type = "STRING" THEN {"string"}
                               ELSE {"int", "bool"})

RECURSIVE ValidateFilter(_, _)
ValidateFilter(root, fields) ==
  /\ ValidateNode(root, fields)
  /\ IsConnective(root) => /\ ValidateFilter(root.left, fields)
                           /\ ValidateFilter(root.right, fields)

(* eval_gt_node, eval_lt_node, eval_eq_node and the negations made of      *)
(* them.  A row is a sequence of values in the order of the definitions; a *)
(* value is a union, of which num is the number and str what the word      *)
(* points at.                                                              *)
EvalComparison(node, fields, row) ==
  LET actual == row[FieldIndex(fields, node.field)]
      gt == actual.num > node.lit.num
      lt == actual.num < node.lit.num
      eq == IF node.lit.type = "STRING" THEN actual.str = node.lit.str
            ELSE actual.num = node.lit.num
  IN  CASE node.op = "GT"    -> gt
        [] node.op = "LT"    -> lt
        [] node.op = "EQ"    -> eq
        [] node.op = "NEQ"   -> ~eq
        [] node.op = "LT_EQ" -> ~gt
        [] node.op = "GT_EQ" -> ~lt

RECURSIVE EvaluateExpression(_, _, _)
EvaluateExpression(root, fields, row) ==
  IF ~IsConnective(root) THEN EvalComparison(root, fields, row)
  ELSE IF root.op = "AND"
  THEN EvaluateExpression(root.left, fields, row) /\ EvaluateExpression(root.right, fields, row)
  ELSE EvaluateExpression(root.left, fields, row) \/ EvaluateExpression(root.right, fields, row)

-----------------------------------------------------------------------------
(* What the text of a filter says of a row, without a tree: some stretch   *)
(* of operands between two ||, or between a || and an end, holds in full.  *)
RelHolds(op, a, b) == CASE op = "GT" -> a > b  [] op = "LT" -> a < b
                        [] op = "EQ" -> a = b  [] op = "NEQ" -> a # b
                        [] op = "LT_EQ" -> a <= b [] op = "GT_EQ" -> a >= b

ComparisonSays(c, fields, row) ==
  \E i \in DOMAIN fields :
    /\ fields[i].name = c.field
    /\ IF fields[i].type = "string"
         THEN c.lit.type = "STRING" /\ (c.op = "EQ") = (row[i].str = c.lit.str)
         ELSE c.lit.type = "INT" /\ RelHolds(c.op, row[i].num, c.lit.num)

RECURSIVE FilterSays(_, _, _)
FilterSays(f, fields, row) ==
  IF ~IsChain(f) THEN ComparisonSays(f, fields, row)
  ELSE LET n == Len(f.operands)
       IN  \E i \in 1 .. n : \E j \in i .. n :
             /\ i = 1 \/ f.conns[i - 1] = "OR"
             /\ j = n \/ f.conns[j] = "OR"
             /\ \A k \in i .. j - 1 : f.conns[k] = "AND"
             /\ \A k \in i .. j : FilterSays(f.operands[k], fields, row)
=============================================================================
