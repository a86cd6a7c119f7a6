--------------------------- MODULE ExpressionTree ---------------------------
(***************************************************************************)
(* The tree of an expression.  It is the JSON the panel's parser builds    *)
(* and stores, and, where the schema has all of it, the protobuf message   *)
(* Expression that rules_service walks over.                               *)
(***************************************************************************)
EXTENDS Naturals, Sequences

CONSTANT
  MaxDepth  \* how many nodes may stand above a node in a tree that
            \* json_format.ParseDict converts (it counts messages, two for a node)

ASSUME DepthAssumption == MaxDepth \in Nat

Literal(type, value) == [kind |-> "literal", type |-> type, value |-> value]
FieldNode(f) == [kind |-> "field", field |-> f]
Wildcard == [kind |-> "wildcard"]
Aggregate(f, operand) ==
  [kind |-> "aggregate", function |-> f, operand |-> operand]
Comparison(op, left, right) ==
  [kind |-> "comparison", operator |-> op, left |-> left, right |-> right]
Logical(op, operands) ==
  [kind |-> "logical", operator |-> op, operands |-> operands]

Children(e) ==
  CASE e.kind = "aggregate"  -> {e.operand}
    [] e.kind = "comparison" -> {e.left, e.right}
    [] e.kind = "logical"    -> {e.operands[i] : i \in DOMAIN e.operands}
    [] OTHER                 -> {}

\* Generations(e)[n]: the nodes of tree e with n nodes above them.
Generations(e) ==
  LET generation[n \in 0..(MaxDepth + 1)] ==
        IF n = 0 THEN {e} ELSE UNION {Children(x) : x \in generation[n - 1]}
  IN generation

=============================================================================
