-------------------------- MODULE ExpressionParser --------------------------
(***************************************************************************)
(* The language of rules as the panel reads it (expression_parser.py): the *)
(* kinds of tokens, the checks of RuleParser.parse and the recursive       *)
(* descent of Parser.  A token is its text; texts of one kind that the     *)
(* system treats alike need only one representative.  What RuleParser      *)
(* refuses, with whatever message, is Failed.                              *)
(***************************************************************************)
EXTENDS ExpressionTree

CONSTANTS
  Number,  \* Number[t]: the value of numeral t, n units of size size
  Quoted,  \* Quoted[t]: the text between the quotes of string t
  Upper,   \* Upper[w]: text w in upper case
  Lower    \* Lower[w]: text w in lower case

ASSUME NumberAssumption ==
  \A t \in DOMAIN Number :
    Number[t].size \in {"int32", "int64", "fraction"} /\ Number[t].n \in Nat

ASSUME TextAssumption ==
  \A t \in DOMAIN Quoted : Quoted[t] \in DOMAIN Upper \cap DOMAIN Lower

LogicOp == {"AND", "OR", "NOT"}
AggFunction == {"COUNT_DISTINCT", "COUNT", "SUM", "AVG", "MIN", "MAX"}
ProtoField == {"TRANSACTION_ID", "SENDER_ACCOUNT", "TIMESTAMP",
               "RECEIVER_ACCOUNT", "AMOUNT", "TRANSACTION_TYPE",
               "MERCHANT_CATEGORY", "LOCATION", "DEVICE_USED",
               "PAYMENT_CHANNEL", "IP_ADDRESS", "DEVICE_HASH"}
Field == ProtoField \cup {"TIME"}

CompOpMap ==
  [t \in {"==", "=", "!=", ">", ">=", "<", "<="} |->
     CASE t \in {"==", "="} -> "EQUAL"
       [] t = "!=" -> "NOT_EQUAL"
       [] t = ">"  -> "GREATER_THAN"
       [] t = ">=" -> "GREATER_THAN_OR_EQUAL"
       [] t = "<"  -> "LESS_THAN"
       [] t = "<=" -> "LESS_THAN_OR_EQUAL"]

\* The lexer tells numerals and quoted texts from all else by their first letter.
ASSUME TokenAssumption ==
  /\ DOMAIN Number \cap DOMAIN Quoted = {}
  /\ \A t \in DOMAIN Number \cup DOMAIN Quoted :
       t \notin LogicOp \cup AggFunction \cup Field \cup DOMAIN CompOpMap
               \cup {"TRUE", "FALSE", "(", ")", "*"}

Kind(t) ==
  CASE t \in DOMAIN Number    -> "NUMBER"
    [] t \in DOMAIN Quoted    -> "STRING"
    [] t \in {"TRUE", "FALSE"} -> "BOOL"
    [] t \in AggFunction      -> "AGG_FUNCTION"
    [] t \in Field            -> "FIELD"
    [] t \in LogicOp          -> "LOGIC_OP"
    [] t \in DOMAIN CompOpMap -> "COMP_OP"
    [] t = "("                -> "LPAREN"
    [] t = ")"                -> "RPAREN"
    [] t = "*"                -> "WILDCARD"
    [] OTHER                  -> "IDENTIFIER"

-----------------------------------------------------------------------------
(* Nodes                                                                   *)

NumberLiteral(v) ==
  CASE v.size = "int32"    -> Literal("int_value", v.n)
    [] v.size = "int64"    -> Literal("int64_value", v.n)
    [] v.size = "fraction" -> Literal("float_value", v.n)

\* The lexer works on text.upper(); identifiers are lowered again.
AtomLiteral(t) ==
  CASE Kind(t) = "NUMBER"     -> NumberLiteral(Number[t])
    [] Kind(t) = "STRING"     -> Literal("string_value", Upper[Quoted[t]])
    [] Kind(t) = "BOOL"       -> Literal("bool_value", t = "TRUE")
    [] Kind(t) = "IDENTIFIER" -> Literal("string_value", Lower[t])

\* MUTANT: a chain is continued whatever its operator is.
BuildLogicalAlways(left, op, right) ==
  IF left.kind = "logical"
  THEN [left EXCEPT !.operands = Append(@, right)]
  ELSE Logical(op, <<left, right>>)

\* _build_logical: a chain of one operator becomes one node, built from a left
\* operand that may have stood in parentheses.
BuildLogical(left, op, right) ==
  IF left.kind = "logical" /\ left.operator = op
  THEN [left EXCEPT !.operands = Append(@, right)]
  ELSE Logical(op, <<left, right>>)

-----------------------------------------------------------------------------
(* Parser.  A method takes the position it starts from and returns a node  *)
(* and the position it leaves.  The methods call each other, but, but for  *)
(* those further down, only at later positions: later[p] has what each of  *)
(* them returns from position p.                                           *)

Failed == [ok |-> FALSE]
Parsed(node, pos) == [ok |-> TRUE, node |-> node, pos |-> pos]

\* What a method does with the result of another one, which may raise.
Then(result, Continue(_, _)) ==
  IF result.ok THEN Continue(result.node, result.pos) ELSE Failed

Peek(ts, pos) == IF pos <= Len(ts) THEN Kind(ts[pos]) ELSE "END"
PeekLogical(ts, pos, op) == pos <= Len(ts) /\ ts[pos] = op

\* consume(expected_type), for a node that is finished by that token.
Consume(ts, expected, node, pos) ==
  IF Peek(ts, pos) = expected THEN Parsed(node, pos + 1) ELSE Failed

\* The argument of an aggregate.
ParseOperand(ts, pos, later) ==
  IF Peek(ts, pos) = "WILDCARD" THEN Parsed(Wildcard, pos + 1)
  ELSE Then(later[pos].atom,
            LAMBDA node, p : IF node.kind = "field" THEN Parsed(node, p) ELSE Failed)

ParseAtom(ts, pos, later) ==
  LET kind == Peek(ts, pos) IN
  CASE kind \in {"NUMBER", "STRING", "BOOL", "IDENTIFIER"} ->
         Parsed(AtomLiteral(ts[pos]), pos + 1)
    [] kind = "FIELD" -> Parsed(FieldNode(ts[pos]), pos + 1)
    [] kind = "AGG_FUNCTION" ->
         IF Peek(ts, pos + 1) # "LPAREN" THEN Failed
         ELSE Then(ParseOperand(ts, pos + 2, later), LAMBDA operand, p :
                Consume(ts, "RPAREN", Aggregate(ts[pos], operand), p))
    [] kind = "LPAREN" ->
         Then(later[pos + 1].expression,
              LAMBDA node, p : Consume(ts, "RPAREN", node, p))
    [] OTHER -> Failed

ParseComparison(ts, pos, later) ==
  Then(ParseAtom(ts, pos, later), LAMBDA left, p :
    IF Peek(ts, p) # "COMP_OP" THEN Parsed(left, p)
    ELSE Then(later[p + 1].atom, LAMBDA right, q :
           Parsed(Comparison(CompOpMap[ts[p]], left, right), q)))

ParseFactor(ts, pos, later) ==
  IF PeekLogical(ts, pos, "NOT")
  THEN Then(later[pos + 1].factor,
            LAMBDA node, p : Parsed(Logical("NOT", <<node>>), p))
  ELSE ParseComparison(ts, pos, later)

\* One round of the loop of parse_logical_term and parse_logical_expression;
\* operand[p] is the operand from position p.
Round(ts, op, operand, r) ==
  Then(r, LAMBDA node, p :
    IF PeekLogical(ts, p, op)
    THEN Then(operand[p + 1], LAMBDA right, q :
           Parsed(BuildLogical(node, op, right), q))
    ELSE Parsed(node, p))

Ended(ts, op, r) == ~ r.ok \/ ~ PeekLogical(ts, r.pos, op)

\* Rounds(...)[n]: what the loop has after n rounds.
Rounds(ts, op, first, operand) ==
  LET after[n \in 0..Len(ts)] ==
        IF n = 0 THEN first ELSE Round(ts, op, operand, after[n - 1])
  IN after

Chain(ts, op, first, operand) ==
  LET after == Rounds(ts, op, first, operand)
  IN after[CHOOSE n \in 0..Len(ts) : Ended(ts, op, after[n])]

ParseTerm(ts, pos, later) ==
  Chain(ts, "AND", ParseFactor(ts, pos, later),
        [p \in DOMAIN later |-> later[p].factor])

ParseExpression(ts, pos, later) ==
  Chain(ts, "OR", ParseTerm(ts, pos, later), [p \in DOMAIN later |-> later[p].term])

Methods(ts, pos, later) ==
  [atom       |-> ParseAtom(ts, pos, later),
   comparison |-> ParseComparison(ts, pos, later),
   factor     |-> ParseFactor(ts, pos, later),
   term       |-> ParseTerm(ts, pos, later),
   expression |-> ParseExpression(ts, pos, later)]

\* After the last token every method raises.
AtEnd == [atom |-> Failed, comparison |-> Failed, factor |-> Failed,
          term |-> Failed, expression |-> Failed]

\* Parser(ts)[p]: the methods from position p, from the last one backwards;
\* from[n] has those of the last n tokens.
Parser(ts) ==
  LET from[n \in 0..Len(ts)] ==
        IF n = 0 THEN [p \in 1..(Len(ts) + 1) |-> AtEnd]
        ELSE LET later == from[n - 1]
                 pos == Len(ts) + 1 - n
             IN [later EXCEPT ![pos] = Methods(ts, pos, later)]
  IN from[Len(ts)]

\* The PATTERN branch of parse_entrypoint.
ParsePattern(ts, parser) ==
  Then(parser[1].atom, LAMBDA left, p :
    IF left.kind # "aggregate" \/ Peek(ts, p) # "COMP_OP" THEN Failed
    ELSE Then(parser[p + 1].atom, LAMBDA right, q :
           IF right.kind # "literal" THEN Failed
           ELSE Parsed(Comparison(CompOpMap[ts[p]], left, right), q)))

\* What the branch of the rule's type returns.
Branch(ts, rule_type) ==
  LET parser == Parser(ts) IN
  CASE rule_type = "THRESHOLD" -> parser[1].comparison
    [] rule_type = "PATTERN"   -> ParsePattern(ts, parser)
    [] rule_type = "COMPOSITE" -> parser[1].expression

\* MUTANT: tokens that remain are not looked at.
ParseEntrypointLoose(ts, rule_type) == Branch(ts, rule_type)

ParseEntrypoint(ts, rule_type) ==
  LET result == Branch(ts, rule_type)
  IN IF result.ok /\ result.pos = Len(ts) + 1 THEN result ELSE Failed

Has(ts, kind) == \E i \in DOMAIN ts : Kind(ts[i]) = kind

\* The checks RuleParser.parse makes on the tokens alone.
Validated(ts, rule_type) ==
  /\ ts # <<>>
  /\ rule_type \in {"THRESHOLD", "PATTERN"} =>
       ~ Has(ts, "LOGIC_OP") /\ Has(ts, "COMP_OP")
  /\ rule_type \in {"THRESHOLD", "COMPOSITE"} => ~ Has(ts, "AGG_FUNCTION")
  /\ rule_type = "PATTERN" => Has(ts, "AGG_FUNCTION")
  /\ rule_type = "COMPOSITE" => Has(ts, "LOGIC_OP")

Parse(ts, rule_type) ==
  IF Validated(ts, rule_type) THEN ParseEntrypoint(ts, rule_type) ELSE Failed

=============================================================================
