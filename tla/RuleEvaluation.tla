--------------------------- MODULE RuleEvaluation ---------------------------
(***************************************************************************)
(* IsFraudTransaction of the threshold, composite and pattern rules of     *)
(* rules_service.  The outcome of a rule is "true", "false" or             *)
(* "exception"; a value is [type, value], of the variant ExpressionValue,  *)
(* or NoValue when an exception was thrown instead.  The trees are those   *)
(* that ParseDict converts.                                                *)
(***************************************************************************)
EXTENDS ExpressionTree

Value(type, value) == [type |-> type, value |-> value]
NoValue == [type |-> "exception"]

Outcome(b) == IF b THEN "true" ELSE "false"

\* The type a field has as a value: the enumerations of the schema are integers.
FieldType(f) ==
  CASE f = "AMOUNT" -> "float"
    [] f \in {"TRANSACTION_TYPE", "DEVICE_USED", "PAYMENT_CHANNEL"} -> "int"
    [] OTHER -> "string"

GetFieldValue(tx, f) == Value(FieldType(f), tx[f])

LiteralType ==
  [t \in {"string_value", "float_value", "int_value", "bool_value"} |->
     CASE t = "string_value" -> "string"
       [] t = "float_value"  -> "float"
       [] t = "int_value"    -> "int"
       [] t = "bool_value"   -> "bool"]

-----------------------------------------------------------------------------
(* ComparisonEvaluator                                                     *)

CompareNumeric(l, r, op) ==
  CASE op = "EQUAL"                 -> l = r
    [] op = "NOT_EQUAL"             -> l # r
    [] op = "GREATER_THAN"          -> l > r
    [] op = "GREATER_THAN_OR_EQUAL" -> l >= r
    [] op = "LESS_THAN"             -> l < r
    [] op = "LESS_THAN_OR_EQUAL"    -> l <= r

IsNumeric(v) == v.type \in {"float", "int"}

\* Numbers compare with each other, strings and booleans only with their like
\* and only for equality; all else throws.
Compare(left, right, op) ==
  CASE IsNumeric(left) /\ IsNumeric(right) ->
         Outcome(CompareNumeric(left.value, right.value, op))
    [] /\ left.type = right.type /\ left.type \in {"string", "bool"}
       /\ op \in {"EQUAL", "NOT_EQUAL"} ->
         Outcome((left.value = right.value) = (op = "EQUAL"))
    [] OTHER -> "exception"

-----------------------------------------------------------------------------
(* Aggregates.  answer[f] is what Postgres answers to a query for f that   *)
(* it accepts; answer = NoHistory, that the service runs without Postgres. *)

NoHistory == <<>>

AggregateField == {"AMOUNT", "MERCHANT_CATEGORY", "LOCATION", "DEVICE_USED",
                   "PAYMENT_CHANNEL", "TRANSACTION_TYPE", "RECEIVER_ACCOUNT",
                   "SENDER_ACCOUNT"}

\* sender_account, and, for a limit that is set, the timestamp and the
\* seconds, and the count.
ParameterCount(rule) ==
  1 + (IF rule.max_delta_time > 0 THEN 2 ELSE 0)
    + (IF rule.max_count > 0 THEN 1 ELSE 0)

\* Postgres refuses ORDER BY times_tamp next to an aggregate without GROUP BY,
\* and to_timestamp, which the window calls with a text parameter, takes no text.
PostgresRefuses(rule) == rule.max_count > 0 \/ rule.max_delta_time > 0

\* ExecuteAggregateQuery turns every failure into 0.
ExecuteAggregateQuery(rule, f, answer) ==
  IF ParameterCount(rule) \notin {1, 3, 4} \/ PostgresRefuses(rule)
  THEN 0 ELSE answer[f]

EvaluateAggregate(rule, agg, answer) ==
  IF \/ answer = NoHistory
     \/ agg.operand.kind = "field" /\ agg.operand.field \notin AggregateField
  THEN NoValue
  ELSE Value(IF agg.function \in {"COUNT", "COUNT_DISTINCT"} THEN "int" ELSE "float",
             ExecuteAggregateQuery(rule, agg.function, answer))

-----------------------------------------------------------------------------
(* The analyzers                                                           *)

EvaluateValue(rule, tx, answer, e) ==
  CASE e.kind = "field"   -> GetFieldValue(tx, e.field)
    [] e.kind = "literal" -> Value(LiteralType[e.type], e.value)
    [] e.kind = "aggregate" /\ rule.rule_type = "PATTERN" ->
         EvaluateAggregate(rule, e, answer)
    [] OTHER -> NoValue

EvaluateComparison(rule, tx, answer, e) ==
  Compare(EvaluateValue(rule, tx, answer, e.left),
          EvaluateValue(rule, tx, answer, e.right), e.operator)

\* The loop of EvaluateAnd and EvaluateOr: the first operand that is not
\* neutral decides, be it an exception.
FirstToDecide(outcomes, neutral) ==
  LET deciding == {i \in DOMAIN outcomes : outcomes[i] # neutral} IN
  IF deciding = {} THEN neutral
  ELSE outcomes[CHOOSE i \in deciding : \A j \in deciding : i <= j]

Negated(outcome) ==
  CASE outcome = "true" -> "false"
    [] outcome = "false" -> "true"
    [] outcome = "exception" -> "exception"

\* below[x]: the outcome of operand x.
EvaluateLogical(e, below) ==
  LET outcomes == [i \in DOMAIN e.operands |-> below[e.operands[i]]]
  IN CASE e.operator = "AND" -> FirstToDecide(outcomes, "true")
       [] e.operator = "OR"  -> FirstToDecide(outcomes, "false")
       [] e.operator = "NOT" -> IF Len(e.operands) = 1 THEN Negated(outcomes[1])
                                ELSE "exception"

EvaluateNode(rule, tx, answer, e, below) ==
  CASE e.kind = "comparison" -> EvaluateComparison(rule, tx, answer, e)
    [] e.kind = "logical"    -> EvaluateLogical(e, below)
    [] e.kind = "literal" /\ e.type = "bool_value" -> Outcome(e.value)
    [] OTHER -> "exception"

\* The recursion of EvaluateExpression, from the leaves up: outcome[n] is that of
\* the nodes that have n generations below them at the most.
EvaluateExpression(rule, tx, answer, e) ==
  LET outcome[n \in 0..MaxDepth] ==
        LET below == IF n = 0 THEN <<>> ELSE outcome[n - 1] IN
        [x \in Generations(e)[MaxDepth - n] |->
           EvaluateNode(rule, tx, answer, x, below)]
  IN outcome[MaxDepth][e]

\* A threshold rule takes a comparison and nothing else.
IsFraudTransaction(rule, tx, answer) ==
  IF rule.rule_type = "THRESHOLD" /\ rule.expression.kind # "comparison"
  THEN "exception"
  ELSE EvaluateExpression(rule, tx, answer, rule.expression)

=============================================================================
