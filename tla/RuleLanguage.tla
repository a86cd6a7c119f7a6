---------------------------- MODULE RuleLanguage ----------------------------
(***************************************************************************)
(* The life of one rule: an operator writes it, the form accepts it or     *)
(* not, the push converts it to protobuf, rules_service evaluates it on    *)
(* transactions.  Composes the panel's parser with the evaluators and      *)
(* compares them with the language as one would describe it.               *)
(***************************************************************************)
EXTENDS LanguageOfRules

CONSTANTS
  RuleType,     \* the forms there are
  Piece,        \* Piece[type]: what the operator may add in that form at a
                \* time, sequences of tokens
  MaxPieces,    \* MaxPieces[type]: bound on the pieces of a text
  Limit,        \* values of max_delta_time and max_count
  Transaction,  \* transactions, functions from ProtoField
  Answer        \* what Postgres would answer, functions from AggFunction, or NoHistory

\* The forms ask for limits of at least 1.
ASSUME LimitAssumption == Limit \subseteq Nat \ {0}

ASSUME PieceAssumption ==
  \A type \in RuleType :
    type \in {"THRESHOLD", "COMPOSITE", "PATTERN"} /\ Piece[type] \subseteq Seq(STRING)

\* A field whose type is a number or an enumeration has a number.
ASSUME TransactionAssumption ==
  \A t \in Transaction : \A f \in ProtoField : FieldType(f) # "string" => t[f] \in Int

VARIABLES
  phase,     \* typing, rejected, stored, refused, pushed, evaluated
  form,      \* the form that is open, a RuleType
  pieces,    \* how many pieces were typed
  typed,     \* the text in the form
  rule,      \* the rule of the database, once there is one
  tx,        \* the transaction it was evaluated on, and
  answer,    \* what Postgres had to say about it
  verdict    \* the outcome

vars == <<phase, form, pieces, typed, rule, tx, answer, verdict>>

NoRule == [rule_type |-> "none"]
NoTransaction == <<>>

Init ==
  /\ phase = "typing"
  /\ form \in RuleType
  /\ pieces = 0
  /\ typed = <<>>
  /\ rule = NoRule
  /\ tx = NoTransaction /\ answer = NoHistory
  /\ verdict = "none"

Write ==
  /\ phase = "typing"
  /\ pieces < MaxPieces[form]
  /\ pieces' = pieces + 1
  /\ \E p \in Piece[form] : typed' = typed \o p
  /\ UNCHANGED <<phase, form, rule, tx, answer, verdict>>

\* ExpressionModelForm.clean and save.
Submit ==
  /\ phase = "typing"
  /\ \E delta \in Limit, count \in Limit :
       LET result == Parse(typed, form) IN
       /\ phase' = IF result.ok THEN "stored" ELSE "rejected"
       /\ rule' = [rule_type |-> form, max_delta_time |-> delta, max_count |-> count,
                   expression |-> IF result.ok THEN result.node ELSE Wildcard]
  /\ UNCHANGED <<form, pieces, typed, tx, answer, verdict>>

\* The operator opens a form again and has to write the text anew.
Reopen ==
  /\ phase \in {"rejected", "refused"}
  /\ phase' = "typing"
  /\ form' \in RuleType
  /\ pieces' = 0
  /\ typed' = <<>>
  /\ rule' = NoRule
  /\ UNCHANGED <<tx, answer, verdict>>

\* json_format.ParseDict: the schema has no TIME, no int64_value, no wildcard,
\* and the tree must not be too deep.
InSchema(e) ==
  CASE e.kind = "field"    -> e.field \in ProtoField
    [] e.kind = "literal"  -> e.type \in DOMAIN LiteralType
    [] e.kind = "wildcard" -> FALSE
    [] OTHER               -> TRUE

ParseDict(e) ==
  /\ Generations(e)[MaxDepth + 1] = {}
  /\ \A n \in 0..MaxDepth : \A x \in Generations(e)[n] : InSchema(x)

\* The rule in profile_iterator: a rule that cannot be converted ends the
\* stream.
Push ==
  /\ phase = "stored"
  /\ phase' = IF ParseDict(rule.expression) THEN "pushed" ELSE "refused"
  /\ UNCHANGED <<form, pieces, typed, rule, tx, answer, verdict>>

\* RuleProcessor applies the rule to a transaction.
Evaluate ==
  /\ phase \in {"pushed", "evaluated"}
  /\ \E t \in Transaction, a \in Answer :
       /\ tx' = t /\ answer' = a
       /\ verdict' = IsFraudTransaction(rule, t, a)
  /\ phase' = "evaluated"
  /\ UNCHANGED <<form, pieces, typed, rule>>

Next == Write \/ Submit \/ Reopen \/ Push \/ Evaluate

Spec == Init /\ [][Next]_vars

-----------------------------------------------------------------------------
(* Properties                                                              *)

\* The form accepts the texts of the language and no others: nothing that
\* remains unread, no parenthesis that does not close, no empty operand
\* (RuleParser.parse and Parser).
AcceptsTheLanguage ==
  /\ phase = "rejected" => ~ InLanguage(typed, form)
  /\ phase = "stored" => InLanguage(typed, form)

\* A verdict is the one the text has when NOT binds before AND before OR, and
\* does not depend on what a comparison that threw would have said; and a rule
\* throws only if something in it cannot be compared or is no condition.  The
\* tree in between merges chains, drops parentheses and is evaluated with a
\* short circuit.
VerdictByPrecedence ==
  phase = "evaluated" /\ form # "PATTERN" =>
    IF verdict = "exception" THEN Meaning(tx, typed, {})[<<1, Len(typed)>>] = {}
    ELSE Meaning(tx, typed, BOOLEAN)[<<1, Len(typed)>>] = {verdict = "true"}

\* What the form has accepted can be pushed.
AcceptedIsPushed == phase # "refused"

\* A pattern rule on a count fires exactly when the history of the account has
\* more transactions than the number in the rule.
PatternSeesHistory ==
  phase = "evaluated" /\ form = "PATTERN" /\ answer # NoHistory =>
    \A n \in DOMAIN Number :
      typed = <<"COUNT", "(", "AMOUNT", ")", ">", n>> =>
        verdict = Outcome(answer["COUNT"] > Number[n].n)

=============================================================================
