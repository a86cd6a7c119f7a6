--------------------------- MODULE MCRuleLanguage ---------------------------
(* Small instances of RuleLanguage for TLC.                                *)
EXTENDS RuleLanguage, TLC

MCNumber ==
  ("5" :> [size |-> "int32", n |-> 5])
  @@ ("3000000000" :> [size |-> "int64", n |-> 30])

MCQuoted == ("'Tokyo'" :> "Tokyo") @@ ("'utilities'" :> "utilities")

\* The texts of the instance, and the identifiers among the tokens.
MCUpper ==
  ("Tokyo" :> "TOKYO") @@ ("utilities" :> "UTILITIES") @@ ("night" :> "NIGHT")
  @@ ("withdrawal" :> "WITHDRAWAL")
MCLower ==
  ("Tokyo" :> "tokyo") @@ ("utilities" :> "utilities") @@ ("night" :> "night")
  @@ ("withdrawal" :> "withdrawal")

One(tokens) == {<<t>> : t \in tokens}

\* Every shape a threshold or a pattern can have.
ThresholdPiece == One({"COUNT", "(", ")", "AMOUNT", ">", "5"})
PatternPiece == ThresholdPiece \cup One({"*"})

\* Conditions that may hold and that throw, and what connects them.
Likely == <<"AMOUNT", ">=", "5">>
CompositePiece ==
  {Likely, <<"(">> \o Likely, <<"TRANSACTION_TYPE", "=", "withdrawal">>}
  \cup One({"AND", "OR", "NOT", "(", ")"})

MCPiece ==
  [type \in RuleType |-> CASE type = "THRESHOLD" -> ThresholdPiece
                           [] type = "COMPOSITE" -> CompositePiece
                           [] type = "PATTERN"   -> PatternPiece]

SixPieces == [type \in RuleType |-> 6]
ThreePieces == [type \in RuleType |-> 3]

\* The form's own example and some more.
MCExamplePiece ==
  [type \in RuleType |->
     {<<"AMOUNT", ">", "5">>, <<"TIME", "=", "night">>, <<"COUNT", "(", "*", ")">>}
     \cup One({"AND", ">", "5", "3000000000", "AMOUNT"})]

Tx(amount, category, location, type) ==
  [f \in ProtoField |->
     CASE f = "AMOUNT" -> amount
       [] f = "MERCHANT_CATEGORY" -> category
       [] f = "LOCATION" -> location
       [] FieldType(f) = "int" -> type
       [] OTHER -> "other"]

MCTransaction == {Tx(5, "utilities", "Tokyo", 0), Tx(4, "UTILITIES", "TOKYO", 1)}

MCAnswer == {[f \in AggFunction |-> n] : n \in {0, 7}} \cup {NoHistory}
MCLimit == {1}

=============================================================================
