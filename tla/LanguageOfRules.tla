-------------------------- MODULE LanguageOfRules ---------------------------
(***************************************************************************)
(* The language of rules as one would describe it to an operator, without  *)
(* a parser: where a text is cut, which texts are well formed, and what    *)
(* they mean on a transaction.  What the panel accepts and what            *)
(* rules_service answers is judged by these definitions; they share no     *)
(* more with the code than the kinds of tokens and the types of fields.    *)
(*                                                                         *)
(* i and j are the first and the last token of a part of text ts.          *)
(***************************************************************************)
EXTENDS ExpressionParser, RuleEvaluation, Integers, FiniteSetsExt

\* How many parentheses are open after tokens i to j.
Depth(ts, i, j) ==
  Cardinality({k \in i..j : ts[k] = "("}) - Cardinality({k \in i..j : ts[k] = ")"})

\* The tokens outside all parentheses.
Outer(ts, i, j, kind) == {k \in i..j : Kind(ts[k]) = kind /\ Depth(ts, i, k) = 0}
OuterOp(ts, i, j, op) == {k \in Outer(ts, i, j, "LOGIC_OP") : ts[k] = op}

InParentheses(ts, i, j) ==
  /\ i + 1 < j /\ ts[i] = "(" /\ ts[j] = ")"
  /\ \A k \in i..(j - 1) : Depth(ts, i, k) > 0

IsAtom(ts, i, j) == i = j \/ InParentheses(ts, i, j)

\* How many pairs of parentheses stand around the whole part, and what is
\* left without them.
Layers(ts, i, j) ==
  CHOOSE n \in 0..(j - i) :
    /\ ~ InParentheses(ts, i + n, j - n)
    /\ \A m \in 0..(n - 1) : InParentheses(ts, i + m, j - m)

First(ts, i, j) == i + Layers(ts, i, j)
Last(ts, i, j) == j - Layers(ts, i, j)

\* The operator that binds least, of several the last one: where the part is
\* cut into what it says.  0 if there is none.
Cut(ts, i, j) ==
  IF OuterOp(ts, i, j, "OR") # {} THEN Max(OuterOp(ts, i, j, "OR"))
  ELSE IF OuterOp(ts, i, j, "AND") # {} THEN Max(OuterOp(ts, i, j, "AND"))
  ELSE IF ts[i] = "NOT" THEN i
  ELSE IF Outer(ts, i, j, "COMP_OP") # {} THEN Max(Outer(ts, i, j, "COMP_OP"))
  ELSE 0

-----------------------------------------------------------------------------
(* Which texts are in the language                                         *)

LiteralKind == {"NUMBER", "STRING", "BOOL", "IDENTIFIER"}

\* The parts of a text, the empty ones too.
Parts(ts) == (1..(Len(ts) + 1)) \X (0..Len(ts))

\* Both sides of a comparison are tokens or in parentheses.
IsWellFormed(ts, i, j, well) ==
  LET k == Cut(ts, i, j) IN
  IF i > j THEN FALSE
  ELSE IF k = 0 THEN
    \/ InParentheses(ts, i, j) /\ well[<<i + 1, j - 1>>]
    \/ i = j /\ Kind(ts[i]) \in LiteralKind \cup {"FIELD"}
  ELSE IF ts[k] = "NOT" THEN well[<<i + 1, j>>]
  ELSE /\ well[<<i, k - 1>>] /\ well[<<k + 1, j>>]
       /\ Kind(ts[k]) = "COMP_OP" => IsAtom(ts, i, k - 1) /\ IsAtom(ts, k + 1, j)

\* WellFormed(ts)[i, j]: the part is a condition or an operand.
WellFormed(ts) ==
  LET well[p \in Parts(ts)] == IsWellFormed(ts, p[1], p[2], well) IN well

\* One token of such a kind, in parentheses or not.
IsToken(ts, i, j, kinds) ==
  i <= j /\ First(ts, i, j) = Last(ts, i, j) /\ Kind(ts[First(ts, i, j)]) \in kinds

\* aggregate ( field ) or aggregate ( * ), in parentheses or not.
IsAggregate(ts, i, j) ==
  LET f == First(ts, i, j)
      l == Last(ts, i, j)
  IN /\ i <= j /\ f + 2 < l
     /\ Kind(ts[f]) = "AGG_FUNCTION" /\ ts[f + 1] = "(" /\ ts[l] = ")"
     /\ \/ f + 2 = l - 1 /\ ts[f + 2] = "*"
        \/ IsToken(ts, f + 2, l - 1, {"FIELD"})

InLanguage(ts, type) ==
  CASE type = "THRESHOLD" ->
         /\ ~ Has(ts, "LOGIC_OP") /\ ~ Has(ts, "AGG_FUNCTION") /\ Has(ts, "COMP_OP")
         /\ WellFormed(ts)[<<1, Len(ts)>>]
    [] type = "COMPOSITE" ->
         /\ Has(ts, "LOGIC_OP") /\ ~ Has(ts, "AGG_FUNCTION")
         /\ WellFormed(ts)[<<1, Len(ts)>>]
    [] type = "PATTERN" ->
         \E k \in Outer(ts, 1, Len(ts), "COMP_OP") :
           IsAggregate(ts, 1, k - 1) /\ IsToken(ts, k + 1, Len(ts), LiteralKind)

-----------------------------------------------------------------------------
(* What they mean                                                          *)

\* The meaning of one token on transaction t.
Sense(t, token) ==
  CASE Kind(token) = "NUMBER"     -> Value("number", Number[token].n)
    [] Kind(token) = "STRING"     -> Value("string", Upper[Quoted[token]])
    [] Kind(token) = "IDENTIFIER" -> Value("string", Lower[token])
    [] Kind(token) = "BOOL"       -> Value("bool", token = "TRUE")
    [] Kind(token) = "FIELD" /\ token \in ProtoField ->
         Value(IF FieldType(token) = "string" THEN "string" ELSE "number", t[token])
    [] OTHER -> NoValue

\* The value of an operand of a comparison.
Operand(t, ts, i, j) ==
  IF First(ts, i, j) = Last(ts, i, j) THEN Sense(t, ts[First(ts, i, j)]) ELSE NoValue

\* The comparison, by the sign that stands in the text.
Holds(l, sign, r) ==
  \/ sign \in {"=", "=="} /\ l = r
  \/ sign = "!=" /\ l # r
  \/ sign = ">" /\ l > r
  \/ sign = "<" /\ l < r
  \/ sign = ">=" /\ l >= r
  \/ sign = "<=" /\ l <= r

Comparable(l, sign, r) ==
  /\ l.type = r.type
  /\ l.type = "number" \/ (l.type \in {"string", "bool"} /\ sign \in {"=", "==", "!="})

Either(X, Y) == {v \in BOOLEAN : \E x \in X, y \in Y : v = (x \/ y)}
Both(X, Y) == {v \in BOOLEAN : \E x \in X, y \in Y : v = (x /\ y)}
Opposite(X) == {v \in BOOLEAN : \E x \in X : v = ~ x}

\* The truth values a part of a text of the language can have on transaction t
\* if a comparison that cannot be made, or an operand that is no condition, has
\* those of unknown.
Values(t, ts, unknown, i, j, values) ==
  LET k == Cut(ts, i, j)
      l == Operand(t, ts, i, k - 1)
      r == Operand(t, ts, k + 1, j)
  IN IF i > j THEN {}
     ELSE IF k = 0 THEN
       IF InParentheses(ts, i, j) THEN values[<<i + 1, j - 1>>]
       ELSE IF Kind(ts[i]) = "BOOL" THEN {ts[i] = "TRUE"} ELSE unknown
     ELSE CASE ts[k] = "OR"  -> Either(values[<<i, k - 1>>], values[<<k + 1, j>>])
            [] ts[k] = "AND" -> Both(values[<<i, k - 1>>], values[<<k + 1, j>>])
            [] ts[k] = "NOT" -> Opposite(values[<<i + 1, j>>])
            [] OTHER -> IF Comparable(l, ts[k], r)
                        THEN {Holds(l.value, ts[k], r.value)} ELSE unknown

\* Meaning(t, ts, unknown)[i, j]: those of the part from i to j.
Meaning(t, ts, unknown) ==
  LET values[p \in Parts(ts)] == Values(t, ts, unknown, p[1], p[2], values) IN values

=============================================================================
