----------------------- MODULE LanguageOfRulesProofs ------------------------
(***************************************************************************)
(* Facts about module LanguageOfRules, for any text: how the parentheses   *)
(* of its parts add up, where a part is cut, and how what a part is and    *)
(* means follows from its pieces.                                          *)
(***************************************************************************)
EXTENDS LanguageOfRules, Induction, FiniteSetTheorems, TLAPS

-----------------------------------------------------------------------------
(* Tokens                                                                  *)

Paren == {"(", ")"}

\* The kinds of the tokens the language has a word for.
LEMMA Kinds ==
  ASSUME NEW t
  PROVE  /\ Kind(t) = "LPAREN" <=> t = "("
         /\ Kind(t) = "RPAREN" <=> t = ")"
         /\ Kind(t) = "WILDCARD" <=> t = "*"
         /\ Kind(t) = "LOGIC_OP" <=> t \in {"AND", "OR", "NOT"}
         /\ Kind(t) = "COMP_OP" <=> t \in {"==", "=", "!=", ">", ">=", "<", "<="}
         /\ Kind(t) = "BOOL" => t \in {"TRUE", "FALSE"}
         /\ Kind(t) = "NUMBER" => t \in DOMAIN Number
         /\ Kind(t) = "FIELD" => t \in Field
<1>1. CASE t \in DOMAIN Number \cup DOMAIN Quoted
  BY <1>1, TokenAssumption DEF Kind, LogicOp, AggFunction, Field, ProtoField, CompOpMap
<1>2. CASE t \notin DOMAIN Number \cup DOMAIN Quoted
  BY <1>2 DEF Kind, LogicOp, AggFunction, Field, ProtoField, CompOpMap
<1> QED
  BY <1>1, <1>2

-----------------------------------------------------------------------------
(* Open parentheses                                                        *)

Count(ts, i, j, w) == Cardinality({k \in i..j : ts[k] = w})
Weight(ts, k) == IF ts[k] = "(" THEN 1 ELSE IF ts[k] = ")" THEN -1 ELSE 0

\* Nothing is open before the first token.
LEMMA DepthOfNothing ==
  ASSUME NEW ts, NEW i \in Int, NEW j \in Int, j < i
  PROVE  Depth(ts, i, j) = 0
<1>1. {k \in i..j : ts[k] = "("} = {} /\ {k \in i..j : ts[k] = ")"} = {}
  OBVIOUS
<1> QED
  BY <1>1, FS_EmptySet DEF Depth

\* One token more.
LEMMA CountOneMore ==
  ASSUME NEW ts, NEW i \in Int, NEW j \in Int, i <= j + 1, NEW w
  PROVE  /\ Count(ts, i, j, w) \in Nat
         /\ Count(ts, i, j + 1, w) = Count(ts, i, j, w) + IF ts[j + 1] = w THEN 1 ELSE 0
<1> DEFINE S == {k \in i..j : ts[k] = w}
           T == {k \in i..(j + 1) : ts[k] = w}
<1>1. IsFiniteSet(S)
  BY FS_Interval, FS_Subset
<1>2. Cardinality(S) \in Nat
  BY <1>1, FS_CardinalityType
<1>3. Count(ts, i, j, w) = Cardinality(S) /\ Count(ts, i, j + 1, w) = Cardinality(T)
  BY DEF Count
<1>4. CASE ts[j + 1] = w
  <2>1. T = S \cup {j + 1} /\ j + 1 \notin S
    BY <1>4
  <2>2. Cardinality(T) = Cardinality(S) + 1
    BY <1>1, <2>1, FS_AddElement
  <2> QED
    BY <1>2, <1>3, <1>4, <2>2
<1>5. CASE ts[j + 1] # w
  <2>1. T = S
    BY <1>5
  <2> HIDE DEF S, T
  <2> QED
    BY <1>2, <1>3, <1>5, <2>1
<1> QED
  BY <1>4, <1>5

\* One token more, for what is open.
LEMMA DepthOneMore ==
  ASSUME NEW ts, NEW i \in Int, NEW j \in Int, i <= j + 1
  PROVE  /\ Depth(ts, i, j) \in Int
         /\ Depth(ts, i, j + 1) = Depth(ts, i, j) + Weight(ts, j + 1)
<1>1. Depth(ts, i, j) = Count(ts, i, j, "(") - Count(ts, i, j, ")")
  BY DEF Depth, Count
<1>2. Depth(ts, i, j + 1) = Count(ts, i, j + 1, "(") - Count(ts, i, j + 1, ")")
  BY DEF Depth, Count
<1> QED
  BY <1>1, <1>2, CountOneMore DEF Weight

\* The parentheses of two parts add up.
LEMMA DepthAdds ==
  ASSUME NEW ts, NEW i \in Int, NEW k \in Int, NEW j \in Int, i <= k + 1, k <= j
  PROVE  /\ Depth(ts, i, k) \in Int /\ Depth(ts, k + 1, j) \in Int
         /\ Depth(ts, i, j) = Depth(ts, i, k) + Depth(ts, k + 1, j)
<1> DEFINE P == {n \in Nat : /\ Depth(ts, k + 1, k + n) \in Int
                             /\ Depth(ts, i, k + n) = Depth(ts, i, k) + Depth(ts, k + 1, k + n)}
<1>1. Depth(ts, i, k) \in Int
  BY DepthOneMore
<1>2. 0 \in P
  <2>1. Depth(ts, k + 1, k) = 0
    BY DepthOfNothing
  <2> QED
    BY <1>1, <2>1
<1>3. ASSUME NEW n \in Nat, n \in P
      PROVE  n + 1 \in P
  <2>1. /\ Depth(ts, i, k + n + 1) = Depth(ts, i, k + n) + Weight(ts, k + n + 1)
        /\ Depth(ts, k + 1, k + n + 1) = Depth(ts, k + 1, k + n) + Weight(ts, k + n + 1)
    <3>1. k + n \in Int /\ i <= k + n + 1 /\ k + 1 <= k + n + 1 /\ k + 1 \in Int
      OBVIOUS
    <3> HIDE DEF P
    <3> QED
      BY <3>1, DepthOneMore
  <2>2. Weight(ts, k + n + 1) \in Int /\ k + (n + 1) = k + n + 1
    BY DEF Weight
  <2> QED
    BY <1>1, <1>3, <2>1, <2>2
<1> HIDE DEF P
<1>4. j - k \in P
  BY <1>2, <1>3, AllNaturals
<1> QED
  BY <1>1, <1>4 DEF P

-----------------------------------------------------------------------------
(* Parts that close what they open                                         *)

Balanced(ts, i, j) ==
  i <= j /\ Depth(ts, i, j) = 0 /\ \A k \in i..j : Depth(ts, i, k) >= 0

\* One token that is no parenthesis.
LEMMA OneToken ==
  ASSUME NEW ts, NEW i \in Int, ts[i] \notin Paren
  PROVE  /\ Depth(ts, i, i) = 0
         /\ Balanced(ts, i, i)
         /\ \A kind, m : m \in Outer(ts, i, i, kind) <=> m = i /\ Kind(ts[i]) = kind
<1>1. Depth(ts, i, i - 1) = 0
  BY DepthOfNothing
<1>2. Depth(ts, i, i) = 0
  <2>1. i - 1 \in Int /\ i <= (i - 1) + 1 /\ (i - 1) + 1 = i
    OBVIOUS
  <2>2. Depth(ts, i, (i - 1) + 1) = Depth(ts, i, i - 1) + Weight(ts, (i - 1) + 1)
    BY <2>1, DepthOneMore
  <2> QED
    BY <1>1, <2>1, <2>2 DEF Weight, Paren
<1>3. \A k : k \in i..i <=> k = i
  OBVIOUS
<1> QED
  BY <1>2, <1>3 DEF Balanced, Outer

\* A balanced part, a token that is no parenthesis and another balanced part.
LEMMA Joined ==
  ASSUME NEW ts, NEW i \in Int, NEW k \in Int, NEW j \in Int, ts[k] \notin Paren,
         Balanced(ts, i, k - 1), Balanced(ts, k + 1, j)
  PROVE  /\ Balanced(ts, i, j)
         /\ k \in i..j /\ Depth(ts, i, k) = 0
         /\ \A kind, m : m \in Outer(ts, i, j, kind) <=>
              \/ m \in Outer(ts, i, k - 1, kind)
              \/ m = k /\ Kind(ts[k]) = kind
              \/ m \in Outer(ts, k + 1, j, kind)
<1>1. i <= k - 1 /\ k + 1 <= j
  BY DEF Balanced
<1>2. Depth(ts, i, k) = 0
  <2>1. k - 1 \in Int /\ i <= (k - 1) + 1 /\ (k - 1) + 1 = k
    BY <1>1
  <2>2. Depth(ts, i, (k - 1) + 1) = Depth(ts, i, k - 1) + Weight(ts, (k - 1) + 1)
    BY <2>1, DepthOneMore
  <2> QED
    BY <2>1, <2>2 DEF Weight, Paren, Balanced
<1>3. ASSUME NEW m \in (k + 1)..j
      PROVE  Depth(ts, i, m) = Depth(ts, k + 1, m)
  <2>1. i <= k + 1 /\ k <= m /\ m \in Int
    BY <1>1
  <2>2. /\ Depth(ts, k + 1, m) \in Int
        /\ Depth(ts, i, m) = Depth(ts, i, k) + Depth(ts, k + 1, m)
    BY <2>1, DepthAdds
  <2> QED
    BY <1>2, <2>2
<1>4. \A m : m \in i..j <=> m \in i..(k - 1) \/ m = k \/ m \in (k + 1)..j
  BY <1>1
<1>5. Balanced(ts, i, j)
  <2>1. j \in (k + 1)..j /\ i <= j
    BY <1>1
  <2>2. Depth(ts, i, j) = 0
    BY <1>3, <2>1 DEF Balanced
  <2> QED
    BY <1>2, <1>3, <1>4, <2>1, <2>2 DEF Balanced
<1>6. ASSUME NEW kind, NEW m
      PROVE  m \in Outer(ts, i, j, kind) <=>
               \/ m \in Outer(ts, i, k - 1, kind)
               \/ m = k /\ Kind(ts[k]) = kind
               \/ m \in Outer(ts, k + 1, j, kind)
  BY <1>2, <1>3, <1>4 DEF Outer
<1> QED
  BY <1>1, <1>2, <1>5, <1>6

\* A token that is no parenthesis in front of a balanced part.
LEMMA Prefixed ==
  ASSUME NEW ts, NEW i \in Int, NEW j \in Int, ts[i] \notin Paren,
         Balanced(ts, i + 1, j)
  PROVE  /\ Balanced(ts, i, j)
         /\ \A kind, m : m \in Outer(ts, i, j, kind) <=>
              (m = i /\ Kind(ts[i]) = kind) \/ m \in Outer(ts, i + 1, j, kind)
<1>1. i + 1 <= j
  BY DEF Balanced
<1>2. Depth(ts, i, i) = 0
  BY OneToken
<1>3. ASSUME NEW m \in (i + 1)..j
      PROVE  Depth(ts, i, m) = Depth(ts, i + 1, m)
  <2>1. i <= i + 1 /\ i <= m /\ m \in Int
    BY <1>1
  <2>2. /\ Depth(ts, i + 1, m) \in Int
        /\ Depth(ts, i, m) = Depth(ts, i, i) + Depth(ts, i + 1, m)
    BY <2>1, DepthAdds
  <2> QED
    BY <1>2, <2>2
<1>4. \A m : m \in i..j <=> m = i \/ m \in (i + 1)..j
  BY <1>1
<1>5. Balanced(ts, i, j)
  <2>1. j \in (i + 1)..j /\ i <= j
    BY <1>1
  <2>2. Depth(ts, i, j) = 0
    BY <1>3, <2>1 DEF Balanced
  <2> QED
    BY <1>2, <1>3, <1>4, <2>1, <2>2 DEF Balanced
<1>6. ASSUME NEW kind, NEW m
      PROVE  m \in Outer(ts, i, j, kind) <=>
               (m = i /\ Kind(ts[i]) = kind) \/ m \in Outer(ts, i + 1, j, kind)
  BY <1>2, <1>3, <1>4 DEF Outer
<1> QED
  BY <1>5, <1>6

\* Between a pair of parentheses no token is outside all of them.
LEMMA InsideOfParentheses ==
  ASSUME NEW ts, NEW i \in Int, NEW j \in Int, InParentheses(ts, i, j),
         NEW kind, kind # "RPAREN"
  PROVE  Outer(ts, i, j, kind) = {}
<1>1. \A m \in i..j : m \in i..(j - 1) \/ m = j
  OBVIOUS
<1>2. Kind(ts[j]) = "RPAREN"
  BY Kinds DEF InParentheses
<1> QED
  BY <1>1, <1>2 DEF InParentheses, Outer

\* Parentheses around a balanced part.
LEMMA Enclosed ==
  ASSUME NEW ts, NEW i \in Int, NEW j \in Int, ts[i] = "(", ts[j] = ")",
         Balanced(ts, i + 1, j - 1)
  PROVE  InParentheses(ts, i, j) /\ Balanced(ts, i, j)
<1>1. i + 1 < j
  BY DEF Balanced
<1>2. Depth(ts, i, i) = 1
  <2>1. Depth(ts, i, i - 1) = 0
    BY DepthOfNothing
  <2>2. i - 1 \in Int /\ i <= (i - 1) + 1 /\ (i - 1) + 1 = i
    OBVIOUS
  <2>3. Depth(ts, i, (i - 1) + 1) = Depth(ts, i, i - 1) + Weight(ts, (i - 1) + 1)
    BY <2>2, DepthOneMore
  <2> QED
    BY <2>1, <2>2, <2>3 DEF Weight
<1>3. ASSUME NEW m \in (i + 1)..(j - 1)
      PROVE  Depth(ts, i, m) >= 1
  <2>1. i <= i + 1 /\ i <= m /\ m \in Int
    BY <1>1
  <2>2. /\ Depth(ts, i + 1, m) \in Int
        /\ Depth(ts, i, m) = Depth(ts, i, i) + Depth(ts, i + 1, m)
    BY <2>1, DepthAdds
  <2>3. Depth(ts, i + 1, m) >= 0
    BY DEF Balanced
  <2> QED
    BY <1>2, <2>2, <2>3
<1>4. Depth(ts, i, j) = 0
  <2>1. /\ i <= i + 1 /\ i <= j - 1 /\ j - 1 \in Int /\ i <= (j - 1) + 1
        /\ (j - 1) + 1 = j
    BY <1>1
  <2>2. Depth(ts, i, j - 1) = Depth(ts, i, i) + Depth(ts, i + 1, j - 1)
    BY <2>1, DepthAdds
  <2>3. Depth(ts, i, (j - 1) + 1) = Depth(ts, i, j - 1) + Weight(ts, (j - 1) + 1)
    BY <2>1, DepthOneMore
  <2>4. Weight(ts, j) = -1
    BY DEF Weight
  <2> QED
    BY <1>2, <2>1, <2>2, <2>3, <2>4 DEF Balanced
<1>5. \A m \in i..(j - 1) : Depth(ts, i, m) >= 1 /\ Depth(ts, i, m) > 0
  <2>1. \A m \in i..(j - 1) : m = i \/ m \in (i + 1)..(j - 1)
    OBVIOUS
  <2>2. ASSUME NEW m \in i..(j - 1)
        PROVE  Depth(ts, i, m) \in Int
    BY DepthOneMore, i <= m + 1, m \in Int
  <2>3. \A m \in i..(j - 1) : Depth(ts, i, m) >= 1
    BY <1>2, <1>3, <2>1
  <2> QED
    BY <2>2, <2>3
<1>6. \A m \in i..j : m \in i..(j - 1) \/ m = j
  OBVIOUS
<1>7. InParentheses(ts, i, j)
  BY <1>1, <1>5 DEF InParentheses
<1>8. Balanced(ts, i, j)
  <2>1. \A m \in i..j : Depth(ts, i, m) >= 0
    <3>1. ASSUME NEW m \in i..j
          PROVE  Depth(ts, i, m) >= 0
      <4>1. Depth(ts, i, m) \in Int
        BY DepthOneMore, i <= m + 1, m \in Int
      <4> QED
        BY <1>4, <1>5, <1>6, <4>1
    <3> QED
      BY <3>1
  <2> QED
    BY <1>1, <1>4, <2>1 DEF Balanced
<1> QED
  BY <1>7, <1>8

-----------------------------------------------------------------------------
(* Pairs of parentheses around a part                                      *)

\* Layers is the number that has its property.
LEMMA LayersIs ==
  ASSUME NEW ts, NEW i \in Int, NEW j \in Int, i <= j
  PROVE  /\ Layers(ts, i, j) \in 0..(j - i)
         /\ ~ InParentheses(ts, i + Layers(ts, i, j), j - Layers(ts, i, j))
         /\ \A m \in 0..(Layers(ts, i, j) - 1) : InParentheses(ts, i + m, j - m)
         /\ \A n \in 0..(j - i) :
              /\ ~ InParentheses(ts, i + n, j - n)
              /\ \A m \in 0..(n - 1) : InParentheses(ts, i + m, j - m)
              => Layers(ts, i, j) = n
<1> DEFINE Around(n) == /\ ~ InParentheses(ts, i + n, j - n)
                        /\ \A m \in 0..(n - 1) : InParentheses(ts, i + m, j - m)
           S == {n \in 0..(j - i) : ~ InParentheses(ts, i + n, j - n)}
<1>1. j - i \in S
  <2>1. j - i \in 0..(j - i) /\ i + (j - i) = j /\ j - (j - i) = i
    OBVIOUS
  <2>2. ~ InParentheses(ts, j, i)
    BY DEF InParentheses
  <2> QED
    BY <2>1, <2>2
<1>2. PICK n \in S : \A k \in S : n <= k
  <2>1. S \in SUBSET Nat /\ S # {}
    BY <1>1
  <2> HIDE DEF S
  <2> QED
    BY <2>1, LeastOfNaturals
<1>3. n \in 0..(j - i) /\ Around(n)
  <2>1. ASSUME NEW m \in 0..(n - 1)
        PROVE  InParentheses(ts, i + m, j - m)
    <3>1. m \in 0..(j - i) /\ ~ (n <= m)
      BY <1>2
    <3> QED
      BY <1>2, <3>1
  <2> QED
    BY <1>2, <2>1
<1>4. Layers(ts, i, j) \in 0..(j - i) /\ Around(Layers(ts, i, j))
  BY <1>3 DEF Layers
<1>5. ASSUME NEW a \in 0..(j - i), NEW b \in 0..(j - i), Around(a), Around(b)
      PROVE  a = b
  <2>1. ~ (a < b)
    <3>1. a < b => a \in 0..(b - 1)
      OBVIOUS
    <3> QED
      BY <1>5, <3>1
  <2>2. ~ (b < a)
    <3>1. b < a => b \in 0..(a - 1)
      OBVIOUS
    <3> QED
      BY <1>5, <3>1
  <2> QED
    BY <2>1, <2>2
<1> QED
  BY <1>4, <1>5

\* Around a part that is not in parentheses there is no layer.
LEMMA NoLayer ==
  ASSUME NEW ts, NEW i \in Int, NEW j \in Int, i <= j, ~ InParentheses(ts, i, j)
  PROVE  First(ts, i, j) = i /\ Last(ts, i, j) = j
<1>1. 0 \in 0..(j - i) /\ i + 0 = i /\ j - 0 = j /\ 0..(0 - 1) = {}
  OBVIOUS
<1>2. Layers(ts, i, j) = 0
  BY <1>1, LayersIs
<1> QED
  BY <1>1, <1>2 DEF First, Last

\* A pair of parentheses is one layer more.
LEMMA LayerUp ==
  ASSUME NEW ts, NEW i \in Int, NEW j \in Int, InParentheses(ts, i, j)
  PROVE  /\ First(ts, i, j) = First(ts, i + 1, j - 1)
         /\ Last(ts, i, j) = Last(ts, i + 1, j - 1)
<1> DEFINE n == Layers(ts, i + 1, j - 1)
<1>1. i + 1 < j
  BY DEF InParentheses
<1>2. /\ i + 1 \in Int /\ j - 1 \in Int /\ i + 1 <= j - 1
      /\ (j - 1) - (i + 1) = (j - i) - 2
  BY <1>1
<1>3. /\ n \in 0..((j - i) - 2)
      /\ ~ InParentheses(ts, (i + 1) + n, (j - 1) - n)
      /\ \A m \in 0..(n - 1) : InParentheses(ts, (i + 1) + m, (j - 1) - m)
  BY <1>2, LayersIs
<1>4. n \in Int /\ n + 1 \in 0..(j - i) /\ i <= j
  BY <1>1, <1>3
<1>5. ~ InParentheses(ts, i + (n + 1), j - (n + 1))
  <2>1. i + (n + 1) = (i + 1) + n /\ j - (n + 1) = (j - 1) - n
    BY <1>4
  <2> QED
    BY <1>3, <2>1
<1>6. ASSUME NEW m \in 0..((n + 1) - 1)
      PROVE  InParentheses(ts, i + m, j - m)
  <2>1. CASE m = 0
    BY <2>1, i + 0 = i, j - 0 = j
  <2>2. CASE m # 0
    <3>1. m - 1 \in 0..(n - 1) /\ (i + 1) + (m - 1) = i + m /\ (j - 1) - (m - 1) = j - m
      BY <1>4, <2>2
    <3> QED
      BY <1>3, <3>1
  <2> QED
    BY <2>1, <2>2
<1> HIDE DEF n
<1>7. Layers(ts, i, j) = n + 1
  BY <1>4, <1>5, <1>6, LayersIs
<1> QED
  BY <1>4, <1>7 DEF First, Last, n

\* What is outside the core of a part is parentheses.
LEMMA TokensOfLayers ==
  ASSUME NEW ts, NEW i \in Int, NEW j \in Int, i <= j, NEW m \in i..j
  PROVE  m \in First(ts, i, j)..Last(ts, i, j) \/ ts[m] \in Paren
<1> DEFINE n == Layers(ts, i, j)
<1>1. n \in 0..(j - i) /\ \A l \in 0..(n - 1) : InParentheses(ts, i + l, j - l)
  BY LayersIs
<1> HIDE DEF n
<1>2. CASE m < i + n
  <2>1. m - i \in 0..(n - 1) /\ i + (m - i) = m
    BY <1>1, <1>2
  <2> QED
    BY <1>1, <2>1 DEF InParentheses, Paren
<1>3. CASE j - n < m
  <2>1. j - m \in 0..(n - 1) /\ j - (j - m) = m
    BY <1>1, <1>3
  <2> QED
    BY <1>1, <2>1 DEF InParentheses, Paren
<1>4. CASE m \in (i + n)..(j - n)
  BY <1>4 DEF First, Last, n
<1> QED
  BY <1>1, <1>2, <1>3, <1>4

\* A token and an aggregate, with and without a pair of parentheses.
LEMMA TokenUp ==
  ASSUME NEW ts, NEW i \in Int, NEW j \in Int, InParentheses(ts, i, j)
  PROVE  /\ \A kinds : IsToken(ts, i, j, kinds) <=> IsToken(ts, i + 1, j - 1, kinds)
         /\ IsAggregate(ts, i, j) <=> IsAggregate(ts, i + 1, j - 1)
<1>1. i <= j /\ i + 1 <= j - 1
  BY DEF InParentheses
<1> QED
  BY <1>1, LayerUp DEF IsToken, IsAggregate

-----------------------------------------------------------------------------
(* Where a part is cut                                                     *)

\* The greatest of some numbers.
LEMMA MaxIs ==
  ASSUME NEW S \in SUBSET Int, NEW k \in S, \A m \in S : m <= k
  PROVE  Max(S) = k
<1>1. \A y \in S : k >= y
  BY S \subseteq Int
<1>2. \A x \in S : (\A y \in S : x >= y) => x = k
  BY S \subseteq Int
<1> QED
  BY <1>1, <1>2, Zenon DEF Max

\* The last token outside all parentheses of kind or text w.
LastOuter(S, k) == k \in S /\ \A m \in S : m <= k

\* The tokens outside all parentheses are tokens of the part.
LEMMA OuterInside ==
  ASSUME NEW ts, NEW i \in Nat, NEW j \in Nat, NEW kind
  PROVE  /\ Outer(ts, i, j, kind) \in SUBSET (i..j)
         /\ Outer(ts, i, j, kind) \in SUBSET (0..j)
         /\ Outer(ts, i, j, kind) \in SUBSET Int
         /\ \A op : OuterOp(ts, i, j, op) \subseteq Outer(ts, i, j, "LOGIC_OP")
<1>1. \A kind2 : Outer(ts, i, j, kind2) \subseteq i..j
  BY DEF Outer
<1>2. i..j \in SUBSET (0..j) /\ i..j \in SUBSET Int
  OBVIOUS
<1>3. \A op : OuterOp(ts, i, j, op) \subseteq Outer(ts, i, j, "LOGIC_OP")
  BY DEF OuterOp
<1> QED
  BY <1>1, <1>2, <1>3

\* Where a part is cut, by the operators it has.
LEMMA CutIs ==
  ASSUME NEW ts, NEW i \in Nat, NEW j \in Nat,
         NEW k, LastOuter(OuterOp(ts, i, j, "OR"), k)
                \/ /\ OuterOp(ts, i, j, "OR") = {}
                   /\ LastOuter(OuterOp(ts, i, j, "AND"), k)
                \/ /\ OuterOp(ts, i, j, "OR") = {} /\ OuterOp(ts, i, j, "AND") = {}
                   /\ ts[i] = "NOT" /\ k = i
                \/ /\ OuterOp(ts, i, j, "OR") = {} /\ OuterOp(ts, i, j, "AND") = {}
                   /\ ts[i] # "NOT"
                   /\ LastOuter(Outer(ts, i, j, "COMP_OP"), k)
                \/ /\ OuterOp(ts, i, j, "OR") = {} /\ OuterOp(ts, i, j, "AND") = {}
                   /\ ts[i] # "NOT" /\ Outer(ts, i, j, "COMP_OP") = {} /\ k = 0
  PROVE  Cut(ts, i, j) = k
<1>1. /\ OuterOp(ts, i, j, "OR") \in SUBSET Int /\ OuterOp(ts, i, j, "AND") \in SUBSET Int
      /\ Outer(ts, i, j, "COMP_OP") \in SUBSET Int
  BY OuterInside
<1>2. \A S \in SUBSET Int : LastOuter(S, k) => S # {} /\ Max(S) = k
  BY MaxIs DEF LastOuter
<1> QED
  BY <1>1, <1>2, Zenon DEF Cut

\* The five ways there are to cut a part.
LEMMA Cuts ==
  ASSUME NEW ts, NEW i \in Nat, NEW j \in Nat, NEW k, k = Cut(ts, i, j)
  PROVE  \/ LastOuter(OuterOp(ts, i, j, "OR"), k)
         \/ /\ OuterOp(ts, i, j, "OR") = {}
            /\ LastOuter(OuterOp(ts, i, j, "AND"), k)
         \/ /\ OuterOp(ts, i, j, "OR") = {} /\ OuterOp(ts, i, j, "AND") = {}
            /\ ts[i] = "NOT" /\ k = i
         \/ /\ OuterOp(ts, i, j, "OR") = {} /\ OuterOp(ts, i, j, "AND") = {}
            /\ ts[i] # "NOT"
            /\ LastOuter(Outer(ts, i, j, "COMP_OP"), k)
         \/ /\ OuterOp(ts, i, j, "OR") = {} /\ OuterOp(ts, i, j, "AND") = {}
            /\ ts[i] # "NOT" /\ Outer(ts, i, j, "COMP_OP") = {} /\ k = 0
<1>1. /\ OuterOp(ts, i, j, "OR") \in SUBSET (0..j) /\ OuterOp(ts, i, j, "AND") \in SUBSET (0..j)
      /\ Outer(ts, i, j, "COMP_OP") \in SUBSET (0..j)
  BY OuterInside
<1>2. \A S \in SUBSET (0..j) : S # {} => LastOuter(S, Max(S))
  <2>1. ASSUME NEW S \in SUBSET (0..j), S # {}
        PROVE  LastOuter(S, Max(S))
    <3>1. Max(S) \in S /\ \A y \in S : Max(S) >= y
      BY <2>1, GreatestUpTo
    <3>2. \A y \in S : y <= Max(S)
      <4>1. Max(S) \in 0..j
        BY <3>1
      <4> QED
        BY <3>1, <4>1
    <3> QED
      BY <3>1, <3>2 DEF LastOuter
  <2> QED
    BY <2>1
<1> QED
  BY <1>1, <1>2, Zenon DEF Cut

\* Parts around OR: the last one is the cut.
LEMMA CutAtOr ==
  ASSUME NEW ts, NEW i \in Nat, NEW k \in Nat, NEW j \in Nat, ts[k] = "OR",
         Balanced(ts, i, k - 1), Balanced(ts, k + 1, j),
         OuterOp(ts, k + 1, j, "OR") = {}
  PROVE  Cut(ts, i, j) = k
<1>1. /\ Kind(ts[k]) = "LOGIC_OP" /\ ts[k] \notin Paren
      /\ i \in Int /\ k \in Int /\ j \in Int
  BY Kinds DEF Paren
<1>2. /\ k \in i..j /\ Depth(ts, i, k) = 0
      /\ \A m : m \in Outer(ts, i, j, "LOGIC_OP") <=>
           \/ m \in Outer(ts, i, k - 1, "LOGIC_OP")
           \/ m = k /\ Kind(ts[k]) = "LOGIC_OP"
           \/ m \in Outer(ts, k + 1, j, "LOGIC_OP")
  BY <1>1, Joined
<1>3. LastOuter(OuterOp(ts, i, j, "OR"), k)
  <2>1. k \in OuterOp(ts, i, j, "OR")
    BY <1>1, <1>2 DEF OuterOp, Outer
  <2>2. ASSUME NEW m \in OuterOp(ts, i, j, "OR")
        PROVE  m <= k
    <3>1. m \notin Outer(ts, k + 1, j, "LOGIC_OP")
      BY DEF OuterOp
    <3>2. m = k \/ m \in Outer(ts, i, k - 1, "LOGIC_OP")
      BY <1>2, <3>1 DEF OuterOp
    <3>3. m \in i..(k - 1) => m <= k
      OBVIOUS
    <3> QED
      BY <3>2, <3>3 DEF Outer
  <2> QED
    BY <2>1, <2>2 DEF LastOuter
<1> QED
  BY <1>3, CutIs

\* Parts without OR around AND: the last one is the cut.
LEMMA CutAtAnd ==
  ASSUME NEW ts, NEW i \in Nat, NEW k \in Nat, NEW j \in Nat, ts[k] = "AND",
         Balanced(ts, i, k - 1), Balanced(ts, k + 1, j),
         OuterOp(ts, i, k - 1, "OR") = {}, OuterOp(ts, k + 1, j, "OR") = {},
         OuterOp(ts, k + 1, j, "AND") = {}
  PROVE  OuterOp(ts, i, j, "OR") = {} /\ Cut(ts, i, j) = k
<1>1. /\ Kind(ts[k]) = "LOGIC_OP" /\ ts[k] \notin Paren
      /\ i \in Int /\ k \in Int /\ j \in Int
  BY Kinds DEF Paren
<1>2. /\ k \in i..j /\ Depth(ts, i, k) = 0
      /\ \A m : m \in Outer(ts, i, j, "LOGIC_OP") <=>
           \/ m \in Outer(ts, i, k - 1, "LOGIC_OP")
           \/ m = k /\ Kind(ts[k]) = "LOGIC_OP"
           \/ m \in Outer(ts, k + 1, j, "LOGIC_OP")
  BY <1>1, Joined
<1>3. OuterOp(ts, i, j, "OR") = {}
  BY <1>2 DEF OuterOp
<1>4. LastOuter(OuterOp(ts, i, j, "AND"), k)
  <2>1. k \in OuterOp(ts, i, j, "AND")
    BY <1>1, <1>2 DEF OuterOp, Outer
  <2>2. ASSUME NEW m \in OuterOp(ts, i, j, "AND")
        PROVE  m <= k
    <3>1. m \notin Outer(ts, k + 1, j, "LOGIC_OP")
      BY DEF OuterOp
    <3>2. m = k \/ m \in Outer(ts, i, k - 1, "LOGIC_OP")
      BY <1>2, <3>1 DEF OuterOp
    <3>3. m \in i..(k - 1) => m <= k
      OBVIOUS
    <3> QED
      BY <3>2, <3>3 DEF Outer
  <2> QED
    BY <2>1, <2>2 DEF LastOuter
<1> QED
  BY <1>3, <1>4, CutIs

\* NOT before a part without AND and OR is the cut.
LEMMA CutAtNot ==
  ASSUME NEW ts, NEW i \in Nat, NEW j \in Nat, ts[i] = "NOT",
         Balanced(ts, i + 1, j), OuterOp(ts, i + 1, j, "OR") = {},
         OuterOp(ts, i + 1, j, "AND") = {}
  PROVE  /\ OuterOp(ts, i, j, "OR") = {} /\ OuterOp(ts, i, j, "AND") = {}
         /\ Cut(ts, i, j) = i
<1>1. ts[i] \notin Paren
  BY DEF Paren
<1>2. \A m : m \in Outer(ts, i, j, "LOGIC_OP") <=>
        (m = i /\ Kind(ts[i]) = "LOGIC_OP") \/ m \in Outer(ts, i + 1, j, "LOGIC_OP")
  BY <1>1, Prefixed
<1>3. OuterOp(ts, i, j, "OR") = {} /\ OuterOp(ts, i, j, "AND") = {}
  BY <1>2 DEF OuterOp
<1> QED
  BY <1>3, CutIs

\* Atoms around a comparison: it is the cut.
LEMMA CutAtComparison ==
  ASSUME NEW ts, NEW i \in Nat, NEW k \in Nat, NEW j \in Nat, Kind(ts[k]) = "COMP_OP",
         Balanced(ts, i, k - 1), Balanced(ts, k + 1, j),
         Outer(ts, i, k - 1, "LOGIC_OP") = {}, Outer(ts, k + 1, j, "LOGIC_OP") = {},
         Outer(ts, i, k - 1, "COMP_OP") = {}, Outer(ts, k + 1, j, "COMP_OP") = {}
  PROVE  /\ Outer(ts, i, j, "LOGIC_OP") = {} /\ Outer(ts, i, j, "COMP_OP") = {k}
         /\ Cut(ts, i, j) = k
<1>1. ts[k] \notin Paren /\ i \in Int /\ k \in Int /\ j \in Int
  BY Kinds DEF Paren
<1>2. /\ k \in i..j /\ Depth(ts, i, k) = 0
      /\ \A kind, m : m \in Outer(ts, i, j, kind) <=>
           \/ m \in Outer(ts, i, k - 1, kind)
           \/ m = k /\ Kind(ts[k]) = kind
           \/ m \in Outer(ts, k + 1, j, kind)
  BY <1>1, Joined
<1>3. Outer(ts, i, j, "LOGIC_OP") = {} /\ Outer(ts, i, j, "COMP_OP") = {k}
  BY <1>2
<1>4. ts[i] # "NOT"
  <2>1. ASSUME ts[i] = "NOT"
        PROVE  FALSE
    <3>1. Kind(ts[i]) = "LOGIC_OP" /\ ts[i] \notin Paren
      BY <2>1, Kinds DEF Paren
    <3>2. Depth(ts, i, i) = 0 /\ i \in i..j
      BY <1>2, <3>1, OneToken
    <3> QED
      BY <1>3, <3>1, <3>2 DEF Outer
  <2> QED
    BY <2>1
<1>5. LastOuter(Outer(ts, i, j, "COMP_OP"), k)
  BY <1>3 DEF LastOuter
<1>6. OuterOp(ts, i, j, "OR") = {} /\ OuterOp(ts, i, j, "AND") = {}
  BY <1>3 DEF OuterOp
<1> QED
  BY <1>3, <1>4, <1>5, <1>6, CutIs

\* A part without operators outside its parentheses is not cut.
LEMMA NotCut ==
  ASSUME NEW ts, NEW i \in Nat, NEW j \in Nat, ts[i] # "NOT",
         Outer(ts, i, j, "LOGIC_OP") = {}, Outer(ts, i, j, "COMP_OP") = {}
  PROVE  Cut(ts, i, j) = 0
<1>1. OuterOp(ts, i, j, "OR") = {} /\ OuterOp(ts, i, j, "AND") = {}
  BY DEF OuterOp
<1> QED
  BY <1>1, CutIs

-----------------------------------------------------------------------------
(* Tables of parts                                                         *)

Width(p) == p[2] - p[1]

\* What F says of a part depends on what a table has for narrower ones.
LooksAtNarrower(ts, T, F) ==
  /\ F \in [Parts(ts) -> [[Parts(ts) -> T] -> T]]
  /\ \A p \in Parts(ts) : \A f, g \in [Parts(ts) -> T] :
       (\A q \in Parts(ts) : Width(q) < Width(p) => f[q] = g[q])
         => F[p][f] = F[p][g]

\* Then there is a table in which every part has what F says of it.
LEMMA TableOfParts ==
  ASSUME NEW ts, Len(ts) \in Nat, NEW T, NEW start \in T, NEW F,
         LooksAtNarrower(ts, T, F)
  PROVE  \E f \in [Parts(ts) -> T] : \A p \in Parts(ts) : f[p] = F[p][f]
<1> DEFINE D == Parts(ts)
           N == Len(ts)
           Size(p) == Width(p) + N + 1
           OneMore == [f \in [D -> T] |-> [p \in D |-> F[p][f]]]
           G == [n \in 1..(2 * N + 2) |-> OneMore]
           none == [p \in D |-> start]
<1> USE DEF LooksAtNarrower
<1>1. \A p \in D : Width(p) \in Int /\ Size(p) \in 0..(2 * N)
  BY DEF Parts, Width
<1>2. OneMore \in [[D -> T] -> [D -> T]]
  OBVIOUS
<1>3. none \in [D -> T] /\ G \in [1..(2 * N + 2) -> [[D -> T] -> [D -> T]]]
  BY <1>2
<1>4. 2 * N + 2 \in Nat
  OBVIOUS
<1>5. PICK g : IsLoop(g, 2 * N + 2, [D -> T], none, G)
  <2> HIDE DEF D, N, OneMore, G, none
  <2> QED
    BY <1>3, <1>4, LoopExists
<1>6. /\ g \in [0..(2 * N + 2) -> [D -> T]]
      /\ \A n \in 1..(2 * N + 2) : \A p \in D : g[n][p] = F[p][g[n - 1]]
  <2>1. g \in [0..(2 * N + 2) -> [D -> T]]
    BY <1>5 DEF IsLoop
  <2>2. ASSUME NEW n \in 1..(2 * N + 2), NEW p \in D
        PROVE  g[n][p] = F[p][g[n - 1]]
    <3>1. n - 1 \in 0..(2 * N + 2)
      OBVIOUS
    <3>4. g[n] = G[n][g[n - 1]]
      <4> HIDE DEF G
      <4> QED
        BY <1>5 DEF IsLoop
    <3>2. g[n - 1] \in [D -> T]
      BY <2>1, <3>1
    <3>3. G[n] = OneMore /\ OneMore[g[n - 1]] = [q \in D |-> F[q][g[n - 1]]]
      BY <3>2
    <3> QED
      BY <3>4, <3>3
  <2> QED
    BY <2>1, <2>2
<1> DEFINE P == {n \in Nat : n <= 2 * N + 1 =>
                   \A p \in D : Size(p) < n => g[n][p] = g[n + 1][p]}
<1>7. 0 \in P
  BY <1>1
<1>8. ASSUME NEW n \in Nat, n \in P
      PROVE  n + 1 \in P
  <2> SUFFICES ASSUME n + 1 <= 2 * N + 1, NEW p \in D, Size(p) < n + 1
               PROVE  g[n + 1][p] = g[(n + 1) + 1][p]
    OBVIOUS
  <2>1. /\ n + 1 \in 1..(2 * N + 2) /\ (n + 1) + 1 \in 1..(2 * N + 2)
        /\ (n + 1) - 1 = n /\ ((n + 1) + 1) - 1 = n + 1 /\ n \in 0..(2 * N + 2)
        /\ n <= 2 * N + 1
    OBVIOUS
  <2>2. g[n] \in [D -> T] /\ g[n + 1] \in [D -> T]
    BY <1>6, <2>1
  <2>3. ASSUME NEW q \in D, Width(q) < Width(p)
        PROVE  g[n][q] = g[n + 1][q]
    <3>1. Size(q) < n
      BY <1>1, <2>3
    <3> QED
      BY <1>8, <2>1, <3>1
  <2>4. F[p][g[n]] = F[p][g[n + 1]]
    BY <2>2, <2>3
  <2>5. g[n + 1][p] = F[p][g[n]]
    BY <1>6, <2>1
  <2>6. g[(n + 1) + 1][p] = F[p][g[n + 1]]
    BY <1>6, <2>1
  <2> QED
    BY <2>4, <2>5, <2>6
<1> HIDE DEF P
<1>9. 2 * N + 1 \in P
  BY <1>7, <1>8, AllNaturals, 2 * N + 1 \in Nat
<1>10. ASSUME NEW p \in D
       PROVE  g[2 * N + 1][p] = F[p][g[2 * N + 1]]
  <2>1. g[2 * N + 1][p] = g[(2 * N + 1) + 1][p]
    BY <1>1, <1>9 DEF P
  <2>2. (2 * N + 1) + 1 \in 1..(2 * N + 2) /\ ((2 * N + 1) + 1) - 1 = 2 * N + 1
    OBVIOUS
  <2>3. g[(2 * N + 1) + 1][p] = F[p][g[2 * N + 1]]
    BY <1>6, <2>2
  <2> QED
    BY <2>1, <2>3
<1>11. g[2 * N + 1] \in [D -> T]
  BY <1>6, 2 * N + 1 \in 0..(2 * N + 2)
<1> QED
  BY <1>10, <1>11

\* The parts a part is made of are narrower.
LEMMA Narrower ==
  ASSUME NEW ts, Len(ts) \in Nat, NEW i \in 1..(Len(ts) + 1), NEW j \in 0..Len(ts), i <= j
  PROVE  /\ \A p \in {<<i + 1, j>>, <<i + 1, j - 1>>} :
              p \in Parts(ts) /\ Width(p) < Width(<<i, j>>)
         /\ Cut(ts, i, j) # 0 =>
              /\ Cut(ts, i, j) \in i..j
              /\ \A p \in {<<i, Cut(ts, i, j) - 1>>, <<Cut(ts, i, j) + 1, j>>} :
                   p \in Parts(ts) /\ Width(p) < Width(<<i, j>>)
<1>1. \A a \in i..(Len(ts) + 1), b \in 0..j :
        <<a, b>> \in Parts(ts) /\ <<a, b>>[1] = a /\ <<a, b>>[2] = b
  BY DEF Parts
<1>2. i \in Nat /\ j \in Nat /\ i \in Int /\ j \in Int
  OBVIOUS
<1>3. ASSUME NEW a \in i..(Len(ts) + 1), NEW b \in 0..j, i < a \/ b < j
      PROVE  <<a, b>> \in Parts(ts) /\ Width(<<a, b>>) < Width(<<i, j>>)
  <2>1. /\ <<a, b>> \in Parts(ts) /\ <<a, b>>[1] = a /\ <<a, b>>[2] = b
        /\ <<i, j>>[1] = i /\ <<i, j>>[2] = j
    BY <1>1
  <2>2. b - a < j - i
    BY <1>3
  <2> QED
    BY <2>1, <2>2 DEF Width
<1>4. /\ i + 1 \in i..(Len(ts) + 1) /\ j \in 0..j /\ j - 1 \in 0..j
      /\ i < i + 1
  BY <1>2
<1>5. ASSUME Cut(ts, i, j) # 0
      PROVE  Cut(ts, i, j) \in i..j
  <2>1. i \in i..j
    BY <1>2
  <2>2. /\ Outer(ts, i, j, "COMP_OP") \subseteq i..j
        /\ OuterOp(ts, i, j, "OR") \subseteq i..j
        /\ OuterOp(ts, i, j, "AND") \subseteq i..j
    BY DEF Outer, OuterOp
  <2>3. \A S : S \subseteq i..j /\ LastOuter(S, Cut(ts, i, j)) => Cut(ts, i, j) \in i..j
    BY DEF LastOuter
  <2>4. \/ LastOuter(OuterOp(ts, i, j, "OR"), Cut(ts, i, j))
        \/ LastOuter(OuterOp(ts, i, j, "AND"), Cut(ts, i, j))
        \/ Cut(ts, i, j) = i
        \/ LastOuter(Outer(ts, i, j, "COMP_OP"), Cut(ts, i, j))
    BY <1>2, <1>5, Cuts
  <2> QED
    BY <2>1, <2>2, <2>3, <2>4
<1>6. ASSUME NEW k \in i..j
      PROVE  /\ i \in i..(Len(ts) + 1) /\ k - 1 \in 0..j /\ k - 1 < j
             /\ k + 1 \in i..(Len(ts) + 1) /\ i < k + 1
  OBVIOUS
<1> QED
  BY <1>3, <1>4, <1>5, <1>6

\* WellFormed is the table it is meant to be.
LEMMA WellFormedIs ==
  ASSUME NEW ts, Len(ts) \in Nat, NEW i \in 1..(Len(ts) + 1), NEW j \in 0..Len(ts)
  PROVE  WellFormed(ts)[<<i, j>>] = IsWellFormed(ts, i, j, WellFormed(ts))
<1> DEFINE D == Parts(ts)
           B(p, w) == IsWellFormed(ts, p[1], p[2], w)
           F == [p \in D |-> [w \in [D -> BOOLEAN] |-> B(p, w)]]
<1>1. \A p \in D : p[1] \in 1..(Len(ts) + 1) /\ p[2] \in 0..Len(ts) /\ p = <<p[1], p[2]>>
  BY DEF Parts
<1>2. ASSUME NEW p \in D, NEW w \in [D -> BOOLEAN]
      PROVE  B(p, w) \in BOOLEAN
  <2>1. \A q \in D : w[q] \in BOOLEAN
    OBVIOUS
  <2>2. CASE p[1] > p[2]
    BY <2>2 DEF IsWellFormed
  <2>3. CASE ~ (p[1] > p[2])
    <3>1. /\ <<p[1] + 1, p[2]>> \in D /\ <<p[1] + 1, p[2] - 1>> \in D
          /\ Cut(ts, p[1], p[2]) # 0 =>
               /\ <<p[1], Cut(ts, p[1], p[2]) - 1>> \in D
               /\ <<Cut(ts, p[1], p[2]) + 1, p[2]>> \in D
      <4>1. p[1] <= p[2]
        BY <1>1, <2>3
      <4> QED
        BY <1>1, <4>1, Narrower
    <3> HIDE DEF D
    <3> QED
      BY <2>1, <3>1, Zenon DEF IsWellFormed
  <2> QED
    BY <2>2, <2>3
<1>3. F \in [D -> [[D -> BOOLEAN] -> BOOLEAN]]
  BY <1>2
<1>4. ASSUME NEW p \in D, NEW f \in [D -> BOOLEAN], NEW g \in [D -> BOOLEAN],
             \A q \in D : Width(q) < Width(p) => f[q] = g[q]
      PROVE  B(p, f) = B(p, g)
  <2>1. CASE p[1] > p[2]
    BY <2>1, Zenon DEF IsWellFormed
  <2>2. CASE ~ (p[1] > p[2])
    <3>1. /\ f[<<p[1] + 1, p[2]>>] = g[<<p[1] + 1, p[2]>>]
          /\ f[<<p[1] + 1, p[2] - 1>>] = g[<<p[1] + 1, p[2] - 1>>]
          /\ Cut(ts, p[1], p[2]) # 0 =>
               /\ f[<<p[1], Cut(ts, p[1], p[2]) - 1>>] = g[<<p[1], Cut(ts, p[1], p[2]) - 1>>]
               /\ f[<<Cut(ts, p[1], p[2]) + 1, p[2]>>] = g[<<Cut(ts, p[1], p[2]) + 1, p[2]>>]
      <4>1. p[1] <= p[2]
        BY <1>1, <2>2
      <4>2. \A q \in D : Width(q) < Width(<<p[1], p[2]>>) => f[q] = g[q]
        BY <1>1, <1>4
      <4> QED
        BY <1>1, <4>1, <4>2, Narrower
    <3> QED
      BY <3>1, Zenon DEF IsWellFormed
  <2> QED
    BY <2>1, <2>2
<1>5. PICK w \in [D -> BOOLEAN] : \A p \in D : w[p] = B(p, w)
  <2>1. \A p \in D : \A f \in [D -> BOOLEAN] : F[p][f] = B(p, f)
    OBVIOUS
  <2> DEFINE T == BOOLEAN
  <2>2. LooksAtNarrower(ts, T, F)
    <3>1. F \in [D -> [[D -> T] -> T]]
      BY <1>3
    <3>2. ASSUME NEW p \in D, NEW f \in [D -> T], NEW g \in [D -> T],
                 \A q \in D : Width(q) < Width(p) => f[q] = g[q]
          PROVE  F[p][f] = F[p][g]
      <4>1. B(p, f) = B(p, g)
        BY <1>4, <3>2, Zenon
      <4> HIDE DEF F, B
      <4> QED
        BY <2>1, <4>1
    <3> HIDE DEF F, B, T
    <3> QED
      BY <3>1, <3>2 DEF LooksAtNarrower
  <2>3. \E start : start \in T
    OBVIOUS
  <2>4. \E w \in [D -> T] : \A p \in D : w[p] = F[p][w]
    <3> HIDE DEF F, B, T
    <3> QED
      BY <2>2, <2>3, TableOfParts
  <2> QED
    BY <2>1, <2>4
<1>6. w = [p \in D |-> B(p, w)]
  BY <1>5
<1>7. WellFormed(ts) = [p \in D |-> B(p, WellFormed(ts))]
  BY <1>6, Zenon DEF WellFormed
<1>8. <<i, j>> \in D /\ <<i, j>>[1] = i /\ <<i, j>>[2] = j
  BY DEF Parts
<1> QED
  BY <1>7, <1>8, Zenon

\* Sets of truth values.
LEMMA TruthSets ==
  /\ \A X, Y : Either(X, Y) \in SUBSET BOOLEAN /\ Both(X, Y) \in SUBSET BOOLEAN
  /\ \A X : Opposite(X) \in SUBSET BOOLEAN
  /\ \A l, sign, r : {Holds(l, sign, r)} \in SUBSET BOOLEAN
  /\ \A w, v : {w = v} \in SUBSET BOOLEAN
  /\ {} \in SUBSET BOOLEAN
<1>1. \A X, Y : Either(X, Y) \in SUBSET BOOLEAN /\ Both(X, Y) \in SUBSET BOOLEAN
  BY DEF Either, Both
<1>2. \A X : Opposite(X) \in SUBSET BOOLEAN
  BY DEF Opposite
<1>3. \A l, sign, r : Holds(l, sign, r) \in BOOLEAN
  BY DEF Holds
<1>4. \A b \in BOOLEAN : {b} \in SUBSET BOOLEAN
  OBVIOUS
<1> QED
  BY <1>1, <1>2, <1>3, <1>4

\* Meaning is the table it is meant to be.
LEMMA MeaningIs ==
  ASSUME NEW t, NEW ts, NEW unknown \in SUBSET BOOLEAN, Len(ts) \in Nat,
         NEW i \in 1..(Len(ts) + 1), NEW j \in 0..Len(ts)
  PROVE  Meaning(t, ts, unknown)[<<i, j>>] =
           Values(t, ts, unknown, i, j, Meaning(t, ts, unknown))
<1> DEFINE D == Parts(ts)
           T == SUBSET BOOLEAN
           B(p, v) == Values(t, ts, unknown, p[1], p[2], v)
           F == [p \in D |-> [v \in [D -> T] |-> B(p, v)]]
<1>1. \A p \in D : p[1] \in 1..(Len(ts) + 1) /\ p[2] \in 0..Len(ts) /\ p = <<p[1], p[2]>>
  BY DEF Parts
<1>2. ASSUME NEW p \in D, NEW v \in [D -> T]
      PROVE  B(p, v) \in T
  <2>1. \A q \in D : v[q] \in T
    OBVIOUS
  <2>2. CASE p[1] > p[2]
    BY <2>2, TruthSets DEF Values
  <2>3. CASE ~ (p[1] > p[2])
    <3>1. <<p[1] + 1, p[2]>> \in D /\ <<p[1] + 1, p[2] - 1>> \in D
      <4>1. p[1] <= p[2]
        BY <1>1, <2>3
      <4> QED
        BY <1>1, <4>1, Narrower
    <3> HIDE DEF D, T
    <3>2. /\ \A X, Y : Either(X, Y) \in T /\ Both(X, Y) \in T
          /\ \A X : Opposite(X) \in T
          /\ \A l, sign, r : {Holds(l, sign, r)} \in T
          /\ \A x, y : {x = y} \in T
          /\ unknown \in T
      BY TruthSets, Zenon DEF T
    <3> QED
      BY <2>1, <2>3, <3>1, <3>2, Zenon DEF Values
  <2> QED
    BY <2>2, <2>3
<1>3. F \in [D -> [[D -> T] -> T]]
  BY <1>2
<1>4. ASSUME NEW p \in D, NEW f \in [D -> T], NEW g \in [D -> T],
             \A q \in D : Width(q) < Width(p) => f[q] = g[q]
      PROVE  B(p, f) = B(p, g)
  <2>1. CASE p[1] > p[2]
    BY <2>1, Zenon DEF Values
  <2>2. CASE ~ (p[1] > p[2])
    <3>1. /\ f[<<p[1] + 1, p[2]>>] = g[<<p[1] + 1, p[2]>>]
          /\ f[<<p[1] + 1, p[2] - 1>>] = g[<<p[1] + 1, p[2] - 1>>]
          /\ Cut(ts, p[1], p[2]) # 0 =>
               /\ f[<<p[1], Cut(ts, p[1], p[2]) - 1>>] = g[<<p[1], Cut(ts, p[1], p[2]) - 1>>]
               /\ f[<<Cut(ts, p[1], p[2]) + 1, p[2]>>] = g[<<Cut(ts, p[1], p[2]) + 1, p[2]>>]
      <4>1. p[1] <= p[2]
        BY <1>1, <2>2
      <4>2. \A q \in D : Width(q) < Width(<<p[1], p[2]>>) => f[q] = g[q]
        BY <1>1, <1>4
      <4> QED
        BY <1>1, <4>1, <4>2, Narrower
    <3>2. CASE Cut(ts, p[1], p[2]) = 0
      BY <3>1, <3>2, Zenon DEF Values
    <3>3. CASE Cut(ts, p[1], p[2]) # 0
      BY <3>1, <3>3, Zenon DEF Values
    <3> QED
      BY <3>2, <3>3
  <2> QED
    BY <2>1, <2>2
<1>5. PICK v \in [D -> T] : \A p \in D : v[p] = B(p, v)
  <2>1. \A p \in D : \A f \in [D -> T] : F[p][f] = B(p, f)
    OBVIOUS
  <2>2. LooksAtNarrower(ts, T, F)
    <3>1. ASSUME NEW p \in D, NEW f \in [D -> T], NEW g \in [D -> T],
                 \A q \in D : Width(q) < Width(p) => f[q] = g[q]
          PROVE  F[p][f] = F[p][g]
      <4>1. B(p, f) = B(p, g)
        BY <1>4, <3>1, Zenon
      <4> HIDE DEF F, B
      <4> QED
        BY <2>1, <4>1
    <3> HIDE DEF F, B, T
    <3> QED
      BY <1>3, <3>1 DEF LooksAtNarrower
  <2>3. {} \in T
    OBVIOUS
  <2>4. \E v \in [D -> T] : \A p \in D : v[p] = F[p][v]
    <3> HIDE DEF F, B, T
    <3> QED
      BY <2>2, <2>3, TableOfParts
  <2> QED
    BY <2>1, <2>4
<1>6. v = [p \in D |-> B(p, v)]
  BY <1>5
<1>7. Meaning(t, ts, unknown) = [p \in D |-> B(p, Meaning(t, ts, unknown))]
  BY <1>6, Zenon DEF Meaning
<1>8. <<i, j>> \in D /\ <<i, j>>[1] = i /\ <<i, j>>[2] = j
  BY DEF Parts
<1>9. Meaning(t, ts, unknown)[<<i, j>>] = B(<<i, j>>, Meaning(t, ts, unknown))
  BY <1>7, <1>8, Zenon
<1> QED
  BY <1>8, <1>9, Zenon

\* How sets of truth values are combined.
LEMMA TruthOf ==
  /\ \A Y : Y # {} => Either({TRUE}, Y) = {TRUE} /\ Both({FALSE}, Y) = {FALSE}
  /\ \A b \in BOOLEAN : /\ Either({FALSE}, {b}) = {b} /\ Both({TRUE}, {b}) = {b}
                        /\ Opposite({b}) = {~ b}
  /\ \A X : Either({}, X) = {} /\ Either(X, {}) = {} /\ Both({}, X) = {} /\ Both(X, {}) = {}
  /\ Opposite({}) = {}
  /\ \A X, Y : X # {} /\ Y # {} => Either(X, Y) # {} /\ Both(X, Y) # {}
  /\ \A X : X # {} => Opposite(X) # {}
<1>1. \A Y : Y # {} => Either({TRUE}, Y) = {TRUE} /\ Both({FALSE}, Y) = {FALSE}
  BY DEF Either, Both
<1>2. \A b \in BOOLEAN : /\ Either({FALSE}, {b}) = {b} /\ Both({TRUE}, {b}) = {b}
                         /\ Opposite({b}) = {~ b}
  BY DEF Either, Both, Opposite
<1>3. \A X : Either({}, X) = {} /\ Either(X, {}) = {} /\ Both({}, X) = {} /\ Both(X, {}) = {}
  BY DEF Either, Both
<1>4. Opposite({}) = {}
  BY DEF Opposite
<1>5. \A X, Y : X # {} /\ Y # {} => Either(X, Y) # {} /\ Both(X, Y) # {}
  <2>1. ASSUME NEW X, NEW Y, NEW x \in X, NEW y \in Y
        PROVE  (x \/ y) \in Either(X, Y) /\ (x /\ y) \in Both(X, Y)
    BY DEF Either, Both
  <2> QED
    BY <2>1
<1>6. \A X : X # {} => Opposite(X) # {}
  <2>1. ASSUME NEW X, NEW x \in X
        PROVE  (~ x) \in Opposite(X)
    BY DEF Opposite
  <2> QED
    BY <2>1
<1> QED
  BY <1>1, <1>2, <1>3, <1>4, <1>5, <1>6

=============================================================================
