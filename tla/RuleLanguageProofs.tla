------------------------- MODULE RuleLanguageProofs -------------------------
(***************************************************************************)
(* The theorems of RuleLanguage: the panel's parser accepts the language   *)
(* of rules, and the evaluators of rules_service give its texts the        *)
(* meaning they have there.  First the table of the parser, then what its  *)
(* results are (soundness), then which texts it takes (completeness), then *)
(* the outcome of the trees, then the state machine.                       *)
(***************************************************************************)
EXTENDS RuleLanguage, LanguageOfRulesProofs

-----------------------------------------------------------------------------
(* The loops of the parser                                                 *)

\* A method that starts at position p has failed, or has taken a token at least.
InRange(ts, r, p) ==
  \/ r = Failed
  \/ r = Parsed(r.node, r.pos) /\ r.pos \in (p + 1)..(Len(ts) + 1)

\* A table whose methods do.
TableInRange(ts, l) ==
  /\ DOMAIN l = 1..(Len(ts) + 1)
  /\ \A p \in 1..(Len(ts) + 1) :
       /\ InRange(ts, l[p].atom, p) /\ InRange(ts, l[p].comparison, p)
       /\ InRange(ts, l[p].factor, p) /\ InRange(ts, l[p].term, p)
       /\ InRange(ts, l[p].expression, p)

OperandsInRange(ts, operand) ==
  \A p \in 1..(Len(ts) + 1) : InRange(ts, operand[p], p)

\* What a result is.
LEMMA Results ==
  /\ ~ Failed.ok
  /\ \A node, pos : /\ Parsed(node, pos).ok
                    /\ Parsed(node, pos).node = node /\ Parsed(node, pos).pos = pos
BY DEF Failed, Parsed

\* The rounds of a loop, one by one.
LEMMA RoundsAre ==
  ASSUME NEW ts, Len(ts) \in Nat, NEW op, NEW first, NEW operand
  PROVE  /\ Rounds(ts, op, first, operand)[0] = first
         /\ \A n \in 1..Len(ts) :
              Rounds(ts, op, first, operand)[n] =
                Round(ts, op, operand, Rounds(ts, op, first, operand)[n - 1])
<1> DEFINE Body(n, f) == IF n = 0 THEN first ELSE Round(ts, op, operand, f[n - 1])
           P == {m \in Nat : \E f : f = [n \in 0..m |-> Body(n, f)]}
<1>1. 0 \in P
  <2>1. [n \in 0..0 |-> first] = [n \in 0..0 |-> Body(n, [k \in 0..0 |-> first])]
    OBVIOUS
  <2> QED
    BY <2>1
<1>2. ASSUME NEW m \in Nat, m \in P
      PROVE  m + 1 \in P
  <2>1. PICK f : f = [n \in 0..m |-> Body(n, f)]
    BY <1>2
  <2> DEFINE g == [n \in 0..(m + 1) |->
                     IF n = m + 1 THEN Round(ts, op, operand, f[m]) ELSE f[n]]
  <2>2. ASSUME NEW n \in 0..(m + 1)
        PROVE  g[n] = Body(n, g)
    <3>1. CASE n = 0
      <4>1. 0 \in 0..m /\ 0 # m + 1
        OBVIOUS
      <4>2. f[0] = first
        BY <2>1, <4>1
      <4> QED
        BY <3>1, <4>1, <4>2
    <3>2. CASE n = m + 1
      <4>1. n # 0 /\ n - 1 = m /\ m \in 0..(m + 1) /\ m # m + 1
        BY <3>2
      <4>2. g[n] = Round(ts, op, operand, f[m]) /\ g[n - 1] = f[m]
        BY <3>2, <4>1
      <4> HIDE DEF g
      <4> QED
        BY <4>1, <4>2
    <3>3. CASE n # 0 /\ n # m + 1
      <4>1. n \in 0..m /\ n - 1 \in 0..m /\ n - 1 \in 0..(m + 1) /\ n - 1 # m + 1
        BY <3>3
      <4>2. g[n] = f[n] /\ g[n - 1] = f[n - 1]
        BY <3>3, <4>1
      <4>3. f[n] = Round(ts, op, operand, f[n - 1])
        BY <2>1, <3>3, <4>1
      <4> HIDE DEF g
      <4> QED
        BY <3>3, <4>2, <4>3
    <3> QED
      BY <3>1, <3>2, <3>3
  <2>3. g = [n \in 0..(m + 1) |-> Body(n, g)]
    <3>1. g = [n \in 0..(m + 1) |-> g[n]]
      OBVIOUS
    <3> HIDE DEF g, Body
    <3> QED
      BY <2>2, <3>1
  <2> HIDE DEF g
  <2> QED
    BY <2>3, m + 1 \in Nat
<1> HIDE DEF P
<1>3. Len(ts) \in P
  BY <1>1, <1>2, AllNaturals
<1>4. PICK f : f = [n \in 0..Len(ts) |-> Body(n, f)]
  BY <1>3 DEF P
<1>5. Rounds(ts, op, first, operand) =
        [n \in 0..Len(ts) |-> Body(n, Rounds(ts, op, first, operand))]
  BY <1>4, Zenon DEF Rounds
<1>6. \A n \in 0..Len(ts) :
        Rounds(ts, op, first, operand)[n] = Body(n, Rounds(ts, op, first, operand))
  BY <1>5, Zenon
<1> HIDE DEF Body
<1>7. 0 \in 0..Len(ts) /\ \A n \in 1..Len(ts) : n \in 0..Len(ts) /\ n # 0
  OBVIOUS
<1> QED
  BY <1>6, <1>7, Zenon DEF Body

\* What one round does.
LEMMA RoundIs ==
  ASSUME NEW ts, NEW op, NEW operand, NEW r
  PROVE  /\ ~ r.ok => Round(ts, op, operand, r) = Failed
         /\ r.ok /\ ~ PeekLogical(ts, r.pos, op) =>
              Round(ts, op, operand, r) = Parsed(r.node, r.pos)
         /\ r.ok /\ PeekLogical(ts, r.pos, op) /\ ~ operand[r.pos + 1].ok =>
              Round(ts, op, operand, r) = Failed
         /\ r.ok /\ PeekLogical(ts, r.pos, op) /\ operand[r.pos + 1].ok =>
              Round(ts, op, operand, r) =
                Parsed(BuildLogical(r.node, op, operand[r.pos + 1].node),
                       operand[r.pos + 1].pos)
BY Zenon DEF Round, Then

\* A round keeps a result in range, and takes tokens if the loop has not ended.
LEMMA RoundInRange ==
  ASSUME NEW ts, Len(ts) \in Nat, NEW op, NEW operand, OperandsInRange(ts, operand),
         NEW p \in Nat, NEW r, InRange(ts, r, p)
  PROVE  /\ InRange(ts, Round(ts, op, operand, r), p)
         /\ Ended(ts, op, r) => Round(ts, op, operand, r) = r
         /\ ~ Ended(ts, op, r) /\ Round(ts, op, operand, r).ok =>
              Round(ts, op, operand, r).pos > r.pos
<1>1. CASE ~ r.ok
  <2>1. r = Failed /\ Round(ts, op, operand, r) = Failed
    BY <1>1, RoundIs, Results DEF InRange
  <2> QED
    BY <1>1, <2>1, Zenon DEF InRange, Ended
<1>2. CASE r.ok /\ ~ PeekLogical(ts, r.pos, op)
  <2>1. r = Parsed(r.node, r.pos)
    BY <1>2, Results DEF InRange
  <2>2. Round(ts, op, operand, r) = Parsed(r.node, r.pos)
    BY <1>2, RoundIs
  <2>3. Round(ts, op, operand, r) = r
    BY <2>1, <2>2
  <2> QED
    BY <1>2, <2>3 DEF Ended
<1>3. CASE r.ok /\ PeekLogical(ts, r.pos, op)
  <2> DEFINE s == operand[r.pos + 1]
  <2>1. r.pos \in (p + 1)..(Len(ts) + 1) /\ r.pos <= Len(ts)
    BY <1>3, Results DEF InRange, PeekLogical
  <2>2. r.pos + 1 \in 1..(Len(ts) + 1)
    BY <2>1
  <2>3. InRange(ts, s, r.pos + 1)
    BY <2>2 DEF OperandsInRange
  <2> HIDE DEF s
  <2>4. CASE ~ s.ok
    <3>1. Round(ts, op, operand, r) = Failed
      BY <1>3, <2>4, RoundIs DEF s
    <3> QED
      BY <1>3, <3>1, Results DEF InRange, Ended
  <2>5. CASE s.ok
    <3>1. Round(ts, op, operand, r) = Parsed(BuildLogical(r.node, op, s.node), s.pos)
      BY <1>3, <2>5, RoundIs DEF s
    <3>2. s.pos \in ((r.pos + 1) + 1)..(Len(ts) + 1)
      BY <2>3, <2>5, Results DEF InRange
    <3>3. s.pos \in (p + 1)..(Len(ts) + 1) /\ s.pos > r.pos
      BY <2>1, <3>2
    <3>4. /\ Round(ts, op, operand, r).pos = s.pos
          /\ Round(ts, op, operand, r).node = BuildLogical(r.node, op, s.node)
      BY <3>1, Results
    <3> QED
      BY <1>3, <3>1, <3>3, <3>4 DEF InRange, Ended
  <2> QED
    BY <2>4, <2>5
<1> QED
  BY <1>1, <1>2, <1>3

\* A loop from position p that has after[n] after n rounds, and returns result:
\* it ends, and result is what it has after any round from that on.
LoopEnds(ts, p, op, after, result) ==
  /\ \A n \in 0..Len(ts) : InRange(ts, after[n], p)
  /\ \A n \in 0..Len(ts) : ~ Ended(ts, op, after[n]) => after[n].pos >= p + 1 + n
  /\ \E n \in 0..Len(ts) : Ended(ts, op, after[n]) /\ result = after[n]
  /\ \A n \in 0..Len(ts) : Ended(ts, op, after[n]) => result = after[n]
  /\ InRange(ts, result, p)

\* The loops of the parser do.
LEMMA ChainIs ==
  ASSUME NEW ts, Len(ts) \in Nat, NEW op, NEW first, NEW operand,
         NEW p \in 1..(Len(ts) + 1), InRange(ts, first, p), OperandsInRange(ts, operand)
  PROVE  LoopEnds(ts, p, op, Rounds(ts, op, first, operand),
                  Chain(ts, op, first, operand))
<1> DEFINE after == Rounds(ts, op, first, operand)
<1> DEFINE N == Len(ts)
           E(n) == Ended(ts, op, after[n])
<1>1. after[0] = first /\ \A n \in 1..N : after[n] = Round(ts, op, operand, after[n - 1])
  BY RoundsAre
<1> HIDE DEF N, after
<1>2. N \in Nat /\ p \in Nat /\ N = Len(ts)
  BY DEF N
<1> DEFINE Q == {n \in Nat : n <= N => /\ InRange(ts, after[n], p)
                                       /\ ~ E(n) => after[n].pos >= p + 1 + n}
<1>3. 0 \in Q
  <2>1. ~ E(0) => first.pos >= p + 1 + 0
    <3>1. ~ E(0) => first.ok
      BY <1>1 DEF Ended
    <3>2. first.ok => first.pos \in (p + 1)..(N + 1)
      BY <1>2, Results DEF InRange
    <3> QED
      BY <1>2, <3>1, <3>2
  <2> QED
    BY <1>1, <2>1
<1>4. ASSUME NEW n \in Nat, n \in Q
      PROVE  n + 1 \in Q
  <2> SUFFICES ASSUME n + 1 <= N
               PROVE  /\ InRange(ts, after[n + 1], p)
                      /\ ~ E(n + 1) => after[n + 1].pos >= p + 1 + (n + 1)
    OBVIOUS
  <2>1. n <= N /\ n + 1 \in 1..N /\ (n + 1) - 1 = n
    BY <1>2
  <2>2. after[n + 1] = Round(ts, op, operand, after[n])
    BY <1>1, <2>1
  <2>3. InRange(ts, after[n], p)
    BY <1>4, <2>1
  <2>4. /\ InRange(ts, after[n + 1], p)
        /\ E(n) => after[n + 1] = after[n]
        /\ ~ E(n) /\ after[n + 1].ok => after[n + 1].pos > after[n].pos
    <3>1. /\ InRange(ts, Round(ts, op, operand, after[n]), p)
          /\ Ended(ts, op, after[n]) => Round(ts, op, operand, after[n]) = after[n]
          /\ ~ Ended(ts, op, after[n]) /\ Round(ts, op, operand, after[n]).ok =>
               Round(ts, op, operand, after[n]).pos > after[n].pos
      BY <1>2, <2>3, RoundInRange
    <3> QED
      BY <2>2, <3>1
  <2>5. ASSUME ~ E(n + 1)
        PROVE  after[n + 1].pos >= p + 1 + (n + 1)
    <3>1. after[n + 1].ok /\ ~ E(n)
      BY <2>4, <2>5 DEF Ended
    <3>2. after[n + 1].pos > after[n].pos /\ after[n].pos >= p + 1 + n
      BY <1>4, <2>1, <2>4, <3>1
    <3>3. after[n + 1].pos \in Int /\ after[n].pos \in Int
      <4>1. after[n].ok
        BY <3>1 DEF Ended
      <4> QED
        BY <1>2, <2>3, <2>4, <3>1, <4>1, Results DEF InRange
    <3> QED
      BY <1>2, <3>2, <3>3
  <2> QED
    BY <2>4, <2>5
<1>5. \A n \in Nat : n \in Q
  <2> HIDE DEF Q
  <2> QED
    BY <1>3, <1>4, AllNaturals
<1>6. \A n \in 0..N : InRange(ts, after[n], p) /\ (~ E(n) => after[n].pos >= p + 1 + n)
  BY <1>5
<1>7. E(N)
  <2>1. SUFFICES ASSUME ~ E(N)
                 PROVE  FALSE
    OBVIOUS
  <2>2. N \in 0..N
    BY <1>2
  <2>3. after[N].pos >= p + 1 + N /\ after[N].ok /\ PeekLogical(ts, after[N].pos, op)
    BY <1>6, <2>1, <2>2 DEF Ended
  <2>4. after[N].pos \in Int /\ after[N].pos <= N
    BY <1>2, <1>6, <2>2, <2>3, Results DEF InRange, PeekLogical
  <2> QED
    BY <1>2, <2>3, <2>4
<1>8. \A n \in 0..N : E(n) => \A m \in Nat : n + m <= N => after[n + m] = after[n]
  <2> SUFFICES ASSUME NEW n \in 0..N, E(n)
               PROVE  \A m \in Nat : n + m <= N => after[n + m] = after[n]
    OBVIOUS
  <2> DEFINE R == {m \in Nat : n + m <= N => after[n + m] = after[n]}
  <2>1. 0 \in R
    BY n + 0 = n
  <2>2. ASSUME NEW m \in Nat, m \in R
        PROVE  m + 1 \in R
    <3> SUFFICES ASSUME n + (m + 1) <= N
                 PROVE  after[n + (m + 1)] = after[n]
      OBVIOUS
    <3>1. /\ n + m <= N /\ n + (m + 1) \in 1..N /\ (n + (m + 1)) - 1 = n + m
          /\ n + m \in 0..N
      BY <1>2
    <3>2. after[n + m] = after[n]
      BY <2>2, <3>1
    <3>3. after[n + (m + 1)] = Round(ts, op, operand, after[n])
      BY <1>1, <3>1, <3>2
    <3> QED
      BY <1>2, <1>6, <3>3, RoundInRange
  <2>3. \A m \in Nat : m \in R
    <3> HIDE DEF R
    <3> QED
      BY <2>1, <2>2, AllNaturals
  <2> QED
    BY <2>3
<1>9. \A n \in 0..N, m \in 0..N : E(n) /\ E(m) => after[n] = after[m]
  <2> SUFFICES ASSUME NEW n \in 0..N, NEW m \in 0..N, E(n), E(m)
               PROVE  after[n] = after[m]
    OBVIOUS
  <2>1. CASE n <= m
    <3>1. m - n \in Nat /\ n + (m - n) = m /\ m <= N
      BY <1>2, <2>1
    <3> QED
      BY <1>8, <3>1
  <2>2. CASE m <= n
    <3>1. n - m \in Nat /\ m + (n - m) = n /\ n <= N
      BY <1>2, <2>2
    <3> QED
      BY <1>8, <3>1
  <2> QED
    BY <1>2, <2>1, <2>2
<1> DEFINE c == CHOOSE n \in 0..N : E(n)
<1>10. c \in 0..N /\ E(c)
  BY <1>2, <1>7, N \in 0..N
<1>11. Chain(ts, op, first, operand) = after[c]
  BY <1>2, Zenon DEF Chain, after
<1> HIDE DEF c
<1>12. LoopEnds(ts, p, op, after, Chain(ts, op, first, operand))
  BY <1>2, <1>6, <1>9, <1>10, <1>11 DEF LoopEnds
<1> QED
  BY <1>12 DEF after

\* A loop looks at operands further down only.
LEMMA ChainLooksAhead ==
  ASSUME NEW ts, Len(ts) \in Nat, NEW op, NEW first, NEW f, NEW g,
         NEW p \in 1..(Len(ts) + 1), InRange(ts, first, p),
         OperandsInRange(ts, f), OperandsInRange(ts, g),
         \A q \in (p + 1)..(Len(ts) + 1) : f[q] = g[q]
  PROVE  Chain(ts, op, first, f) = Chain(ts, op, first, g)
<1> DEFINE a == Rounds(ts, op, first, f)
           b == Rounds(ts, op, first, g)
<1>1. /\ a[0] = first /\ b[0] = first
      /\ \A n \in 1..Len(ts) : a[n] = Round(ts, op, f, a[n - 1])
      /\ \A n \in 1..Len(ts) : b[n] = Round(ts, op, g, b[n - 1])
  BY RoundsAre
<1>9. a = Rounds(ts, op, first, f) /\ b = Rounds(ts, op, first, g)
  OBVIOUS
<1> HIDE DEF a, b
<1>2. /\ \A n \in 0..Len(ts) : InRange(ts, a[n], p)
      /\ \E n \in 0..Len(ts) : Ended(ts, op, a[n]) /\ Chain(ts, op, first, f) = a[n]
  <2>1. LoopEnds(ts, p, op, a, Chain(ts, op, first, f))
    BY <1>9, ChainIs
  <2> QED
    BY <2>1 DEF LoopEnds
<1>3. \A n \in 0..Len(ts) : Ended(ts, op, b[n]) => Chain(ts, op, first, g) = b[n]
  <2>1. LoopEnds(ts, p, op, b, Chain(ts, op, first, g))
    BY <1>9, ChainIs
  <2> QED
    BY <2>1 DEF LoopEnds
<1>4. ASSUME NEW r, InRange(ts, r, p)
      PROVE  Round(ts, op, f, r) = Round(ts, op, g, r)
  <2>1. CASE ~ r.ok \/ ~ PeekLogical(ts, r.pos, op)
    <3>1. CASE ~ r.ok
      BY <3>1, RoundIs
    <3>2. CASE r.ok /\ ~ PeekLogical(ts, r.pos, op)
      BY <3>2, RoundIs
    <3> QED
      BY <2>1, <3>1, <3>2
  <2>2. CASE r.ok /\ PeekLogical(ts, r.pos, op)
    <3>1. r.pos \in (p + 1)..(Len(ts) + 1) /\ r.pos <= Len(ts)
      BY <1>4, <2>2, Results DEF InRange, PeekLogical
    <3>2. r.pos + 1 \in (p + 1)..(Len(ts) + 1)
      BY <3>1
    <3>3. f[r.pos + 1] = g[r.pos + 1]
      BY <3>2
    <3>4. CASE ~ f[r.pos + 1].ok
      BY <2>2, <3>3, <3>4, RoundIs
    <3>5. CASE f[r.pos + 1].ok
      BY <2>2, <3>3, <3>5, RoundIs
    <3> QED
      BY <3>4, <3>5
  <2> QED
    BY <2>1, <2>2
<1> DEFINE P == {n \in Nat : n <= Len(ts) => a[n] = b[n]}
<1>5. 0 \in P
  BY <1>1
<1>6. ASSUME NEW n \in Nat, n \in P
      PROVE  n + 1 \in P
  <2> SUFFICES ASSUME n + 1 <= Len(ts)
               PROVE  a[n + 1] = b[n + 1]
    OBVIOUS
  <2>1. n \in 0..Len(ts) /\ n + 1 \in 1..Len(ts) /\ (n + 1) - 1 = n
    OBVIOUS
  <2>2. a[n] = b[n]
    BY <1>6, <2>1
  <2>3. a[n + 1] = Round(ts, op, f, a[n]) /\ b[n + 1] = Round(ts, op, g, a[n])
    BY <1>1, <2>1, <2>2
  <2> QED
    BY <1>2, <1>4, <2>1, <2>3
<1> HIDE DEF P
<1>7. \A n \in Nat : n \in P
  BY <1>5, <1>6, AllNaturals
<1>8. \A n \in 0..Len(ts) : a[n] = b[n]
  BY <1>7 DEF P
<1> QED
  BY <1>2, <1>3, <1>8

-----------------------------------------------------------------------------
(* The methods of the parser                                               *)

\* What a table has for the operands of the loops.
FactorsOf(later) == [p \in DOMAIN later |-> later[p].factor]
TermsOf(later) == [p \in DOMAIN later |-> later[p].term]

\* The operands of a table whose methods keep in range do.
LEMMA OperandsOfTable ==
  ASSUME NEW ts, NEW l, TableInRange(ts, l)
  PROVE  OperandsInRange(ts, FactorsOf(l)) /\ OperandsInRange(ts, TermsOf(l))
BY DEF TableInRange, OperandsInRange, FactorsOf, TermsOf

\* r is what the method returns at position p, with table l.
OperandCases(ts, p, l, r) ==
  \/ Peek(ts, p) = "WILDCARD" /\ r = Parsed(Wildcard, p + 1)
  \/ /\ Peek(ts, p) # "WILDCARD" /\ l[p].atom.ok /\ l[p].atom.node.kind = "field"
     /\ r = Parsed(l[p].atom.node, l[p].atom.pos)
  \/ /\ Peek(ts, p) # "WILDCARD" /\ ~ (l[p].atom.ok /\ l[p].atom.node.kind = "field")
     /\ r = Failed

\* o is the argument of an aggregate, x what is in parentheses.
AtomCases(ts, p, o, x, r) ==
  \/ Peek(ts, p) \in LiteralKind /\ r = Parsed(AtomLiteral(ts[p]), p + 1)
  \/ Peek(ts, p) = "FIELD" /\ r = Parsed(FieldNode(ts[p]), p + 1)
  \/ /\ Peek(ts, p) = "AGG_FUNCTION" /\ Peek(ts, p + 1) = "LPAREN"
     /\ o.ok /\ Peek(ts, o.pos) = "RPAREN"
     /\ r = Parsed(Aggregate(ts[p], o.node), o.pos + 1)
  \/ /\ Peek(ts, p) = "AGG_FUNCTION"
     /\ ~ (Peek(ts, p + 1) = "LPAREN" /\ o.ok /\ Peek(ts, o.pos) = "RPAREN")
     /\ r = Failed
  \/ /\ Peek(ts, p) = "LPAREN" /\ x.ok /\ Peek(ts, x.pos) = "RPAREN"
     /\ r = Parsed(x.node, x.pos + 1)
  \/ Peek(ts, p) = "LPAREN" /\ ~ (x.ok /\ Peek(ts, x.pos) = "RPAREN") /\ r = Failed
  \/ /\ Peek(ts, p) \notin LiteralKind \cup {"FIELD", "AGG_FUNCTION", "LPAREN"}
     /\ r = Failed

\* left and right are the operands of the comparison.
ComparisonCases(ts, left, right, r) ==
  \/ ~ left.ok /\ r = Failed
  \/ left.ok /\ Peek(ts, left.pos) # "COMP_OP" /\ r = Parsed(left.node, left.pos)
  \/ /\ left.ok /\ Peek(ts, left.pos) = "COMP_OP" /\ right.ok
     /\ r = Parsed(Comparison(CompOpMap[ts[left.pos]], left.node, right.node), right.pos)
  \/ left.ok /\ Peek(ts, left.pos) = "COMP_OP" /\ ~ right.ok /\ r = Failed

\* x is the factor behind NOT.
FactorCases(ts, p, x, comparison, r) ==
  \/ /\ PeekLogical(ts, p, "NOT") /\ x.ok
     /\ r = Parsed(Logical("NOT", <<x.node>>), x.pos)
  \/ PeekLogical(ts, p, "NOT") /\ ~ x.ok /\ r = Failed
  \/ ~ PeekLogical(ts, p, "NOT") /\ r = comparison

\* The argument of an aggregate (parse_atom).
LEMMA OperandIs ==
  ASSUME NEW ts, NEW p, NEW l
  PROVE  OperandCases(ts, p, l, ParseOperand(ts, p, l))
BY Zenon DEF ParseOperand, Then, OperandCases

\* An atom (parse_atom).
LEMMA AtomIs ==
  ASSUME NEW ts, NEW p, NEW l
  PROVE  AtomCases(ts, p, ParseOperand(ts, p + 2, l), l[p + 1].expression,
                   ParseAtom(ts, p, l))
<1>1. CASE Peek(ts, p) \in LiteralKind
  BY <1>1 DEF AtomCases, ParseAtom, LiteralKind, Then, Consume
<1>2. CASE Peek(ts, p) = "FIELD"
  BY <1>2 DEF AtomCases, ParseAtom, Then, Consume
<1>3. CASE Peek(ts, p) = "AGG_FUNCTION"
  BY <1>3 DEF AtomCases, ParseAtom, Then, Consume
<1>4. CASE Peek(ts, p) = "LPAREN"
  BY <1>4 DEF AtomCases, ParseAtom, Then, Consume
<1>5. CASE Peek(ts, p) \notin LiteralKind \cup {"FIELD", "AGG_FUNCTION", "LPAREN"}
  BY <1>5 DEF AtomCases, ParseAtom, LiteralKind, Then, Consume
<1> QED
  BY <1>1, <1>2, <1>3, <1>4, <1>5

\* A comparison (parse_comparison).
LEMMA ComparisonIs ==
  ASSUME NEW ts, NEW p, NEW l
  PROVE  ComparisonCases(ts, ParseAtom(ts, p, l), l[ParseAtom(ts, p, l).pos + 1].atom,
                         ParseComparison(ts, p, l))
BY Zenon DEF ParseComparison, Then, ComparisonCases

\* A factor (parse_logical_factor).
LEMMA FactorIs ==
  ASSUME NEW ts, NEW p, NEW l
  PROVE  FactorCases(ts, p, l[p + 1].factor, ParseComparison(ts, p, l),
                     ParseFactor(ts, p, l))
BY Zenon DEF ParseFactor, Then, FactorCases

\* Where there is a token.
LEMMA Peeks ==
  ASSUME NEW ts, NEW p, Peek(ts, p) # "END"
  PROVE  p <= Len(ts) /\ Peek(ts, p) = Kind(ts[p])
BY DEF Peek

\* The methods keep in range.
LEMMA MethodsInRange ==
  ASSUME NEW ts, Len(ts) \in Nat, NEW l, TableInRange(ts, l), NEW p \in 1..Len(ts)
  PROVE  /\ InRange(ts, ParseAtom(ts, p, l), p)
         /\ InRange(ts, ParseComparison(ts, p, l), p)
         /\ InRange(ts, ParseFactor(ts, p, l), p)
         /\ InRange(ts, ParseTerm(ts, p, l), p)
         /\ InRange(ts, ParseExpression(ts, p, l), p)
<1>1. /\ \A q \in 1..(Len(ts) + 1) :
           /\ InRange(ts, l[q].atom, q) /\ InRange(ts, l[q].factor, q)
           /\ InRange(ts, l[q].expression, q)
      /\ p + 1 \in 1..(Len(ts) + 1) /\ p + 1 \in (p + 1)..(Len(ts) + 1)
  BY DEF TableInRange
<1>2. \A node, q : q \in (p + 1)..(Len(ts) + 1) => InRange(ts, Parsed(node, q), p)
  BY Results DEF InRange
<1>3. InRange(ts, Failed, p)
  BY DEF InRange
<1>4. \A q, r : InRange(ts, r, q) /\ r.ok => r.pos \in (q + 1)..(Len(ts) + 1)
  BY Results DEF InRange
<1>5. InRange(ts, ParseAtom(ts, p, l), p)
  <2> DEFINE r == ParseAtom(ts, p, l)
             o == ParseOperand(ts, p + 2, l)
             x == l[p + 1].expression
  <2>1. ASSUME Peek(ts, p + 1) = "LPAREN", o.ok, Peek(ts, o.pos) = "RPAREN"
        PROVE  o.pos + 1 \in (p + 1)..(Len(ts) + 1)
    <3>1. p + 1 <= Len(ts) /\ o.pos <= Len(ts)
      BY <2>1, Peeks
    <3>2. p + 2 \in 1..(Len(ts) + 1)
      BY <3>1
    <3>3. l[p + 2].atom.ok => l[p + 2].atom.pos \in ((p + 2) + 1)..(Len(ts) + 1)
      BY <1>1, <1>4, <3>2
    <3>4. o.pos = (p + 2) + 1 \/ (o.pos = l[p + 2].atom.pos /\ l[p + 2].atom.ok)
      BY <2>1, OperandIs, Results DEF OperandCases
    <3>5. o.pos \in Int /\ o.pos >= p + 3
      BY <3>3, <3>4
    <3> HIDE DEF o
    <3> QED
      BY <3>1, <3>5
  <2>2. ASSUME x.ok, Peek(ts, x.pos) = "RPAREN"
        PROVE  x.pos + 1 \in (p + 1)..(Len(ts) + 1)
    <3>1. x.pos \in ((p + 1) + 1)..(Len(ts) + 1) /\ x.pos <= Len(ts)
      BY <1>1, <1>4, <2>2, Peeks
    <3> HIDE DEF x
    <3> QED
      BY <3>1
  <2>3. \/ \E node : r = Parsed(node, p + 1)
        \/ /\ Peek(ts, p + 1) = "LPAREN" /\ o.ok /\ Peek(ts, o.pos) = "RPAREN"
           /\ \E node : r = Parsed(node, o.pos + 1)
        \/ x.ok /\ Peek(ts, x.pos) = "RPAREN" /\ \E node : r = Parsed(node, x.pos + 1)
        \/ r = Failed
    BY AtomIs, Zenon DEF AtomCases
  <2> HIDE DEF r, o, x
  <2>4. InRange(ts, r, p)
    BY <1>1, <1>2, <1>3, <2>1, <2>2, <2>3
  <2> QED
    BY <2>4 DEF r
<1>6. InRange(ts, ParseComparison(ts, p, l), p)
  <2> DEFINE left == ParseAtom(ts, p, l)
             right == l[left.pos + 1].atom
             r == ParseComparison(ts, p, l)
  <2>1. \/ r = Failed
        \/ left.ok /\ r = Parsed(left.node, left.pos)
        \/ left.ok /\ Peek(ts, left.pos) = "COMP_OP" /\ right.ok
             /\ \E node : r = Parsed(node, right.pos)
    BY ComparisonIs, Zenon DEF ComparisonCases
  <2>2. left.ok => left.pos \in (p + 1)..(Len(ts) + 1)
    BY <1>4, <1>5
  <2>3. ASSUME left.ok, Peek(ts, left.pos) = "COMP_OP", right.ok
        PROVE  right.pos \in (p + 1)..(Len(ts) + 1)
    <3>1. left.pos + 1 \in 1..(Len(ts) + 1) /\ left.pos \in (p + 1)..(Len(ts) + 1)
      <4>1. left.pos <= Len(ts)
        BY <2>3, Peeks
      <4> HIDE DEF left
      <4> QED
        BY <2>2, <2>3, <4>1
    <3>2. right.pos \in ((left.pos + 1) + 1)..(Len(ts) + 1)
      <4>1. InRange(ts, right, left.pos + 1)
        BY <1>1, <3>1
      <4> HIDE DEF left, right
      <4> QED
        BY <1>4, <2>3, <4>1
    <3> HIDE DEF left, right
    <3> QED
      BY <3>1, <3>2
  <2> HIDE DEF r, left, right
  <2>4. InRange(ts, r, p)
    BY <1>2, <1>3, <2>1, <2>2, <2>3
  <2> QED
    BY <2>4 DEF r
<1>7. InRange(ts, ParseFactor(ts, p, l), p)
  <2> DEFINE r == ParseFactor(ts, p, l)
             x == l[p + 1].factor
  <2>1. r = Failed \/ (x.ok /\ \E node : r = Parsed(node, x.pos))
        \/ r = ParseComparison(ts, p, l)
    BY FactorIs, Zenon DEF FactorCases
  <2>2. x.ok => x.pos \in ((p + 1) + 1)..(Len(ts) + 1)
    BY <1>1, <1>4
  <2> HIDE DEF r, x
  <2>3. x.ok => x.pos \in (p + 1)..(Len(ts) + 1)
    BY <2>2
  <2>4. InRange(ts, r, p)
    BY <1>2, <1>3, <1>6, <2>1, <2>3
  <2> QED
    BY <2>4 DEF r
<1>8. p \in 1..(Len(ts) + 1)
  OBVIOUS
<1>9. InRange(ts, ParseTerm(ts, p, l), p)
  <2>1. OperandsInRange(ts, FactorsOf(l))
    BY OperandsOfTable
  <2>2. LoopEnds(ts, p, "AND", Rounds(ts, "AND", ParseFactor(ts, p, l), FactorsOf(l)),
                 Chain(ts, "AND", ParseFactor(ts, p, l), FactorsOf(l)))
    BY <1>7, <1>8, <2>1, ChainIs
  <2> QED
    BY <2>2, Zenon DEF LoopEnds, ParseTerm, FactorsOf
<1>10. InRange(ts, ParseExpression(ts, p, l), p)
  <2>1. OperandsInRange(ts, TermsOf(l))
    BY OperandsOfTable
  <2>2. LoopEnds(ts, p, "OR", Rounds(ts, "OR", ParseTerm(ts, p, l), TermsOf(l)),
                 Chain(ts, "OR", ParseTerm(ts, p, l), TermsOf(l)))
    BY <1>8, <1>9, <2>1, ChainIs
  <2> QED
    BY <2>2, Zenon DEF LoopEnds, ParseExpression, TermsOf
<1> QED
  BY <1>5, <1>6, <1>7, <1>9, <1>10

\* The methods look at later positions only.
LEMMA MethodsLookAhead ==
  ASSUME NEW ts, Len(ts) \in Nat, NEW p \in 1..Len(ts),
         NEW l, TableInRange(ts, l), NEW m, TableInRange(ts, m),
         \A q \in (p + 1)..(Len(ts) + 1) : l[q] = m[q]
  PROVE  Methods(ts, p, l) = Methods(ts, p, m)
<1>1. l[p + 1] = m[p + 1]
  <2>1. p + 1 \in (p + 1)..(Len(ts) + 1)
    OBVIOUS
  <2> QED
    BY <2>1
<1>2. Peek(ts, p + 1) = "LPAREN" => ParseOperand(ts, p + 2, l) = ParseOperand(ts, p + 2, m)
  <2>1. ASSUME Peek(ts, p + 1) = "LPAREN"
        PROVE  ParseOperand(ts, p + 2, l) = ParseOperand(ts, p + 2, m)
    <3>1. p + 1 <= Len(ts)
      BY <2>1, Peeks
    <3>2. p + 2 \in (p + 1)..(Len(ts) + 1)
      BY <3>1
    <3>3. l[p + 2] = m[p + 2]
      BY <3>2
    <3> QED
      BY <3>3, Zenon DEF ParseOperand
  <2> QED
    BY <2>1
<1>3. ParseAtom(ts, p, l) = ParseAtom(ts, p, m)
  BY <1>1, <1>2 DEF ParseAtom, Then, Consume
<1>4. ParseComparison(ts, p, l) = ParseComparison(ts, p, m)
  <2> DEFINE left == ParseAtom(ts, p, l)
  <2>1. left.ok /\ Peek(ts, left.pos) = "COMP_OP" => l[left.pos + 1] = m[left.pos + 1]
    <3> SUFFICES ASSUME left.ok, Peek(ts, left.pos) = "COMP_OP"
                 PROVE  left.pos + 1 \in (p + 1)..(Len(ts) + 1)
      OBVIOUS
    <3>1. left.pos \in (p + 1)..(Len(ts) + 1) /\ left.pos <= Len(ts)
      BY MethodsInRange, Peeks, Results DEF InRange
    <3> HIDE DEF left
    <3> QED
      BY <3>1
  <2> QED
    BY <1>3, <2>1 DEF ParseComparison, Then
<1>5. ParseFactor(ts, p, l) = ParseFactor(ts, p, m)
  BY <1>1, <1>4 DEF ParseFactor, Then
<1>6. /\ OperandsInRange(ts, FactorsOf(l)) /\ OperandsInRange(ts, FactorsOf(m))
      /\ OperandsInRange(ts, TermsOf(l)) /\ OperandsInRange(ts, TermsOf(m))
  BY OperandsOfTable
<1>7. \A q \in (p + 1)..(Len(ts) + 1) : /\ FactorsOf(l)[q] = FactorsOf(m)[q]
                                        /\ TermsOf(l)[q] = TermsOf(m)[q]
  <2>1. \A q \in (p + 1)..(Len(ts) + 1) : q \in 1..(Len(ts) + 1)
    OBVIOUS
  <2> QED
    BY <2>1 DEF FactorsOf, TermsOf, TableInRange
<1>8. p \in 1..(Len(ts) + 1) /\ InRange(ts, ParseFactor(ts, p, l), p)
      /\ InRange(ts, ParseTerm(ts, p, l), p)
  BY MethodsInRange
<1>9. ParseTerm(ts, p, l) = ParseTerm(ts, p, m)
  <2>1. Chain(ts, "AND", ParseFactor(ts, p, l), FactorsOf(l)) =
          Chain(ts, "AND", ParseFactor(ts, p, l), FactorsOf(m))
    BY <1>6, <1>7, <1>8, ChainLooksAhead
  <2> QED
    BY <1>5, <2>1, Zenon DEF ParseTerm, FactorsOf
<1>10. ParseExpression(ts, p, l) = ParseExpression(ts, p, m)
  <2>1. Chain(ts, "OR", ParseTerm(ts, p, l), TermsOf(l)) =
          Chain(ts, "OR", ParseTerm(ts, p, l), TermsOf(m))
    BY <1>6, <1>7, <1>8, ChainLooksAhead
  <2> QED
    BY <1>9, <2>1, Zenon DEF ParseExpression, TermsOf
<1> QED
  BY <1>3, <1>4, <1>5, <1>9, <1>10, Zenon DEF Methods

\* The table of the parser is that of its methods, each of which is given the
\* table itself.
LEMMA ParserIs ==
  ASSUME NEW ts, Len(ts) \in Nat
  PROVE  /\ TableInRange(ts, Parser(ts))
         /\ Parser(ts)[Len(ts) + 1] = AtEnd
         /\ \A p \in 1..Len(ts) : Parser(ts)[p] = Methods(ts, p, Parser(ts))
<1> DEFINE N == Len(ts)
           start == [p \in 1..(Len(ts) + 1) |-> AtEnd]
           Row(n, l) == [l EXCEPT ![Len(ts) + 1 - n] = Methods(ts, Len(ts) + 1 - n, l)]
           Body(n, f) == IF n = 0 THEN start ELSE Row(n, f[n - 1])
           P == {m \in Nat : \E f : f = [n \in 0..m |-> Body(n, f)]}
<1>1. 0 \in P
  <2>1. [n \in 0..0 |-> start] = [n \in 0..0 |-> Body(n, [k \in 0..0 |-> start])]
    OBVIOUS
  <2> QED
    BY <2>1
<1>2. ASSUME NEW m \in Nat, m \in P
      PROVE  m + 1 \in P
  <2>1. PICK f : f = [n \in 0..m |-> Body(n, f)]
    BY <1>2
  <2> DEFINE g == [n \in 0..(m + 1) |-> IF n = m + 1 THEN Row(n, f[m]) ELSE f[n]]
  <2> HIDE DEF Row, start
  <2>2. ASSUME NEW n \in 0..(m + 1)
        PROVE  g[n] = Body(n, g)
    <3>1. CASE n = 0
      <4>1. 0 \in 0..m /\ 0 # m + 1
        OBVIOUS
      <4>2. f[0] = start
        BY <2>1, <4>1
      <4> QED
        BY <3>1, <4>1, <4>2
    <3>2. CASE n = m + 1
      <4>1. n # 0 /\ n - 1 = m /\ m \in 0..(m + 1) /\ m # m + 1
        BY <3>2
      <4>2. g[n] = Row(n, f[m]) /\ g[n - 1] = f[m]
        BY <3>2, <4>1
      <4> HIDE DEF g
      <4> QED
        BY <4>1, <4>2
    <3>3. CASE n # 0 /\ n # m + 1
      <4>1. n \in 0..m /\ n - 1 \in 0..m /\ n - 1 \in 0..(m + 1) /\ n - 1 # m + 1
        BY <3>3
      <4>2. g[n] = f[n] /\ g[n - 1] = f[n - 1]
        BY <3>3, <4>1
      <4>3. f[n] = Row(n, f[n - 1])
        BY <2>1, <3>3, <4>1
      <4> HIDE DEF g
      <4> QED
        BY <3>3, <4>2, <4>3
    <3> QED
      BY <3>1, <3>2, <3>3
  <2>3. g = [n \in 0..(m + 1) |-> Body(n, g)]
    <3>1. g = [n \in 0..(m + 1) |-> g[n]]
      OBVIOUS
    <3> HIDE DEF g, Body
    <3> QED
      BY <2>2, <3>1
  <2> HIDE DEF g
  <2> QED
    BY <2>3, m + 1 \in Nat
<1>3. N \in P
  <2> HIDE DEF P
  <2> QED
    BY <1>1, <1>2, AllNaturals
<1>4. PICK f : f = [n \in 0..N |-> Body(n, f)] /\ Parser(ts) = f[N]
  <2>1. PICK g : g = [n \in 0..N |-> Body(n, g)]
    BY <1>3
  <2> DEFINE f == CHOOSE f : f = [n \in 0..N |-> Body(n, f)]
  <2>2. f = [n \in 0..N |-> Body(n, f)]
    <3> HIDE DEF Body
    <3> QED
      BY <2>1, Zenon
  <2>3. Parser(ts) = f[N]
    BY Zenon DEF Parser
  <2> HIDE DEF f, Body
  <2> QED
    BY <2>2, <2>3, Zenon
<1> HIDE DEF P, Row, start
<1>5. N \in Nat /\ f[0] = start /\ \A n \in 1..N : f[n] = Row(n, f[n - 1])
  <2>1. 0 \in 0..N /\ \A n \in 1..N : n \in 0..N /\ n # 0
    OBVIOUS
  <2>2. \A n \in 0..N : f[n] = Body(n, f)
    <3> HIDE DEF Body
    <3> QED
      BY <1>4, Zenon
  <2> QED
    BY <2>1, <2>2, Zenon
<1> HIDE DEF Body
<1>6. ASSUME NEW n \in 1..N, NEW l, TableInRange(ts, l)
      PROVE  /\ TableInRange(ts, Row(n, l))
             /\ Row(n, l)[N + 1 - n] = Methods(ts, N + 1 - n, l)
             /\ \A q \in 1..(N + 1) : q # N + 1 - n => Row(n, l)[q] = l[q]
  <2> DEFINE k == N + 1 - n
  <2>1. k \in 1..N /\ k \in 1..(N + 1)
    OBVIOUS
  <2>2. Row(n, l) = [l EXCEPT ![k] = Methods(ts, k, l)]
    BY Zenon DEF Row
  <2>6. DOMAIN l = 1..(N + 1)
    BY <1>6 DEF TableInRange
  <2> HIDE DEF k
  <2>3. /\ DOMAIN Row(n, l) = 1..(N + 1)
        /\ Row(n, l)[k] = Methods(ts, k, l)
        /\ \A q \in 1..(N + 1) : q # k => Row(n, l)[q] = l[q]
    BY <2>1, <2>2, <2>6
  <2>4. /\ InRange(ts, Methods(ts, k, l).atom, k)
        /\ InRange(ts, Methods(ts, k, l).comparison, k)
        /\ InRange(ts, Methods(ts, k, l).factor, k)
        /\ InRange(ts, Methods(ts, k, l).term, k)
        /\ InRange(ts, Methods(ts, k, l).expression, k)
    <3>1. /\ Methods(ts, k, l).atom = ParseAtom(ts, k, l)
          /\ Methods(ts, k, l).comparison = ParseComparison(ts, k, l)
          /\ Methods(ts, k, l).factor = ParseFactor(ts, k, l)
          /\ Methods(ts, k, l).term = ParseTerm(ts, k, l)
          /\ Methods(ts, k, l).expression = ParseExpression(ts, k, l)
      BY DEF Methods
    <3> QED
      BY <1>6, <2>1, <3>1, MethodsInRange
  <2>5. TableInRange(ts, Row(n, l))
    BY <1>6, <2>3, <2>4 DEF TableInRange
  <2> QED
    BY <2>3, <2>5 DEF k
<1>7. TableInRange(ts, start)
  <2>1. /\ InRange(ts, AtEnd.atom, 0) /\ AtEnd.atom = Failed /\ AtEnd.comparison = Failed
        /\ AtEnd.factor = Failed /\ AtEnd.term = Failed /\ AtEnd.expression = Failed
    BY DEF AtEnd, InRange
  <2>2. \A p : InRange(ts, Failed, p)
    BY DEF InRange
  <2> QED
    BY <2>1, <2>2 DEF TableInRange, start
<1>8. \A n \in 0..N : TableInRange(ts, f[n])
  <2> DEFINE Q == {n \in Nat : n <= N => TableInRange(ts, f[n])}
  <2>1. 0 \in Q
    BY <1>5, <1>7
  <2>2. ASSUME NEW n \in Nat, n \in Q
        PROVE  n + 1 \in Q
    <3> SUFFICES ASSUME n + 1 <= N
                 PROVE  TableInRange(ts, f[n + 1])
      OBVIOUS
    <3>1. n + 1 \in 1..N /\ (n + 1) - 1 = n /\ n <= N
      BY <1>5
    <3>2. f[n + 1] = Row(n + 1, f[n]) /\ TableInRange(ts, f[n])
      BY <1>5, <2>2, <3>1
    <3> QED
      BY <1>6, <3>1, <3>2
  <2>3. \A n \in Nat : n \in Q
    <3> HIDE DEF Q
    <3> QED
      BY <2>1, <2>2, AllNaturals
  <2> QED
    BY <2>3
<1>9. \A d \in 0..N : \A q \in (d + 1)..(N + 1) : f[N][q] = f[N - d][q]
  <2> DEFINE Q == {d \in Nat : d <= N =>
                     \A q \in (d + 1)..(N + 1) : f[N][q] = f[N - d][q]}
  <2>1. 0 \in Q
    BY <1>5, N - 0 = N
  <2>2. ASSUME NEW d \in Nat, d \in Q
        PROVE  d + 1 \in Q
    <3> SUFFICES ASSUME d + 1 <= N, NEW q \in ((d + 1) + 1)..(N + 1)
                 PROVE  f[N][q] = f[N - (d + 1)][q]
      OBVIOUS
    <3>1. /\ N - d \in 1..N /\ (N - d) - 1 = N - (d + 1) /\ N - (d + 1) \in 0..N
          /\ q \in 1..(N + 1) /\ q # N + 1 - (N - d) /\ q \in (d + 1)..(N + 1) /\ d <= N
      BY <1>5
    <3>2. f[N - d] = Row(N - d, f[N - (d + 1)])
      BY <1>5, <3>1
    <3>3. f[N - d][q] = f[N - (d + 1)][q]
      BY <1>6, <1>8, <3>1, <3>2
    <3>4. f[N][q] = f[N - d][q]
      BY <2>2, <3>1
    <3> QED
      BY <3>3, <3>4
  <2>3. \A d \in Nat : d \in Q
    <3> HIDE DEF Q
    <3> QED
      BY <2>1, <2>2, AllNaturals
  <2> QED
    BY <2>3
<1>10. TableInRange(ts, Parser(ts))
  BY <1>4, <1>5, <1>8, N \in 0..N
<1>11. Parser(ts)[N + 1] = AtEnd
  <2>1. N \in 0..N /\ N + 1 \in (N + 1)..(N + 1) /\ N - N = 0 /\ N + 1 \in 1..(N + 1)
    BY <1>5
  <2>2. f[N][N + 1] = f[0][N + 1]
    BY <1>9, <2>1
  <2> QED
    BY <1>4, <1>5, <2>1, <2>2 DEF start
<1>12. ASSUME NEW p \in 1..N
       PROVE  Parser(ts)[p] = Methods(ts, p, Parser(ts))
  <2> DEFINE n == N + 1 - p
  <2>1. /\ n \in 1..N /\ N + 1 - n = p /\ n - 1 \in 0..N /\ p - 1 \in 0..N
        /\ N - (p - 1) = n /\ N - p = n - 1 /\ p \in 0..N
        /\ p \in ((p - 1) + 1)..(N + 1)
    BY <1>5
  <2> HIDE DEF n
  <2>2. f[N][p] = f[n][p]
    BY <1>9, <2>1
  <2>3. f[n] = Row(n, f[n - 1]) /\ TableInRange(ts, f[n - 1])
    BY <1>5, <1>8, <2>1
  <2>4. f[n][p] = Methods(ts, p, f[n - 1])
    BY <1>6, <2>1, <2>3
  <2>5. \A q \in (p + 1)..(N + 1) : f[N][q] = f[n - 1][q]
    BY <1>9, <2>1
  <2>6. Methods(ts, p, f[n - 1]) = Methods(ts, p, f[N])
    <3>1. TableInRange(ts, f[N])
      BY <1>4, <1>10
    <3> QED
      BY <2>3, <2>5, <3>1, MethodsLookAhead
  <2> QED
    BY <1>4, <2>2, <2>4, <2>6
<1> QED
  BY <1>10, <1>11, <1>12

\* What the rest of the proof needs of the table.
Rows(ts, l) ==
  /\ TableInRange(ts, l)
  /\ l[Len(ts) + 1] = AtEnd
  /\ \A p \in 1..Len(ts) :
       /\ AtomCases(ts, p, ParseOperand(ts, p + 2, l), l[p + 1].expression, l[p].atom)
       /\ ComparisonCases(ts, l[p].atom, l[l[p].atom.pos + 1].atom, l[p].comparison)
       /\ FactorCases(ts, p, l[p + 1].factor, l[p].comparison, l[p].factor)
       /\ LoopEnds(ts, p, "AND", Rounds(ts, "AND", l[p].factor, FactorsOf(l)), l[p].term)
       /\ LoopEnds(ts, p, "OR", Rounds(ts, "OR", l[p].term, TermsOf(l)), l[p].expression)

\* The table of the parser has it.
LEMMA RowsOfParser ==
  ASSUME NEW ts, Len(ts) \in Nat
  PROVE  Rows(ts, Parser(ts))
<1> DEFINE l == Parser(ts)
<1>1. /\ TableInRange(ts, l) /\ l[Len(ts) + 1] = AtEnd
      /\ \A p \in 1..Len(ts) : l[p] = Methods(ts, p, l)
  BY ParserIs
<1> HIDE DEF l
<1>2. ASSUME NEW p \in 1..Len(ts)
      PROVE  /\ AtomCases(ts, p, ParseOperand(ts, p + 2, l), l[p + 1].expression, l[p].atom)
             /\ ComparisonCases(ts, l[p].atom, l[l[p].atom.pos + 1].atom, l[p].comparison)
             /\ FactorCases(ts, p, l[p + 1].factor, l[p].comparison, l[p].factor)
             /\ LoopEnds(ts, p, "AND", Rounds(ts, "AND", l[p].factor, FactorsOf(l)),
                         l[p].term)
             /\ LoopEnds(ts, p, "OR", Rounds(ts, "OR", l[p].term, TermsOf(l)),
                         l[p].expression)
  <2>1. /\ Methods(ts, p, l).atom = ParseAtom(ts, p, l)
        /\ Methods(ts, p, l).comparison = ParseComparison(ts, p, l)
        /\ Methods(ts, p, l).factor = ParseFactor(ts, p, l)
        /\ Methods(ts, p, l).term = ParseTerm(ts, p, l)
        /\ Methods(ts, p, l).expression = ParseExpression(ts, p, l)
    BY DEF Methods
  <2>2. l[p] = Methods(ts, p, l)
    BY <1>1
  <2>3. /\ l[p].atom = ParseAtom(ts, p, l)
        /\ l[p].comparison = ParseComparison(ts, p, l)
        /\ l[p].factor = ParseFactor(ts, p, l)
        /\ l[p].term = ParseTerm(ts, p, l)
        /\ l[p].expression = ParseExpression(ts, p, l)
    BY <2>1, <2>2, Zenon
  <2>4. /\ OperandsInRange(ts, FactorsOf(l)) /\ OperandsInRange(ts, TermsOf(l))
        /\ InRange(ts, ParseFactor(ts, p, l), p) /\ InRange(ts, ParseTerm(ts, p, l), p)
        /\ p \in 1..(Len(ts) + 1)
    BY <1>1, OperandsOfTable, MethodsInRange
  <2>5. LoopEnds(ts, p, "AND", Rounds(ts, "AND", ParseFactor(ts, p, l), FactorsOf(l)),
                 ParseTerm(ts, p, l))
    <3>1. LoopEnds(ts, p, "AND", Rounds(ts, "AND", ParseFactor(ts, p, l), FactorsOf(l)),
                   Chain(ts, "AND", ParseFactor(ts, p, l), FactorsOf(l)))
      BY <2>4, ChainIs
    <3> QED
      BY <3>1, Zenon DEF ParseTerm, FactorsOf
  <2>6. LoopEnds(ts, p, "OR", Rounds(ts, "OR", ParseTerm(ts, p, l), TermsOf(l)),
                 ParseExpression(ts, p, l))
    <3>1. LoopEnds(ts, p, "OR", Rounds(ts, "OR", ParseTerm(ts, p, l), TermsOf(l)),
                   Chain(ts, "OR", ParseTerm(ts, p, l), TermsOf(l)))
      BY <2>4, ChainIs
    <3> QED
      BY <3>1, Zenon DEF ParseExpression, TermsOf
  <2>7. /\ AtomCases(ts, p, ParseOperand(ts, p + 2, l), l[p + 1].expression,
                     ParseAtom(ts, p, l))
        /\ ComparisonCases(ts, ParseAtom(ts, p, l), l[ParseAtom(ts, p, l).pos + 1].atom,
                           ParseComparison(ts, p, l))
        /\ FactorCases(ts, p, l[p + 1].factor, ParseComparison(ts, p, l),
                       ParseFactor(ts, p, l))
    BY AtomIs, ComparisonIs, FactorIs
  <2> QED
    BY <2>3, <2>5, <2>6, <2>7, Zenon
<1>3. Rows(ts, l)
  BY <1>1, <1>2, Zenon DEF Rows
<1> QED
  BY <1>3 DEF l

-----------------------------------------------------------------------------
(* Outcomes and truth values                                               *)

\* Outcome v of a tree is right for a text that has the truth values X if what
\* throws has none, and Y if it has them all.
IsRight(v, X, Y) ==
  \/ v = "exception" /\ X = {} /\ Y # {}
  \/ v = "true" /\ Y = {TRUE}
  \/ v = "false" /\ Y = {FALSE}

\* A chain of two, with the short circuit, and a negation.
LEMMA RightOutcomes ==
  ASSUME NEW v, NEW X, NEW Y, IsRight(v, X, Y)
  PROVE  /\ IsRight(Negated(v), Opposite(X), Opposite(Y))
         /\ \A w, U, V : IsRight(w, U, V) =>
              /\ IsRight(IF v # "true" THEN v ELSE w, Both(X, U), Both(Y, V))
              /\ IsRight(IF v # "false" THEN v ELSE w, Either(X, U), Either(Y, V))
<1>1. IsRight(Negated(v), Opposite(X), Opposite(Y))
  <2>1. Opposite({TRUE}) = {FALSE} /\ Opposite({FALSE}) = {TRUE}
    BY TruthOf
  <2> QED
    BY <2>1, TruthOf DEF IsRight, Negated
<1>2. ASSUME NEW w, NEW U, NEW V, IsRight(w, U, V)
      PROVE  IsRight(IF v # "true" THEN v ELSE w, Both(X, U), Both(Y, V))
  <2>1. V # {} /\ Y # {}
    BY <1>2 DEF IsRight
  <2>2. CASE v = "exception"
    <3>1. Both(X, U) = {} /\ Both(Y, V) # {}
      BY <2>1, <2>2, TruthOf DEF IsRight
    <3> QED
      BY <2>2, <3>1 DEF IsRight
  <2>3. CASE v = "false"
    <3>1. Both(Y, V) = {FALSE}
      BY <2>1, <2>3, TruthOf DEF IsRight
    <3> QED
      BY <2>3, <3>1 DEF IsRight
  <2>4. CASE v = "true"
    <3>1. Y = {TRUE}
      BY <2>4 DEF IsRight
    <3>2. CASE w = "exception"
      <4>1. Both(X, U) = {} /\ Both(Y, V) # {}
        BY <1>2, <2>1, <3>2, TruthOf DEF IsRight
      <4> QED
        BY <2>4, <3>2, <4>1 DEF IsRight
    <3>3. CASE w = "true"
      <4>1. Both({TRUE}, {TRUE}) = {TRUE} /\ V = {TRUE}
        BY <1>2, <3>3, TruthOf DEF IsRight
      <4> QED
        BY <2>4, <3>1, <3>3, <4>1 DEF IsRight
    <3>4. CASE w = "false"
      <4>1. Both({TRUE}, {FALSE}) = {FALSE} /\ V = {FALSE}
        BY <1>2, <3>4, TruthOf DEF IsRight
      <4> QED
        BY <2>4, <3>1, <3>4, <4>1 DEF IsRight
    <3> QED
      BY <1>2, <3>2, <3>3, <3>4 DEF IsRight
  <2> QED
    BY <2>2, <2>3, <2>4 DEF IsRight
<1>3. ASSUME NEW w, NEW U, NEW V, IsRight(w, U, V)
      PROVE  IsRight(IF v # "false" THEN v ELSE w, Either(X, U), Either(Y, V))
  <2>1. V # {} /\ Y # {}
    BY <1>3 DEF IsRight
  <2>2. CASE v = "exception"
    <3>1. Either(X, U) = {} /\ Either(Y, V) # {}
      BY <2>1, <2>2, TruthOf DEF IsRight
    <3> QED
      BY <2>2, <3>1 DEF IsRight
  <2>3. CASE v = "true"
    <3>1. Either(Y, V) = {TRUE}
      BY <2>1, <2>3, TruthOf DEF IsRight
    <3> QED
      BY <2>3, <3>1 DEF IsRight
  <2>4. CASE v = "false"
    <3>1. Y = {FALSE}
      BY <2>4 DEF IsRight
    <3>2. CASE w = "exception"
      <4>1. Either(X, U) = {} /\ Either(Y, V) # {}
        BY <1>3, <2>1, <3>2, TruthOf DEF IsRight
      <4> QED
        BY <2>4, <3>2, <4>1 DEF IsRight
    <3>3. CASE w = "true"
      <4>1. Either({FALSE}, {TRUE}) = {TRUE} /\ V = {TRUE}
        BY <1>3, <3>3, TruthOf DEF IsRight
      <4> QED
        BY <2>4, <3>1, <3>3, <4>1 DEF IsRight
    <3>4. CASE w = "false"
      <4>1. Either({FALSE}, {FALSE}) = {FALSE} /\ V = {FALSE}
        BY <1>3, <3>4, TruthOf DEF IsRight
      <4> QED
        BY <2>4, <3>1, <3>4, <4>1 DEF IsRight
    <3> QED
      BY <1>3, <3>2, <3>3, <3>4 DEF IsRight
  <2> QED
    BY <2>2, <2>3, <2>4 DEF IsRight
<1> QED
  BY <1>1, <1>2, <1>3

\* The loop of EvaluateAnd and EvaluateOr with an operand more.
LEMMA OneOperandMore ==
  ASSUME NEW m \in Nat, NEW s, DOMAIN s = 1..m, NEW t, DOMAIN t = 1..(m + 1),
         \A i \in 1..m : t[i] = s[i], NEW neutral
  PROVE  FirstToDecide(t, neutral) =
           IF FirstToDecide(s, neutral) # neutral THEN FirstToDecide(s, neutral)
           ELSE t[m + 1]
<1> DEFINE S == {i \in DOMAIN s : s[i] # neutral}
           T == {i \in DOMAIN t : t[i] # neutral}
<1>1. \A i \in T : i \in S \/ i = m + 1
  <2>1. \A i \in 1..(m + 1) : i \in 1..m \/ i = m + 1
    OBVIOUS
  <2> QED
    BY <2>1
<1>2. \A i \in S : i \in T /\ i \in 1..m /\ s[i] = t[i] /\ s[i] # neutral
  <2>1. \A i \in 1..m : i \in 1..(m + 1)
    OBVIOUS
  <2> QED
    BY <2>1
<1>3. m + 1 \in T <=> t[m + 1] # neutral
  <2>1. m + 1 \in 1..(m + 1)
    OBVIOUS
  <2> QED
    BY <2>1
<1>4. /\ FirstToDecide(s, neutral) =
           IF S = {} THEN neutral ELSE s[CHOOSE i \in S : \A j \in S : i <= j]
      /\ FirstToDecide(t, neutral) =
           IF T = {} THEN neutral ELSE t[CHOOSE i \in T : \A j \in T : i <= j]
  BY Zenon DEF FirstToDecide
<1> HIDE DEF S, T
<1>5. CASE S = {}
  <2>1. CASE t[m + 1] = neutral
    <3>1. T = {}
      BY <1>1, <1>3, <1>5, <2>1
    <3> QED
      BY <1>4, <1>5, <2>1, <3>1
  <2>2. CASE t[m + 1] # neutral
    <3>1. T = {m + 1}
      BY <1>1, <1>3, <1>5, <2>2
    <3>2. (CHOOSE i \in T : \A j \in T : i <= j) = m + 1
      BY <3>1
    <3>3. FirstToDecide(t, neutral) = t[m + 1]
      BY <1>4, <3>1, <3>2
    <3>4. FirstToDecide(s, neutral) = neutral
      BY <1>4, <1>5
    <3> QED
      BY <3>3, <3>4
  <2> QED
    BY <2>1, <2>2
<1>6. CASE S # {}
  <2>1. S \in SUBSET Nat
    <3>1. \A i \in 1..m : i \in Nat
      OBVIOUS
    <3> QED
      BY <1>2, <3>1
  <2>2. PICK i \in S : \A j \in S : i <= j
    BY <1>6, <2>1, LeastOfNaturals
  <2>3. i \in T /\ \A j \in T : i <= j
    <3>1. i \in 1..m /\ i \in T
      BY <1>2
    <3>2. i <= m + 1
      BY <3>1
    <3> QED
      BY <1>1, <2>2, <3>1, <3>2, Zenon
  <2>4. \A k \in S : (\A j \in S : k <= j) => k = i
    BY <2>1, <2>2
  <2>5. \A k \in T : (\A j \in T : k <= j) => k = i
    <3>1. \A k \in T : k \in Nat
      <4>1. m + 1 \in Nat
        OBVIOUS
      <4>2. \A k \in T : k \in S \/ k = m + 1
        BY <1>1, Zenon
      <4>3. \A k \in S : k \in Nat
        BY <2>1, Zenon
      <4> QED
        BY <4>1, <4>2, <4>3, Zenon
    <3> QED
      BY <2>3, <3>1
  <2>6. /\ (CHOOSE k \in S : \A j \in S : k <= j) = i
        /\ (CHOOSE k \in T : \A j \in T : k <= j) = i
    BY <2>2, <2>3, <2>4, <2>5, Zenon
  <2>7. FirstToDecide(s, neutral) = s[i] /\ FirstToDecide(t, neutral) = t[i]
    BY <1>4, <1>6, <2>3, <2>6, Zenon
  <2> QED
    BY <1>2, <2>7
<1> QED
  BY <1>5, <1>6

-----------------------------------------------------------------------------
(* What the parser makes of a part of a text                               *)

\* A context c is a rule, a transaction, an answer of Postgres and a table of
\* outcomes.  The outcome of node e when n generations are below it at the most:
Of(c, e, n) ==
  EvaluateNode(c.rule, c.tx, c.answer, e, IF n = 0 THEN <<>> ELSE c.outcome[n - 1])

\* It can be had: e is in the schema, the table has what is below it.
Fits(c, e, n) ==
  /\ InSchema(e)
  /\ \A x \in Children(e) : n # 0 /\ x \in DOMAIN c.outcome[n - 1]

\* The table is that of EvaluateExpression.
Context(c) ==
  /\ c.tx \in Transaction
  /\ c.rule.rule_type # "PATTERN"
  /\ \A n \in 0..MaxDepth : \A x \in DOMAIN c.outcome[n] :
       Fits(c, x, n) /\ c.outcome[n][x] = Of(c, x, n)

\* Node e has the truth values of the part from i to j.
Good(c, ts, e, i, j) ==
  \A n \in 0..MaxDepth : Fits(c, e, n) =>
    IsRight(Of(c, e, n), Meaning(c.tx, ts, {})[<<i, j>>],
            Meaning(c.tx, ts, BOOLEAN)[<<i, j>>])

\* A node tells what its part looks like.
Shape(ts, e, i, j) ==
  LET f == First(ts, i, j)
      g == Last(ts, i, j)
  IN \/ /\ e.kind = "literal" /\ f = g /\ Kind(ts[f]) \in LiteralKind
        /\ e = AtomLiteral(ts[f])
     \/ /\ e.kind = "field" /\ f = g /\ Kind(ts[f]) = "FIELD"
        /\ e = FieldNode(ts[f])
     \/ e.kind = "aggregate" /\ f < g /\ IsAggregate(ts, i, j)
     \/ e.kind = "comparison" /\ f < g
     \/ /\ e.kind = "logical" /\ f < g
        /\ e = Logical(e.operator, e.operands)
        /\ e.operands \in Seq(Children(e))
        /\ \E m \in i..j : Kind(ts[m]) = "LOGIC_OP"

\* What holds of node e of the part from i to j.
Fact(c, ts, e, i, j) ==
  /\ i <= j
  /\ Shape(ts, e, i, j)
  /\ ~ Has(ts, "AGG_FUNCTION") =>
       WellFormed(ts)[<<i, j>>] /\ (Context(c) => Good(c, ts, e, i, j))

\* What the methods leave outside parentheses.
AtomSpan(ts, i, j) ==
  /\ Balanced(ts, i, j)
  /\ Outer(ts, i, j, "LOGIC_OP") = {} /\ Outer(ts, i, j, "COMP_OP") = {}
  /\ ~ Has(ts, "AGG_FUNCTION") => IsAtom(ts, i, j)
ComparisonSpan(ts, i, j) == Balanced(ts, i, j) /\ Outer(ts, i, j, "LOGIC_OP") = {}
FactorSpan(ts, i, j) ==
  Balanced(ts, i, j) /\ OuterOp(ts, i, j, "OR") = {} /\ OuterOp(ts, i, j, "AND") = {}
TermSpan(ts, i, j) == Balanced(ts, i, j) /\ OuterOp(ts, i, j, "OR") = {}

\* Each leaves less than the next one.
LEMMA Spans ==
  ASSUME NEW ts, NEW i, NEW j
  PROVE  /\ AtomSpan(ts, i, j) => ComparisonSpan(ts, i, j)
         /\ ComparisonSpan(ts, i, j) => FactorSpan(ts, i, j)
         /\ FactorSpan(ts, i, j) => TermSpan(ts, i, j)
         /\ TermSpan(ts, i, j) => Balanced(ts, i, j)
BY DEF AtomSpan, ComparisonSpan, FactorSpan, TermSpan, OuterOp

\* The literals.
LEMMA Literals ==
  ASSUME NEW w, Kind(w) \in LiteralKind
  PROVE  /\ AtomLiteral(w) = Literal(AtomLiteral(w).type, AtomLiteral(w).value)
         /\ AtomLiteral(w).kind = "literal"
         /\ Kind(w) = "NUMBER" =>
              /\ AtomLiteral(w).value = Number[w].n /\ Number[w].n \in Nat
              /\ AtomLiteral(w).type \in {"int_value", "int64_value", "float_value"}
         /\ Kind(w) = "STRING" => AtomLiteral(w) = Literal("string_value", Upper[Quoted[w]])
         /\ Kind(w) = "BOOL" => AtomLiteral(w) = Literal("bool_value", w = "TRUE")
         /\ Kind(w) = "IDENTIFIER" => AtomLiteral(w) = Literal("string_value", Lower[w])
<1>1. CASE Kind(w) = "NUMBER"
  <2>1. w \in DOMAIN Number
    BY <1>1, Kinds
  <2>2. Number[w].size \in {"int32", "int64", "fraction"} /\ Number[w].n \in Nat
    BY <2>1, NumberAssumption
  <2>3. AtomLiteral(w) = NumberLiteral(Number[w])
    BY <1>1 DEF AtomLiteral
  <2> QED
    BY <1>1, <2>2, <2>3 DEF NumberLiteral, Literal
<1>2. CASE Kind(w) # "NUMBER"
  BY <1>2 DEF AtomLiteral, Literal, LiteralKind
<1> QED
  BY <1>1, <1>2

\* One token.
LEMMA TokenFact ==
  ASSUME NEW c, NEW ts, Len(ts) \in Nat, NEW i \in 1..Len(ts),
         NEW e, \/ Kind(ts[i]) \in LiteralKind /\ e = AtomLiteral(ts[i])
                \/ Kind(ts[i]) = "FIELD" /\ e = FieldNode(ts[i])
  PROVE  Fact(c, ts, e, i, i) /\ AtomSpan(ts, i, i)
<1> DEFINE w == ts[i]
<1>1. /\ i \in Int /\ i \in Nat /\ i <= i /\ i \in 1..(Len(ts) + 1) /\ i \in 0..Len(ts)
  OBVIOUS
<1>2. w \notin Paren /\ w # "NOT"
  BY Kinds DEF Paren, LiteralKind
<1>3. /\ Balanced(ts, i, i)
      /\ \A kind, m : m \in Outer(ts, i, i, kind) <=> m = i /\ Kind(ts[i]) = kind
  BY <1>1, <1>2, OneToken
<1>4. Outer(ts, i, i, "LOGIC_OP") = {} /\ Outer(ts, i, i, "COMP_OP") = {}
  BY <1>3 DEF LiteralKind
<1>5. AtomSpan(ts, i, i)
  BY <1>3, <1>4 DEF AtomSpan, IsAtom
<1>6. Cut(ts, i, i) = 0
  BY <1>1, <1>2, <1>4, NotCut
<1>7. ~ InParentheses(ts, i, i)
  BY <1>1 DEF InParentheses
<1>8. WellFormed(ts)[<<i, i>>]
  <2>1. IsWellFormed(ts, i, i, WellFormed(ts))
    BY <1>1, <1>6 DEF IsWellFormed
  <2> QED
    BY <1>1, <2>1, WellFormedIs
<1>9. First(ts, i, i) = i /\ Last(ts, i, i) = i
  BY <1>1, <1>7, NoLayer
<1>10. Shape(ts, e, i, i)
  BY <1>9, Literals DEF Shape, FieldNode
<1>11. \A unknown \in SUBSET BOOLEAN :
         Meaning(c.tx, ts, unknown)[<<i, i>>] =
           IF Kind(w) = "BOOL" THEN {w = "TRUE"} ELSE unknown
  <2> SUFFICES ASSUME NEW unknown \in SUBSET BOOLEAN
               PROVE  Meaning(c.tx, ts, unknown)[<<i, i>>] =
                        IF Kind(w) = "BOOL" THEN {w = "TRUE"} ELSE unknown
    OBVIOUS
  <2>1. ~ (i > i)
    BY <1>1
  <2>2. Meaning(c.tx, ts, unknown)[<<i, i>>] =
          Values(c.tx, ts, unknown, i, i, Meaning(c.tx, ts, unknown))
    BY <1>1, MeaningIs
  <2> QED
    BY <1>6, <1>7, <2>1, <2>2, Zenon DEF Values
<1>12. ASSUME NEW n \in 0..MaxDepth
       PROVE  IsRight(Of(c, e, n), Meaning(c.tx, ts, {})[<<i, i>>],
                      Meaning(c.tx, ts, BOOLEAN)[<<i, i>>])
  <2>1. CASE Kind(w) = "BOOL"
    <3>1. e = Literal("bool_value", w = "TRUE")
      BY <2>1, Literals DEF LiteralKind
    <3>2. e.kind = "literal" /\ e.type = "bool_value" /\ e.value = (w = "TRUE")
      BY <3>1, Zenon DEF Literal
    <3>3. Of(c, e, n) = Outcome(w = "TRUE")
      BY <3>2 DEF Of, EvaluateNode
    <3>4. Meaning(c.tx, ts, BOOLEAN)[<<i, i>>] = {w = "TRUE"}
      BY <1>11, <2>1
    <3> QED
      BY <3>3, <3>4 DEF IsRight, Outcome
  <2>2. CASE Kind(w) # "BOOL"
    <3>1. e.kind \in {"literal", "field"} /\ (e.kind = "literal" => e.type # "bool_value")
      BY <2>2, Literals DEF FieldNode, LiteralKind, Literal
    <3>2. Of(c, e, n) = "exception"
      BY <3>1 DEF Of, EvaluateNode
    <3>3. Meaning(c.tx, ts, {})[<<i, i>>] = {} /\ Meaning(c.tx, ts, BOOLEAN)[<<i, i>>] = BOOLEAN
      BY <1>11, <2>2
    <3> QED
      BY <3>2, <3>3 DEF IsRight
  <2> QED
    BY <2>1, <2>2
<1> QED
  BY <1>1, <1>5, <1>8, <1>10, <1>12 DEF Fact, Good

\* A part in parentheses.
LEMMA ParenFact ==
  ASSUME NEW c, NEW ts, Len(ts) \in Nat, NEW i \in 1..Len(ts), NEW j \in 1..Len(ts),
         NEW e, ts[i] = "(", ts[j] = ")", Fact(c, ts, e, i + 1, j - 1),
         Balanced(ts, i + 1, j - 1)
  PROVE  Fact(c, ts, e, i, j) /\ AtomSpan(ts, i, j)
<1>1. /\ i \in Int /\ j \in Int /\ i \in Nat /\ j \in Nat
      /\ i \in 1..(Len(ts) + 1) /\ j \in 0..Len(ts)
      /\ i + 1 \in 1..(Len(ts) + 1) /\ j - 1 \in 0..Len(ts)
  OBVIOUS
<1>2. i + 1 <= j - 1
  BY DEF Fact
<1>3. i <= j /\ ~ (i > j)
  BY <1>1, <1>2
<1>4. InParentheses(ts, i, j) /\ Balanced(ts, i, j)
  BY <1>1, Enclosed
<1>5. Outer(ts, i, j, "LOGIC_OP") = {} /\ Outer(ts, i, j, "COMP_OP") = {}
  BY <1>1, <1>4, InsideOfParentheses
<1>6. AtomSpan(ts, i, j)
  BY <1>4, <1>5 DEF AtomSpan, IsAtom
<1>7. Cut(ts, i, j) = 0
  BY <1>1, <1>5, NotCut
<1>8. /\ First(ts, i, j) = First(ts, i + 1, j - 1)
      /\ Last(ts, i, j) = Last(ts, i + 1, j - 1)
      /\ IsAggregate(ts, i, j) <=> IsAggregate(ts, i + 1, j - 1)
  BY <1>1, <1>4, LayerUp, TokenUp
<1>9. Shape(ts, e, i, j)
  <2>1. \A m \in (i + 1)..(j - 1) : m \in i..j
    BY <1>1
  <2>2. Shape(ts, e, i + 1, j - 1)
    BY DEF Fact
  <2> QED
    BY <1>8, <2>1, <2>2, Zenon DEF Shape
<1>10. WellFormed(ts)[<<i + 1, j - 1>>] => WellFormed(ts)[<<i, j>>]
  <2>1. WellFormed(ts)[<<i + 1, j - 1>>] => IsWellFormed(ts, i, j, WellFormed(ts))
    BY <1>3, <1>4, <1>7, Zenon DEF IsWellFormed
  <2> QED
    BY <1>1, <2>1, WellFormedIs
<1>11. ASSUME NEW unknown \in SUBSET BOOLEAN
       PROVE  Meaning(c.tx, ts, unknown)[<<i, j>>] =
                Meaning(c.tx, ts, unknown)[<<i + 1, j - 1>>]
  <2>1. Meaning(c.tx, ts, unknown)[<<i, j>>] =
          Values(c.tx, ts, unknown, i, j, Meaning(c.tx, ts, unknown))
    BY <1>1, MeaningIs
  <2> QED
    BY <1>3, <1>4, <1>7, <2>1, Zenon DEF Values
<1>12. Good(c, ts, e, i + 1, j - 1) => Good(c, ts, e, i, j)
  <2>1. {} \in SUBSET BOOLEAN /\ BOOLEAN \in SUBSET BOOLEAN
    OBVIOUS
  <2>2. /\ Meaning(c.tx, ts, {})[<<i, j>>] = Meaning(c.tx, ts, {})[<<i + 1, j - 1>>]
        /\ Meaning(c.tx, ts, BOOLEAN)[<<i, j>>] = Meaning(c.tx, ts, BOOLEAN)[<<i + 1, j - 1>>]
    BY <1>11, <2>1
  <2> QED
    BY <2>2, Zenon DEF Good
<1> QED
  BY <1>3, <1>6, <1>9, <1>10, <1>12 DEF Fact

\* An aggregate over an operand.
LEMMA AggregateFact ==
  ASSUME NEW c, NEW ts, Len(ts) \in Nat, NEW i \in 1..Len(ts), NEW j \in 1..Len(ts),
         Has(ts, "AGG_FUNCTION"), Kind(ts[i]) = "AGG_FUNCTION", ts[i + 1] = "(", ts[j] = ")",
         \/ j = i + 3 /\ ts[i + 2] = "*"
         \/ /\ i + 2 <= j - 1 /\ Balanced(ts, i + 2, j - 1)
            /\ IsToken(ts, i + 2, j - 1, {"FIELD"}),
         NEW operand
  PROVE  Fact(c, ts, Aggregate(ts[i], operand), i, j) /\ AtomSpan(ts, i, j)
<1>1. /\ i \in Int /\ j \in Int /\ i <= j /\ i + 2 < j /\ i + 1 \in Int /\ i + 2 \in Int
      /\ j - 1 \in Int
      /\ (i + 1) + 1 = i + 2 /\ i < j
  <2>1. i \in Int /\ j \in Int
    OBVIOUS
  <2>2. j = i + 3 \/ i + 2 <= j - 1
    OBVIOUS
  <2> QED
    BY <2>1, <2>2
<1>3. Balanced(ts, i + 2, j - 1)
  <2>1. CASE j = i + 3 /\ ts[i + 2] = "*"
    <3>1. ts[i + 2] \notin Paren
      BY <2>1 DEF Paren
    <3>2. Balanced(ts, i + 2, i + 2)
      BY <1>1, <3>1, OneToken
    <3>3. j - 1 = i + 2
      <4>1. j = i + 3
        BY <2>1
      <4> QED
        BY <1>1, <4>1
    <3> QED
      BY <3>2, <3>3
  <2> QED
    BY <2>1
<1>4. InParentheses(ts, i + 1, j) /\ Balanced(ts, i + 1, j)
  <2>1. Balanced(ts, (i + 1) + 1, j - 1)
    BY <1>1, <1>3
  <2> QED
    BY <1>1, <2>1, Enclosed
<1>5. ts[i] \notin Paren
  BY Kinds DEF Paren
<1>6. /\ Balanced(ts, i, j)
      /\ \A kind, m : m \in Outer(ts, i, j, kind) <=>
           (m = i /\ Kind(ts[i]) = kind) \/ m \in Outer(ts, i + 1, j, kind)
  BY <1>1, <1>4, <1>5, Prefixed
<1>7. Outer(ts, i + 1, j, "LOGIC_OP") = {} /\ Outer(ts, i + 1, j, "COMP_OP") = {}
  BY <1>1, <1>4, InsideOfParentheses
<1>8. Outer(ts, i, j, "LOGIC_OP") = {} /\ Outer(ts, i, j, "COMP_OP") = {}
  BY <1>6, <1>7
<1>9. ~ InParentheses(ts, i, j)
  BY <1>5 DEF InParentheses, Paren
<1>10. First(ts, i, j) = i /\ Last(ts, i, j) = j
  BY <1>1, <1>9, NoLayer
<1>11. IsAggregate(ts, i, j)
  <2>1. j = i + 3 => i + 2 = j - 1
    BY <1>1
  <2> QED
    BY <1>1, <1>10, <2>1, Zenon DEF IsAggregate
<1>12. Shape(ts, Aggregate(ts[i], operand), i, j)
  <2>1. Aggregate(ts[i], operand).kind = "aggregate"
    BY DEF Aggregate
  <2> QED
    BY <1>1, <1>10, <1>11, <2>1, Zenon DEF Shape
<1> QED
  BY <1>1, <1>6, <1>8, <1>12 DEF Fact, AtomSpan

\* A value of the evaluators and what it stands for in the language.
Corresponds(v, s) ==
  \/ v = NoValue /\ s = NoValue
  \/ v.type \in {"int", "float"} /\ v.value \in Int /\ s = Value("number", v.value)
  \/ v.type \in {"string", "bool"} /\ s = Value(v.type, v.value)

\* The operands of comparisons do.
LEMMA OperandsCorrespond ==
  ASSUME NEW c, Context(c), NEW ts, NEW i, NEW j, NEW e, InSchema(e), Shape(ts, e, i, j),
         First(ts, i, j) \in Int, Last(ts, i, j) \in Int
  PROVE  Corresponds(EvaluateValue(c.rule, c.tx, c.answer, e), Operand(c.tx, ts, i, j))
<1> DEFINE f == First(ts, i, j)
           g == Last(ts, i, j)
           w == ts[f]
           v == EvaluateValue(c.rule, c.tx, c.answer, e)
           s == Operand(c.tx, ts, i, j)
<1> SUFFICES Corresponds(v, s)
  OBVIOUS
<1>1. CASE e.kind = "literal"
  <2>1. f = g /\ Kind(w) \in LiteralKind /\ e = AtomLiteral(w)
    BY <1>1, Zenon DEF Shape
  <2>2. s = Sense(c.tx, w)
    BY <2>1, Zenon DEF Operand
  <2>3. v = Value(LiteralType[e.type], e.value) /\ e.type \in DOMAIN LiteralType
    BY <1>1 DEF EvaluateValue, InSchema
  <2>4. LiteralType["int_value"] = "int" /\ LiteralType["float_value"] = "float"
        /\ LiteralType["string_value"] = "string" /\ LiteralType["bool_value"] = "bool"
        /\ "int64_value" \notin DOMAIN LiteralType
    BY DEF LiteralType
  <2> HIDE DEF s, v, w
  <2>5. CASE Kind(w) = "NUMBER"
    <3>1. /\ Sense(c.tx, w) = Value("number", e.value) /\ e.value \in Int
          /\ e.type \in {"int_value", "float_value"}
      BY <2>1, <2>3, <2>4, <2>5, Literals DEF Sense
    <3> QED
      BY <2>2, <2>3, <2>4, <3>1 DEF Corresponds, Value
  <2>6. CASE Kind(w) \in {"STRING", "IDENTIFIER"}
    <3>1. e = Literal("string_value", e.value) /\ Sense(c.tx, w) = Value("string", e.value)
      BY <2>1, <2>6, Literals DEF Sense, Literal
    <3> QED
      BY <2>2, <2>3, <2>4, <3>1 DEF Corresponds, Value, Literal
  <2>7. CASE Kind(w) = "BOOL"
    <3>1. e = Literal("bool_value", e.value) /\ Sense(c.tx, w) = Value("bool", e.value)
      BY <2>1, <2>7, Literals DEF Sense, Literal
    <3> QED
      BY <2>2, <2>3, <2>4, <3>1 DEF Corresponds, Value, Literal
  <2> QED
    BY <2>1, <2>5, <2>6, <2>7 DEF LiteralKind
<1>2. CASE e.kind = "field"
  <2>1. f = g /\ Kind(w) = "FIELD" /\ e = FieldNode(w)
    BY <1>2, Zenon DEF Shape
  <2>2. s = Sense(c.tx, w)
    BY <2>1, Zenon DEF Operand
  <2>3. e.field = w
    BY <2>1 DEF FieldNode
  <2>4. w \in ProtoField
    BY <1>2, <2>3 DEF InSchema
  <2>5. v = Value(FieldType(w), c.tx[w])
    BY <1>2, <2>3 DEF EvaluateValue, GetFieldValue
  <2>6. FieldType(w) # "string" => c.tx[w] \in Int
    BY <2>4, TransactionAssumption DEF Context
  <2>7. FieldType(w) \in {"float", "int", "string"}
    BY DEF FieldType
  <2> HIDE DEF s, v, w
  <2>8. Sense(c.tx, w) =
          Value(IF FieldType(w) = "string" THEN "string" ELSE "number", c.tx[w])
    BY <2>1, <2>4 DEF Sense
  <2> QED
    BY <2>2, <2>5, <2>6, <2>7, <2>8 DEF Corresponds, Value
<1>3. CASE e.kind \notin {"literal", "field"}
  <2>1. f < g
    BY <1>3, Zenon DEF Shape
  <2>2. f # g
    BY <2>1
  <2>3. s = NoValue
    BY <2>2, Zenon DEF Operand
  <2>4. v = NoValue
    BY <1>3 DEF EvaluateValue, Context
  <2> QED
    BY <2>3, <2>4 DEF Corresponds
<1> QED
  BY <1>1, <1>2, <1>3

\* So a comparison has the outcome that the text has.
LEMMA ComparesRight ==
  ASSUME NEW v, NEW s, Corresponds(v, s), NEW w, NEW u, Corresponds(w, u),
         NEW sign, Kind(sign) = "COMP_OP"
  PROVE  Compare(v, w, CompOpMap[sign]) =
           IF Comparable(s, sign, u) THEN Outcome(Holds(s.value, sign, u.value))
           ELSE "exception"
<1>1. sign \in {"==", "=", "!=", ">", ">=", "<", "<="}
  BY Kinds
<1>2. CompOpMap[sign] =
        CASE sign \in {"==", "="} -> "EQUAL"
          [] sign = "!=" -> "NOT_EQUAL"
          [] sign = ">"  -> "GREATER_THAN"
          [] sign = ">=" -> "GREATER_THAN_OR_EQUAL"
          [] sign = "<"  -> "LESS_THAN"
          [] sign = "<=" -> "LESS_THAN_OR_EQUAL"
  BY <1>1 DEF CompOpMap
<1>3. /\ NoValue.type = "exception"
      /\ \A x, y : Value(x, y).type = x /\ Value(x, y).value = y
  BY DEF NoValue, Value
<1>4. CASE v.type \in {"int", "float"} /\ w.type \in {"int", "float"}
  <2>1. /\ s.type = "number" /\ u.type = "number" /\ s.value = v.value /\ u.value = w.value
        /\ v.value \in Int /\ w.value \in Int
    BY <1>3, <1>4 DEF Corresponds
  <2>2. CompareNumeric(v.value, w.value, CompOpMap[sign]) <=> Holds(v.value, sign, w.value)
    BY <1>1, <1>2, <2>1 DEF CompareNumeric, Holds
  <2>3. Compare(v, w, CompOpMap[sign]) =
          Outcome(CompareNumeric(v.value, w.value, CompOpMap[sign]))
    BY <1>4 DEF Compare, IsNumeric
  <2> QED
    BY <2>1, <2>2, <2>3 DEF Comparable, Outcome
<1>5. CASE ~ (v.type \in {"int", "float"} /\ w.type \in {"int", "float"})
  <2>1. /\ ~ (s.type = "number" /\ u.type = "number")
        /\ s.type \in {"string", "bool"} => v.type = s.type /\ v.value = s.value
        /\ u.type \in {"string", "bool"} => w.type = u.type /\ w.value = u.value
        /\ v.type \in {"string", "bool"} => v.type = s.type /\ v.value = s.value
        /\ w.type \in {"string", "bool"} => w.type = u.type /\ w.value = u.value
    BY <1>3, <1>5 DEF Corresponds
  <2>2. CompOpMap[sign] \in {"EQUAL", "NOT_EQUAL"} <=> sign \in {"=", "==", "!="}
    BY <1>1, <1>2
  <2>3. CASE /\ v.type = w.type /\ v.type \in {"string", "bool"}
             /\ sign \in {"=", "==", "!="}
    <3>1. Compare(v, w, CompOpMap[sign]) =
            Outcome((v.value = w.value) = (CompOpMap[sign] = "EQUAL"))
      BY <2>2, <2>3 DEF Compare, IsNumeric
    <3>2. Comparable(s, sign, u)
      BY <2>1, <2>3 DEF Comparable
    <3>3. Holds(s.value, sign, u.value) <=> ((v.value = w.value) <=> (CompOpMap[sign] = "EQUAL"))
      BY <1>1, <1>2, <2>1, <2>3 DEF Holds
    <3> QED
      BY <3>1, <3>2, <3>3 DEF Outcome
  <2>4. CASE ~ (/\ v.type = w.type /\ v.type \in {"string", "bool"}
                /\ sign \in {"=", "==", "!="})
    <3>1. Compare(v, w, CompOpMap[sign]) = "exception"
      BY <1>5, <2>2, <2>4 DEF Compare, IsNumeric
    <3>2. ~ Comparable(s, sign, u)
      BY <2>1, <2>4 DEF Comparable
    <3> QED
      BY <3>1, <3>2
  <2> QED
    BY <2>3, <2>4
<1> QED
  BY <1>4, <1>5

\* A comparison of two atoms.
LEMMA ComparisonFact ==
  ASSUME NEW c, NEW ts, Len(ts) \in Nat, NEW i \in 1..Len(ts), NEW k \in 1..Len(ts),
         NEW j \in 1..Len(ts), Kind(ts[k]) = "COMP_OP", NEW a, NEW b,
         Fact(c, ts, a, i, k - 1), AtomSpan(ts, i, k - 1),
         Fact(c, ts, b, k + 1, j), AtomSpan(ts, k + 1, j)
  PROVE  /\ Fact(c, ts, Comparison(CompOpMap[ts[k]], a, b), i, j)
         /\ ComparisonSpan(ts, i, j)
<1> DEFINE e == Comparison(CompOpMap[ts[k]], a, b)
<1>1. /\ i \in Nat /\ k \in Nat /\ j \in Nat /\ i \in Int /\ k \in Int /\ j \in Int
      /\ k - 1 \in Int /\ k + 1 \in Int
      /\ i \in 1..(Len(ts) + 1) /\ j \in 0..Len(ts) /\ k # 0
  OBVIOUS
<1>2. i <= k - 1 /\ k + 1 <= j
  BY DEF Fact
<1>3. i <= j /\ ~ (i > j) /\ i < j /\ k \in i..j
  BY <1>1, <1>2
<1>4. /\ Outer(ts, i, j, "LOGIC_OP") = {} /\ Outer(ts, i, j, "COMP_OP") = {k}
      /\ Cut(ts, i, j) = k /\ Balanced(ts, i, j)
  <2>1. ts[k] \notin Paren
    BY Kinds DEF Paren
  <2>2. Balanced(ts, i, k - 1) /\ Balanced(ts, k + 1, j)
    BY DEF AtomSpan
  <2>3. Balanced(ts, i, j)
    BY <1>1, <2>1, <2>2, Joined
  <2>4. /\ Outer(ts, i, k - 1, "LOGIC_OP") = {} /\ Outer(ts, k + 1, j, "LOGIC_OP") = {}
        /\ Outer(ts, i, k - 1, "COMP_OP") = {} /\ Outer(ts, k + 1, j, "COMP_OP") = {}
    BY DEF AtomSpan
  <2>5. /\ Outer(ts, i, j, "LOGIC_OP") = {} /\ Outer(ts, i, j, "COMP_OP") = {k}
        /\ Cut(ts, i, j) = k
    BY <1>1, <2>2, <2>4, CutAtComparison
  <2> QED
    BY <2>3, <2>5
<1>5. ComparisonSpan(ts, i, j)
  BY <1>4 DEF ComparisonSpan
<1>6. ts[k] \notin {"OR", "AND", "NOT"}
  BY Kinds
<1>7. ~ InParentheses(ts, i, j)
  <2>1. Outer(ts, i, j, "COMP_OP") # {}
    BY <1>4
  <2> QED
    BY <1>1, <2>1, InsideOfParentheses
<1>8. First(ts, i, j) = i /\ Last(ts, i, j) = j
  BY <1>1, <1>3, <1>7, NoLayer
<1>9. /\ e.kind = "comparison" /\ e.left = a /\ e.right = b
      /\ e.operator = CompOpMap[ts[k]] /\ Children(e) = {a, b}
  BY DEF Comparison, Children
<1> SUFFICES Fact(c, ts, e, i, j) /\ ComparisonSpan(ts, i, j)
  OBVIOUS
<1> HIDE DEF e
<1>10. Shape(ts, e, i, j)
  BY <1>3, <1>8, <1>9, Zenon DEF Shape
<1>11. ASSUME ~ Has(ts, "AGG_FUNCTION")
       PROVE  WellFormed(ts)[<<i, j>>]
  <2>1. /\ WellFormed(ts)[<<i, k - 1>>] /\ WellFormed(ts)[<<k + 1, j>>]
        /\ IsAtom(ts, i, k - 1) /\ IsAtom(ts, k + 1, j)
    BY <1>11 DEF Fact, AtomSpan
  <2>2. IsWellFormed(ts, i, j, WellFormed(ts))
    BY <1>1, <1>3, <1>4, <1>6, <2>1, Zenon DEF IsWellFormed
  <2> QED
    BY <1>1, <2>2, WellFormedIs
<1>12. ASSUME Context(c)
       PROVE  Good(c, ts, e, i, j)
  <2> DEFINE v == EvaluateValue(c.rule, c.tx, c.answer, a)
             w == EvaluateValue(c.rule, c.tx, c.answer, b)
             s == Operand(c.tx, ts, i, k - 1)
             u == Operand(c.tx, ts, k + 1, j)
  <2> SUFFICES ASSUME NEW n \in 0..MaxDepth, Fits(c, e, n)
               PROVE  IsRight(Of(c, e, n), Meaning(c.tx, ts, {})[<<i, j>>],
                              Meaning(c.tx, ts, BOOLEAN)[<<i, j>>])
    BY DEF Good
  <2>1. n # 0 /\ a \in DOMAIN c.outcome[n - 1] /\ b \in DOMAIN c.outcome[n - 1]
    BY <1>9 DEF Fits
  <2>2. n - 1 \in 0..MaxDepth
    BY <2>1, DepthAssumption
  <2>3. InSchema(a) /\ InSchema(b)
    BY <1>12, <2>1, <2>2 DEF Context, Fits
  <2>4. Shape(ts, a, i, k - 1) /\ Shape(ts, b, k + 1, j)
    BY DEF Fact
  <2>5. /\ First(ts, i, k - 1) \in Int /\ Last(ts, i, k - 1) \in Int
        /\ First(ts, k + 1, j) \in Int /\ Last(ts, k + 1, j) \in Int
    BY <1>1, <1>2, LayersIs, SMTT(30) DEF First, Last
  <2>6. Corresponds(v, s) /\ Corresponds(w, u)
    BY <1>12, <2>3, <2>4, <2>5, OperandsCorrespond
  <2>7. Of(c, e, n) = Compare(v, w, CompOpMap[ts[k]])
    BY <1>9 DEF Of, EvaluateNode, EvaluateComparison
  <2>8. \A unknown \in SUBSET BOOLEAN :
          Meaning(c.tx, ts, unknown)[<<i, j>>] =
            IF Comparable(s, ts[k], u) THEN {Holds(s.value, ts[k], u.value)} ELSE unknown
    <3> SUFFICES ASSUME NEW unknown \in SUBSET BOOLEAN
                 PROVE  Meaning(c.tx, ts, unknown)[<<i, j>>] =
                          IF Comparable(s, ts[k], u) THEN {Holds(s.value, ts[k], u.value)}
                          ELSE unknown
      OBVIOUS
    <3>1. Meaning(c.tx, ts, unknown)[<<i, j>>] =
            Values(c.tx, ts, unknown, i, j, Meaning(c.tx, ts, unknown))
      BY <1>1, MeaningIs
    <3>2. ts[k] # "OR" /\ ts[k] # "AND" /\ ts[k] # "NOT"
      BY <1>6
    <3> QED
      BY <1>1, <1>3, <1>4, <3>1, <3>2, Zenon DEF Values
  <2>9. Compare(v, w, CompOpMap[ts[k]]) =
          IF Comparable(s, ts[k], u) THEN Outcome(Holds(s.value, ts[k], u.value))
          ELSE "exception"
    BY <2>6, ComparesRight
  <2>10. Holds(s.value, ts[k], u.value) \in BOOLEAN
    BY DEF Holds
  <2> HIDE DEF v, w, s, u
  <2>11. CASE Comparable(s, ts[k], u)
    <3>1. Meaning(c.tx, ts, BOOLEAN)[<<i, j>>] = {Holds(s.value, ts[k], u.value)}
      BY <2>8, <2>11
    <3>2. Of(c, e, n) = Outcome(Holds(s.value, ts[k], u.value))
      BY <2>7, <2>9, <2>11
    <3> QED
      BY <2>10, <3>1, <3>2 DEF IsRight, Outcome
  <2>12. CASE ~ Comparable(s, ts[k], u)
    <3>1. /\ Meaning(c.tx, ts, BOOLEAN)[<<i, j>>] = BOOLEAN
          /\ Meaning(c.tx, ts, {})[<<i, j>>] = {}
      BY <2>8, <2>12
    <3>2. Of(c, e, n) = "exception"
      BY <2>7, <2>9, <2>12
    <3> QED
      BY <3>1, <3>2 DEF IsRight
  <2> QED
    BY <2>11, <2>12
<1> QED
  BY <1>3, <1>5, <1>10, <1>11, <1>12 DEF Fact

\* NOT and a factor.
LEMMA NotFact ==
  ASSUME NEW c, NEW ts, Len(ts) \in Nat, NEW i \in 1..Len(ts), NEW j \in 1..Len(ts),
         ts[i] = "NOT", NEW a, Fact(c, ts, a, i + 1, j), FactorSpan(ts, i + 1, j)
  PROVE  Fact(c, ts, Logical("NOT", <<a>>), i, j) /\ FactorSpan(ts, i, j)
<1> DEFINE e == Logical("NOT", <<a>>)
<1>1. /\ i \in Nat /\ j \in Nat /\ i \in Int /\ j \in Int /\ i # 0
      /\ i \in 1..(Len(ts) + 1) /\ j \in 0..Len(ts)
  OBVIOUS
<1>2. i + 1 <= j
  BY DEF Fact
<1>3. i <= j /\ ~ (i > j) /\ i < j /\ i \in i..j
  BY <1>1, <1>2
<1>4. /\ OuterOp(ts, i, j, "OR") = {} /\ OuterOp(ts, i, j, "AND") = {}
      /\ Cut(ts, i, j) = i
  BY <1>1, CutAtNot DEF FactorSpan
<1>5. Balanced(ts, i, j)
  <2>1. ts[i] \notin Paren /\ Balanced(ts, i + 1, j)
    BY DEF Paren, FactorSpan
  <2> QED
    BY <1>1, <2>1, Prefixed
<1>6. First(ts, i, j) = i /\ Last(ts, i, j) = j
  <2>1. ~ InParentheses(ts, i, j)
    BY DEF InParentheses
  <2> QED
    BY <1>1, <1>3, <2>1, NoLayer
<1>7. /\ e.kind = "logical" /\ e.operator = "NOT" /\ e.operands = <<a>>
      /\ Children(e) = {a} /\ e = Logical(e.operator, e.operands)
  BY DEF Logical, Children
<1> SUFFICES Fact(c, ts, e, i, j) /\ FactorSpan(ts, i, j)
  OBVIOUS
<1> HIDE DEF e
<1>8. e.operands \in Seq(Children(e))
  <2>1. <<a>> \in Seq({a})
    OBVIOUS
  <2> QED
    BY <1>7, <2>1
<1>9. Shape(ts, e, i, j)
  <2>1. Kind(ts[i]) = "LOGIC_OP"
    BY Kinds
  <2> QED
    BY <1>3, <1>6, <1>7, <1>8, <2>1, Zenon DEF Shape
<1>10. ~ Has(ts, "AGG_FUNCTION") => WellFormed(ts)[<<i, j>>]
  <2>1. WellFormed(ts)[<<i + 1, j>>] => IsWellFormed(ts, i, j, WellFormed(ts))
    BY <1>1, <1>3, <1>4, Zenon DEF IsWellFormed
  <2> QED
    BY <1>1, <2>1, WellFormedIs DEF Fact
<1>11. ASSUME Context(c), Good(c, ts, a, i + 1, j)
       PROVE  Good(c, ts, e, i, j)
  <2> SUFFICES ASSUME NEW n \in 0..MaxDepth, Fits(c, e, n)
               PROVE  IsRight(Of(c, e, n), Meaning(c.tx, ts, {})[<<i, j>>],
                              Meaning(c.tx, ts, BOOLEAN)[<<i, j>>])
    BY DEF Good
  <2>1. n # 0 /\ a \in DOMAIN c.outcome[n - 1]
    BY <1>7 DEF Fits
  <2>2. n - 1 \in 0..MaxDepth
    BY <2>1, DepthAssumption
  <2>3. Fits(c, a, n - 1) /\ c.outcome[n - 1][a] = Of(c, a, n - 1)
    BY <1>11, <2>1, <2>2 DEF Context
  <2>4. IsRight(Of(c, a, n - 1), Meaning(c.tx, ts, {})[<<i + 1, j>>],
                Meaning(c.tx, ts, BOOLEAN)[<<i + 1, j>>])
    BY <1>11, <2>2, <2>3 DEF Good
  <2>5. Of(c, e, n) = Negated(Of(c, a, n - 1))
    <3>1. Of(c, e, n) = EvaluateLogical(e, c.outcome[n - 1])
      BY <1>7, <2>1 DEF Of, EvaluateNode
    <3> QED
      BY <1>7, <2>3, <3>1 DEF EvaluateLogical
  <2>6. \A unknown \in SUBSET BOOLEAN :
          Meaning(c.tx, ts, unknown)[<<i, j>>] =
            Opposite(Meaning(c.tx, ts, unknown)[<<i + 1, j>>])
    <3> SUFFICES ASSUME NEW unknown \in SUBSET BOOLEAN
                 PROVE  Meaning(c.tx, ts, unknown)[<<i, j>>] =
                          Opposite(Meaning(c.tx, ts, unknown)[<<i + 1, j>>])
      OBVIOUS
    <3>1. Meaning(c.tx, ts, unknown)[<<i, j>>] =
            Values(c.tx, ts, unknown, i, j, Meaning(c.tx, ts, unknown))
      BY <1>1, MeaningIs
    <3>2. ts[i] # "OR" /\ ts[i] # "AND"
      OBVIOUS
    <3> QED
      BY <1>1, <1>3, <1>4, <3>1, <3>2, Zenon DEF Values
  <2>7. {} \in SUBSET BOOLEAN /\ BOOLEAN \in SUBSET BOOLEAN
    OBVIOUS
  <2>8. /\ Meaning(c.tx, ts, {})[<<i, j>>] = Opposite(Meaning(c.tx, ts, {})[<<i + 1, j>>])
        /\ Meaning(c.tx, ts, BOOLEAN)[<<i, j>>] =
             Opposite(Meaning(c.tx, ts, BOOLEAN)[<<i + 1, j>>])
    BY <2>6, <2>7, Zenon
  <2>9. IsRight(Negated(Of(c, a, n - 1)), Opposite(Meaning(c.tx, ts, {})[<<i + 1, j>>]),
                Opposite(Meaning(c.tx, ts, BOOLEAN)[<<i + 1, j>>]))
    BY <2>4, RightOutcomes
  <2> QED
    BY <2>5, <2>8, <2>9
<1> QED
  BY <1>3, <1>4, <1>5, <1>9, <1>10, <1>11 DEF Fact, FactorSpan

Neutral(op) == IF op = "AND" THEN "true" ELSE "false"

\* The outcome of a chain is that of the part on the left unless that is
\* neutral: of a chain that is made longer, and of one that is begun.
LEMMA ChainOutcome ==
  ASSUME NEW c, Context(c), NEW op \in {"AND", "OR"}, NEW a, NEW b,
         a.kind = "logical" =>
           a = Logical(a.operator, a.operands) /\ a.operands \in Seq(Children(a)),
         NEW n \in 0..MaxDepth, Fits(c, BuildLogical(a, op, b), n)
  PROVE  /\ n - 1 \in 0..MaxDepth /\ Fits(c, b, n - 1)
         /\ \E m \in {n - 1, n} :
              /\ Fits(c, a, m)
              /\ Of(c, BuildLogical(a, op, b), n) =
                   IF Of(c, a, m) # Neutral(op) THEN Of(c, a, m) ELSE Of(c, b, n - 1)
<1> DEFINE e == BuildLogical(a, op, b)
           below == c.outcome[n - 1]
<1>1. /\ e.kind = "logical" /\ e.operator = op /\ e = Logical(op, e.operands)
      /\ Children(e) = {e.operands[i] : i \in DOMAIN e.operands}
  BY DEF BuildLogical, Logical, Children
<1>2. Len(e.operands) \in Nat /\ Len(e.operands) # 0 /\ DOMAIN e.operands = 1..Len(e.operands)
      /\ e.operands[Len(e.operands)] = b
  <2>1. CASE a.kind = "logical" /\ a.operator = op
    <3>1. e.operands = Append(a.operands, b)
      BY <2>1 DEF BuildLogical, Logical
    <3>2. a.operands \in Seq(Children(a))
      BY <2>1
    <3> HIDE DEF e
    <3> QED
      BY <3>1, <3>2
  <2>2. CASE ~ (a.kind = "logical" /\ a.operator = op)
    <3>1. e.operands = <<a, b>>
      BY <2>2 DEF BuildLogical, Logical
    <3> QED
      BY <3>1
  <2> QED
    BY <2>1, <2>2
<1> HIDE DEF e
<1>3. b \in Children(e)
  BY <1>1, <1>2
<1>4. /\ InSchema(e) /\ n # 0 /\ \A x \in Children(e) : x \in DOMAIN below
  BY <1>3 DEF Fits, e
<1>5. n - 1 \in 0..MaxDepth
  BY <1>4, DepthAssumption
<1>6. \A x \in Children(e) : Fits(c, x, n - 1) /\ below[x] = Of(c, x, n - 1)
  BY <1>4, <1>5 DEF Context
<1>7. ASSUME NEW s
      PROVE  /\ Of(c, Logical(op, s), n) =
                  FirstToDecide([i \in DOMAIN s |-> below[s[i]]], Neutral(op))
  <2>1. Of(c, Logical(op, s), n) = EvaluateLogical(Logical(op, s), below)
    BY <1>4 DEF Of, EvaluateNode, Logical
  <2>2. Logical(op, s).operands = s /\ Logical(op, s).operator = op
    BY DEF Logical
  <2> QED
    BY <2>1, <2>2 DEF EvaluateLogical, Neutral
<1>8. CASE a.kind = "logical" /\ a.operator = op
  <2> DEFINE m == Len(a.operands)
             s == [i \in DOMAIN a.operands |-> below[a.operands[i]]]
             t == [i \in DOMAIN e.operands |-> below[e.operands[i]]]
  <2>1. e.operands = Append(a.operands, b)
    BY <1>8 DEF BuildLogical, Logical, e
  <2>2. a.operands \in Seq(Children(a)) /\ a = Logical(op, a.operands)
    BY <1>8
  <2>3. /\ m \in Nat /\ DOMAIN a.operands = 1..m /\ DOMAIN e.operands = 1..(m + 1)
        /\ \A i \in 1..m : e.operands[i] = a.operands[i]
        /\ e.operands[m + 1] = b
    BY <2>1, <2>2
  <2> HIDE DEF m
  <2>4. Fits(c, a, n)
    <3>1. Children(a) = {a.operands[i] : i \in DOMAIN a.operands}
      BY <1>8 DEF Children
    <3>2. \A i \in 1..m : i \in 1..(m + 1)
      BY <2>3
    <3>3. \A x \in Children(a) : x \in Children(e)
      BY <1>1, <2>3, <3>1, <3>2
    <3>4. InSchema(a)
      BY <1>8 DEF InSchema
    <3> QED
      BY <1>4, <3>3, <3>4 DEF Fits
  <2>5. /\ DOMAIN s = 1..m /\ DOMAIN t = 1..(m + 1)
        /\ \A i \in 1..m : t[i] = s[i]
        /\ t[m + 1] = below[b]
    BY <2>3
  <2>6. Of(c, a, n) = FirstToDecide(s, Neutral(op)) /\ Of(c, e, n) = FirstToDecide(t, Neutral(op))
    BY <1>1, <1>7, <2>2
  <2> HIDE DEF s, t
  <2>7. FirstToDecide(t, Neutral(op)) =
          IF FirstToDecide(s, Neutral(op)) # Neutral(op) THEN FirstToDecide(s, Neutral(op))
          ELSE t[m + 1]
    BY <2>3, <2>5, OneOperandMore
  <2>8. below[b] = Of(c, b, n - 1) /\ Fits(c, b, n - 1)
    BY <1>3, <1>6
  <2> QED
    BY <1>5, <2>4, <2>5, <2>6, <2>7, <2>8 DEF e
<1>9. CASE ~ (a.kind = "logical" /\ a.operator = op)
  <2> DEFINE t == [i \in DOMAIN e.operands |-> below[e.operands[i]]]
             s == [i \in 1..1 |-> below[a]]
             r == [i \in 1..0 |-> below[a]]
  <2>1. e.operands = <<a, b>>
    BY <1>9 DEF BuildLogical, Logical, e
  <2>2. a \in Children(e)
    BY <1>1, <2>1
  <2>3. PICK none \in Nat, one \in Nat : none = 0 /\ one = 1 /\ one = none + 1
    OBVIOUS
  <2>4. /\ DOMAIN t = 1..(one + 1) /\ DOMAIN s = 1..one /\ DOMAIN s = 1..(none + 1)
        /\ DOMAIN r = 1..none
        /\ \A i \in 1..one : t[i] = s[i]
        /\ \A i \in 1..none : s[i] = r[i]
        /\ t[one + 1] = below[b] /\ s[none + 1] = below[a]
    BY <2>1, <2>3
  <2>5. Of(c, e, n) = FirstToDecide(t, Neutral(op))
    BY <1>1, <1>7
  <2>6. FirstToDecide(r, Neutral(op)) = Neutral(op)
    BY DEF FirstToDecide
  <2> HIDE DEF s, t, r
  <2>7. /\ FirstToDecide(t, Neutral(op)) =
             IF FirstToDecide(s, Neutral(op)) # Neutral(op) THEN FirstToDecide(s, Neutral(op))
             ELSE t[one + 1]
        /\ FirstToDecide(s, Neutral(op)) =
             IF FirstToDecide(r, Neutral(op)) # Neutral(op) THEN FirstToDecide(r, Neutral(op))
             ELSE s[none + 1]
    <3> HIDE <2>3
    <3> QED
      BY <2>4, OneOperandMore
  <2>8. /\ below[b] = Of(c, b, n - 1) /\ Fits(c, b, n - 1)
        /\ below[a] = Of(c, a, n - 1) /\ Fits(c, a, n - 1)
    BY <1>3, <1>6, <2>2
  <2> QED
    BY <1>5, <2>4, <2>5, <2>6, <2>7, <2>8 DEF e
<1> QED
  BY <1>8, <1>9

\* A chain, cut at its last operator.
LEMMA ChainFact ==
  ASSUME NEW c, NEW ts, Len(ts) \in Nat, NEW i \in 1..Len(ts), NEW k \in 1..Len(ts),
         NEW j \in 1..Len(ts), NEW op \in {"AND", "OR"}, ts[k] = op,
         Cut(ts, i, j) = k, Depth(ts, i, k) = 0, NEW a, NEW b,
         Fact(c, ts, a, i, k - 1), Fact(c, ts, b, k + 1, j)
  PROVE  Fact(c, ts, BuildLogical(a, op, b), i, j)
<1> DEFINE e == BuildLogical(a, op, b)
           Joint(X, Y) == IF op = "AND" THEN Both(X, Y) ELSE Either(X, Y)
<1>1. /\ i \in Nat /\ k \in Nat /\ j \in Nat /\ i \in Int /\ k \in Int /\ j \in Int
      /\ k # 0 /\ i \in 1..(Len(ts) + 1) /\ j \in 0..Len(ts)
  OBVIOUS
<1>2. i <= k - 1 /\ k + 1 <= j
  BY DEF Fact
<1>3. i <= j /\ ~ (i > j) /\ i < j /\ k \in i..j /\ k \in i..(j - 1)
  BY <1>1, <1>2
<1>4. First(ts, i, j) = i /\ Last(ts, i, j) = j
  <2>1. ~ InParentheses(ts, i, j)
    BY <1>3 DEF InParentheses
  <2> QED
    BY <1>1, <1>3, <2>1, NoLayer
<1>5. a.kind = "logical" =>
        a = Logical(a.operator, a.operands) /\ a.operands \in Seq(Children(a))
  <2>1. Shape(ts, a, i, k - 1)
    BY DEF Fact
  <2>2. "logical" \notin {"literal", "field", "aggregate", "comparison"}
    OBVIOUS
  <2> QED
    BY <2>1, <2>2, Zenon DEF Shape
<1>6. /\ e.kind = "logical" /\ e = Logical(e.operator, e.operands)
      /\ e.operands \in Seq(Children(e))
  <2>1. e.kind = "logical" /\ e = Logical(e.operator, e.operands)
        /\ Children(e) = {e.operands[x] : x \in DOMAIN e.operands}
    BY <1>5 DEF BuildLogical, Logical, Children
  <2>2. \E S : e.operands \in Seq(S)
    <3>1. CASE a.kind = "logical" /\ a.operator = op
      <4>1. e.operands = Append(a.operands, b)
        BY <1>5, <3>1 DEF BuildLogical, Logical
      <4>2. a.operands \in Seq(Children(a) \cup {b})
        <5>1. a.operands \in Seq(Children(a))
          BY <1>5, <3>1
        <5> QED
          BY <5>1
      <4>3. Append(a.operands, b) \in Seq(Children(a) \cup {b})
        BY <4>2
      <4> QED
        BY <4>1, <4>3, Zenon
    <3>2. CASE ~ (a.kind = "logical" /\ a.operator = op)
      <4>1. e.operands = <<a, b>>
        BY <3>2 DEF BuildLogical, Logical
      <4>2. <<a, b>> \in Seq({a, b})
        OBVIOUS
      <4> QED
        BY <4>1, <4>2, Zenon
    <3> QED
      BY <3>1, <3>2
  <2> HIDE DEF e
  <2>3. PICK S : e.operands \in Seq(S)
    BY <2>2
  <2>4. Len(e.operands) \in Nat /\ e.operands \in [1..Len(e.operands) -> S]
    BY <2>3
  <2>5. \A x \in 1..Len(e.operands) : e.operands[x] \in Children(e)
    BY <2>1, <2>4
  <2>6. e.operands \in [1..Len(e.operands) -> Children(e)]
    BY <2>4, <2>5
  <2>7. e.operands \in Seq(Children(e))
    BY <2>4, <2>6
  <2> QED
    BY <2>1, <2>7
<1>7. Shape(ts, e, i, j)
  <2> HIDE DEF e
  <2>1. Kind(ts[k]) = "LOGIC_OP"
    BY Kinds
  <2> QED
    BY <1>3, <1>4, <1>6, <2>1, Zenon DEF Shape
<1>8. ~ Has(ts, "AGG_FUNCTION") => WellFormed(ts)[<<i, j>>]
  <2>1. WellFormed(ts)[<<i, k - 1>>] /\ WellFormed(ts)[<<k + 1, j>>] =>
          IsWellFormed(ts, i, j, WellFormed(ts))
    <3>1. ts[k] # "NOT" /\ Kind(ts[k]) # "COMP_OP"
      BY Kinds
    <3> QED
      BY <1>1, <1>3, <3>1, Zenon DEF IsWellFormed
  <2> QED
    BY <1>1, <2>1, WellFormedIs DEF Fact
<1>10. \A unknown \in SUBSET BOOLEAN :
         Meaning(c.tx, ts, unknown)[<<i, j>>] =
           Values(c.tx, ts, unknown, i, j, Meaning(c.tx, ts, unknown))
  BY <1>1, MeaningIs
<1>9. ASSUME Context(c), Good(c, ts, a, i, k - 1), Good(c, ts, b, k + 1, j)
      PROVE  Good(c, ts, e, i, j)
  <2> SUFFICES ASSUME NEW n \in 0..MaxDepth, Fits(c, e, n)
               PROVE  IsRight(Of(c, e, n), Meaning(c.tx, ts, {})[<<i, j>>],
                              Meaning(c.tx, ts, BOOLEAN)[<<i, j>>])
    BY DEF Good
  <2>1. /\ n - 1 \in 0..MaxDepth /\ Fits(c, b, n - 1)
        /\ \E m \in {n - 1, n} :
             /\ Fits(c, a, m)
             /\ Of(c, e, n) =
                  IF Of(c, a, m) # Neutral(op) THEN Of(c, a, m) ELSE Of(c, b, n - 1)
    BY <1>5, <1>9, ChainOutcome
  <2> HIDE DEF e
  <2>2. PICK m \in {n - 1, n} :
             /\ Fits(c, a, m)
             /\ Of(c, e, n) =
                  IF Of(c, a, m) # Neutral(op) THEN Of(c, a, m) ELSE Of(c, b, n - 1)
    BY <2>1
  <2>3. m \in 0..MaxDepth
    BY <2>1
  <2> DEFINE X == Meaning(c.tx, ts, {})[<<i, k - 1>>]
             Y == Meaning(c.tx, ts, BOOLEAN)[<<i, k - 1>>]
             U == Meaning(c.tx, ts, {})[<<k + 1, j>>]
             V == Meaning(c.tx, ts, BOOLEAN)[<<k + 1, j>>]
  <2>4. IsRight(Of(c, a, m), X, Y)
    BY <1>9, <2>2, <2>3 DEF Good
  <2>5. IsRight(Of(c, b, n - 1), U, V)
    BY <1>9, <2>1 DEF Good
  <2>6. \A unknown \in SUBSET BOOLEAN :
          Meaning(c.tx, ts, unknown)[<<i, j>>] =
            Joint(Meaning(c.tx, ts, unknown)[<<i, k - 1>>],
                  Meaning(c.tx, ts, unknown)[<<k + 1, j>>])
    <3> SUFFICES ASSUME NEW unknown \in SUBSET BOOLEAN
                 PROVE  Meaning(c.tx, ts, unknown)[<<i, j>>] =
                          Joint(Meaning(c.tx, ts, unknown)[<<i, k - 1>>],
                                Meaning(c.tx, ts, unknown)[<<k + 1, j>>])
      OBVIOUS
    <3>1. Meaning(c.tx, ts, unknown)[<<i, j>>] =
            Values(c.tx, ts, unknown, i, j, Meaning(c.tx, ts, unknown))
      BY <1>10
    <3>2. op = "AND" \/ (op = "OR" /\ op # "AND")
      OBVIOUS
    <3>3. \/ ts[k] = "OR" /\ ts[k] # "AND"
          \/ ts[k] = "AND" /\ ts[k] # "OR"
      OBVIOUS
    <3> QED
      BY <1>1, <1>3, <3>1, <3>2, <3>3, Zenon DEF Values
  <2>7. /\ Meaning(c.tx, ts, {})[<<i, j>>] = Joint(X, U)
        /\ Meaning(c.tx, ts, BOOLEAN)[<<i, j>>] = Joint(Y, V)
    <3>1. {} \in SUBSET BOOLEAN /\ BOOLEAN \in SUBSET BOOLEAN
      OBVIOUS
    <3> HIDE DEF Joint
    <3> QED
      BY <2>6, <3>1, Zenon
  <2> HIDE DEF X, Y, U, V
  <2>8. /\ IsRight(IF Of(c, a, m) # "true" THEN Of(c, a, m) ELSE Of(c, b, n - 1),
                   Both(X, U), Both(Y, V))
        /\ IsRight(IF Of(c, a, m) # "false" THEN Of(c, a, m) ELSE Of(c, b, n - 1),
                   Either(X, U), Either(Y, V))
    BY <2>4, <2>5, RightOutcomes
  <2> QED
    BY <2>2, <2>7, <2>8 DEF Neutral
<1> QED
  BY <1>3, <1>7, <1>8, <1>9 DEF Fact

\* What the loops have on the left of their operator, and on the right.
LeftSpan(ts, op, i, j) == IF op = "AND" THEN TermSpan(ts, i, j) ELSE Balanced(ts, i, j)
RightSpan(ts, op, i, j) == IF op = "AND" THEN FactorSpan(ts, i, j) ELSE TermSpan(ts, i, j)

\* One operator more.
LEMMA OperatorSpan ==
  ASSUME NEW ts, NEW i \in Nat, NEW k \in Nat, NEW j \in Nat,
         NEW op \in {"AND", "OR"}, ts[k] = op,
         LeftSpan(ts, op, i, k - 1), RightSpan(ts, op, k + 1, j)
  PROVE  LeftSpan(ts, op, i, j) /\ Cut(ts, i, j) = k /\ Depth(ts, i, k) = 0
<1>1. i \in Int /\ k \in Int /\ j \in Int
  OBVIOUS
<1>2. ts[k] \notin Paren
  BY DEF Paren
<1>3. Balanced(ts, i, k - 1) /\ Balanced(ts, k + 1, j)
  BY DEF LeftSpan, RightSpan, TermSpan, FactorSpan
<1>4. Balanced(ts, i, j) /\ Depth(ts, i, k) = 0
  BY <1>1, <1>2, <1>3, Joined
<1>5. CASE op = "OR"
  <2>1. OuterOp(ts, k + 1, j, "OR") = {}
    BY <1>5 DEF RightSpan, TermSpan
  <2>2. Cut(ts, i, j) = k
    BY <1>1, <1>3, <1>5, <2>1, CutAtOr
  <2> QED
    BY <1>4, <1>5, <2>2 DEF LeftSpan
<1>6. CASE op = "AND"
  <2>1. /\ OuterOp(ts, i, k - 1, "OR") = {} /\ OuterOp(ts, k + 1, j, "OR") = {}
        /\ OuterOp(ts, k + 1, j, "AND") = {}
    BY <1>6 DEF LeftSpan, RightSpan, TermSpan, FactorSpan
  <2>2. Cut(ts, i, j) = k /\ OuterOp(ts, i, j, "OR") = {}
    BY <1>1, <1>3, <1>6, <2>1, CutAtAnd
  <2> QED
    BY <1>4, <1>6, <2>2 DEF LeftSpan, TermSpan
<1> QED
  BY <1>5, <1>6

-----------------------------------------------------------------------------
(* Soundness: what the methods return                                      *)

SoundAtom(c, ts, r, p) ==
  r.ok => Fact(c, ts, r.node, p, r.pos - 1) /\ AtomSpan(ts, p, r.pos - 1)
SoundComparison(c, ts, r, p) ==
  r.ok => Fact(c, ts, r.node, p, r.pos - 1) /\ ComparisonSpan(ts, p, r.pos - 1)
SoundFactor(c, ts, r, p) ==
  r.ok => Fact(c, ts, r.node, p, r.pos - 1) /\ FactorSpan(ts, p, r.pos - 1)
SoundTerm(c, ts, r, p) ==
  r.ok => Fact(c, ts, r.node, p, r.pos - 1) /\ TermSpan(ts, p, r.pos - 1)
SoundExpression(c, ts, r, p) ==
  r.ok => Fact(c, ts, r.node, p, r.pos - 1) /\ Balanced(ts, p, r.pos - 1)

SoundRow(c, ts, row, p) ==
  /\ SoundAtom(c, ts, row.atom, p)
  /\ SoundComparison(c, ts, row.comparison, p)
  /\ SoundFactor(c, ts, row.factor, p)
  /\ SoundTerm(c, ts, row.term, p)
  /\ SoundExpression(c, ts, row.expression, p)

SoundLeft(c, ts, op, r, p) ==
  r.ok => Fact(c, ts, r.node, p, r.pos - 1) /\ LeftSpan(ts, op, p, r.pos - 1)
SoundRight(c, ts, op, r, p) ==
  r.ok => Fact(c, ts, r.node, p, r.pos - 1) /\ RightSpan(ts, op, p, r.pos - 1)

\* The rounds of a loop.
LEMMA SoundRounds ==
  ASSUME NEW c, NEW ts, Len(ts) \in Nat, NEW op \in {"AND", "OR"}, NEW first, NEW operand,
         NEW p \in 1..Len(ts), InRange(ts, first, p), OperandsInRange(ts, operand),
         \A n \in 0..Len(ts) : InRange(ts, Rounds(ts, op, first, operand)[n], p),
         SoundLeft(c, ts, op, first, p),
         \A q \in (p + 1)..(Len(ts) + 1) : SoundRight(c, ts, op, operand[q], q)
  PROVE  \A n \in 0..Len(ts) : SoundLeft(c, ts, op, Rounds(ts, op, first, operand)[n], p)
<1> DEFINE after == Rounds(ts, op, first, operand)
           Q == {n \in Nat : n <= Len(ts) => SoundLeft(c, ts, op, after[n], p)}
<1>1. /\ after[0] = first
      /\ \A n \in 1..Len(ts) : after[n] = Round(ts, op, operand, after[n - 1])
  BY RoundsAre
<1>2. \A n \in 0..Len(ts) : InRange(ts, after[n], p)
  OBVIOUS
<1> SUFFICES \A n \in 0..Len(ts) : SoundLeft(c, ts, op, after[n], p)
  OBVIOUS
<1> HIDE DEF after
<1>3. 0 \in Q
  BY <1>1
<1>4. ASSUME NEW n \in Nat, n \in Q
      PROVE  n + 1 \in Q
  <2> SUFFICES ASSUME n + 1 <= Len(ts)
               PROVE  SoundLeft(c, ts, op, after[n + 1], p)
    OBVIOUS
  <2>1. n \in 0..Len(ts) /\ n <= Len(ts) /\ n + 1 \in 1..Len(ts) /\ (n + 1) - 1 = n
    OBVIOUS
  <2> DEFINE r == after[n]
             k == r.pos
             s == operand[k + 1]
  <2>2. after[n + 1] = Round(ts, op, operand, r)
    BY <1>1, <2>1
  <2>3. SoundLeft(c, ts, op, r, p) /\ InRange(ts, r, p)
    BY <1>2, <1>4, <2>1
  <2> HIDE DEF r
  <2>4. CASE ~ r.ok
    <3>1. after[n + 1] = Failed
      BY <2>2, <2>4, RoundIs
    <3> QED
      BY <3>1, Results DEF SoundLeft
  <2>5. CASE r.ok /\ ~ PeekLogical(ts, k, op)
    <3>1. after[n + 1] = Parsed(r.node, r.pos)
      BY <2>2, <2>5, RoundIs
    <3>2. after[n + 1].node = r.node /\ after[n + 1].pos = r.pos
      BY <3>1, Results
    <3> QED
      BY <2>3, <2>5, <3>2, Zenon DEF SoundLeft
  <2>6. CASE r.ok /\ PeekLogical(ts, k, op)
    <3>1. k \in 1..Len(ts) /\ ts[k] = op /\ k + 1 \in (p + 1)..(Len(ts) + 1)
          /\ k + 1 \in 1..(Len(ts) + 1)
      BY <2>3, <2>6, Results DEF InRange, PeekLogical
    <3>2. SoundRight(c, ts, op, s, k + 1) /\ InRange(ts, s, k + 1)
      BY <3>1 DEF OperandsInRange
    <3> HIDE DEF s, k
    <3>3. CASE ~ s.ok
      <4>1. after[n + 1] = Failed
        BY <2>2, <2>6, <3>3, RoundIs DEF k, s
      <4> QED
        BY <4>1, Results DEF SoundLeft
    <3>4. CASE s.ok
      <4>1. after[n + 1] = Parsed(BuildLogical(r.node, op, s.node), s.pos)
        BY <2>2, <2>6, <3>4, RoundIs DEF k, s
      <4>2. s.pos - 1 \in 1..Len(ts)
        <5>1. s.pos \in ((k + 1) + 1)..(Len(ts) + 1)
          BY <3>2, <3>4, Results DEF InRange
        <5> QED
          BY <3>1, <5>1
      <4>3. Fact(c, ts, r.node, p, k - 1) /\ LeftSpan(ts, op, p, k - 1)
        BY <2>3, <2>6 DEF SoundLeft, k
      <4>4. Fact(c, ts, s.node, k + 1, s.pos - 1) /\ RightSpan(ts, op, k + 1, s.pos - 1)
        BY <3>2, <3>4 DEF SoundRight
      <4>5. /\ Fact(c, ts, BuildLogical(r.node, op, s.node), p, s.pos - 1)
            /\ LeftSpan(ts, op, p, s.pos - 1)
        <5> DEFINE j == s.pos - 1
                   left == r.node
                   right == s.node
        <5>1. /\ j \in 1..Len(ts) /\ k \in 1..Len(ts) /\ ts[k] = op
              /\ Fact(c, ts, left, p, k - 1) /\ LeftSpan(ts, op, p, k - 1)
              /\ Fact(c, ts, right, k + 1, j) /\ RightSpan(ts, op, k + 1, j)
          BY <3>1, <4>2, <4>3, <4>4
        <5> HIDE DEF j, left, right
        <5>2. p \in Nat /\ k \in Nat /\ j \in Nat
          BY <5>1
        <5>3. LeftSpan(ts, op, p, j) /\ Cut(ts, p, j) = k /\ Depth(ts, p, k) = 0
          BY <5>1, <5>2, OperatorSpan
        <5>4. Fact(c, ts, BuildLogical(left, op, right), p, j)
          BY <5>1, <5>3, ChainFact, Zenon
        <5> QED
          BY <5>3, <5>4 DEF j, left, right
      <4> QED
        BY <4>1, <4>5, Results DEF SoundLeft
    <3> QED
      BY <3>3, <3>4
  <2> QED
    BY <2>4, <2>5, <2>6
<1>5. \A n \in Nat : n \in Q
  <2> HIDE DEF Q
  <2> QED
    BY <1>3, <1>4, AllNaturals
<1> QED
  BY <1>5

\* What a text is.
Text(ts) == Len(ts) \in Nat /\ DOMAIN ts = 1..Len(ts)

\* A position a method leaves.
LEMMA Leaves ==
  ASSUME NEW ts, Len(ts) \in Nat, NEW p \in Nat, NEW r, InRange(ts, r, p), r.ok
  PROVE  /\ r.pos \in Nat /\ r.pos \in (p + 1)..(Len(ts) + 1)
         /\ r.pos - 1 \in p..Len(ts) /\ p <= Len(ts)
BY Results DEF InRange

\* The kinds of tokens that are one token.
LEMMA PeekedTokens ==
  ASSUME NEW ts, NEW p
  PROVE  /\ Peek(ts, p) = "LPAREN" => ts[p] = "("
         /\ Peek(ts, p) = "RPAREN" => ts[p] = ")"
         /\ Peek(ts, p) = "WILDCARD" => ts[p] = "*"
         /\ Peek(ts, p) # "END" => p <= Len(ts) /\ Kind(ts[p]) = Peek(ts, p)
BY Kinds, Peeks

\* An atom.
LEMMA AtomSound ==
  ASSUME NEW c, NEW ts, Text(ts), NEW l, Rows(ts, l), NEW p \in 1..Len(ts),
         \A q \in (p + 1)..(Len(ts) + 1) : SoundRow(c, ts, l[q], q)
  PROVE  SoundAtom(c, ts, l[p].atom, p)
<1> DEFINE r == l[p].atom
           o == ParseOperand(ts, p + 2, l)
           x == l[p + 1].expression
<1> SUFFICES SoundAtom(c, ts, r, p)
  OBVIOUS
<1>1. /\ Len(ts) \in Nat /\ p \in Nat /\ p + 1 \in Nat /\ p + 1 \in 1..(Len(ts) + 1)
      /\ p + 1 \in (p + 1)..(Len(ts) + 1)
  BY DEF Text
<1>2. AtomCases(ts, p, o, x, r)
  BY DEF Rows
<1>3. /\ InRange(ts, x, p + 1) /\ SoundExpression(c, ts, x, p + 1)
  BY <1>1 DEF Rows, TableInRange, SoundRow
<1>4. OperandCases(ts, p + 2, l, o)
  BY OperandIs
<1> HIDE DEF r, o, x
<1>5. CASE r = Failed
  BY <1>5, Results DEF SoundAtom
<1>6. CASE \/ Kind(ts[p]) \in LiteralKind /\ r = Parsed(AtomLiteral(ts[p]), p + 1)
           \/ Kind(ts[p]) = "FIELD" /\ r = Parsed(FieldNode(ts[p]), p + 1)
  <2>1. PICK e : /\ r = Parsed(e, p + 1)
                 /\ \/ Kind(ts[p]) \in LiteralKind /\ e = AtomLiteral(ts[p])
                    \/ Kind(ts[p]) = "FIELD" /\ e = FieldNode(ts[p])
    BY <1>6
  <2>2. Fact(c, ts, e, p, p) /\ AtomSpan(ts, p, p)
    BY <1>1, <2>1, TokenFact
  <2>3. r.node = e /\ r.pos - 1 = p
    BY <1>1, <2>1, Results
  <2> QED
    BY <2>2, <2>3 DEF SoundAtom
<1>7. CASE /\ Peek(ts, p) = "AGG_FUNCTION" /\ Peek(ts, p + 1) = "LPAREN"
           /\ o.ok /\ Peek(ts, o.pos) = "RPAREN"
           /\ r = Parsed(Aggregate(ts[p], o.node), o.pos + 1)
  <2>1. Kind(ts[p]) = "AGG_FUNCTION" /\ ts[p + 1] = "(" /\ p + 1 <= Len(ts)
    BY <1>7, PeekedTokens
  <2>2. Has(ts, "AGG_FUNCTION")
    BY <2>1 DEF Has, Text
  <2>3. ts[o.pos] = ")" /\ o.pos <= Len(ts)
    BY <1>7, PeekedTokens
  <2>4. p + 2 \in Nat /\ p + 2 \in (p + 1)..(Len(ts) + 1) /\ p + 2 \in 1..(Len(ts) + 1)
    BY <1>1, <2>1
  <2>5. /\ o.pos \in Nat /\ p + 2 <= o.pos - 1
        /\ \/ o.pos = p + 3 /\ ts[p + 2] = "*"
           \/ /\ Balanced(ts, p + 2, o.pos - 1)
              /\ IsToken(ts, p + 2, o.pos - 1, {"FIELD"})
    <3>1. CASE Peek(ts, p + 2) = "WILDCARD" /\ o = Parsed(Wildcard, (p + 2) + 1)
      <4>1. o.pos = p + 3
        BY <1>1, <3>1, Results
      <4>2. ts[p + 2] = "*"
        BY <3>1, PeekedTokens
      <4> QED
        BY <1>1, <4>1, <4>2
    <3>2. CASE ~ (Peek(ts, p + 2) = "WILDCARD" /\ o = Parsed(Wildcard, (p + 2) + 1))
      <4> DEFINE a == l[p + 2].atom
      <4>1. a.ok /\ a.node.kind = "field" /\ o = Parsed(a.node, a.pos)
        BY <1>4, <1>7, <3>2, Results DEF OperandCases
      <4>2. o.pos = a.pos
        BY <4>1, Results
      <4>3. InRange(ts, a, p + 2) /\ SoundAtom(c, ts, a, p + 2)
        BY <2>4 DEF Rows, TableInRange, SoundRow
      <4> HIDE DEF a
      <4>4. Shape(ts, a.node, p + 2, a.pos - 1) /\ Balanced(ts, p + 2, a.pos - 1)
        BY <4>1, <4>3 DEF SoundAtom, Fact, AtomSpan
      <4>5. p + 2 <= a.pos - 1 /\ a.pos \in Nat
        BY <1>1, <2>4, <4>1, <4>3, Leaves
      <4>6. IsToken(ts, p + 2, a.pos - 1, {"FIELD"})
        <5>1. "field" \notin {"literal", "aggregate", "comparison", "logical"}
          OBVIOUS
        <5> QED
          BY <4>1, <4>4, <4>5, <5>1, Zenon DEF Shape, IsToken
      <4> QED
        BY <4>2, <4>4, <4>5, <4>6
    <3> QED
      BY <3>1, <3>2
  <2> DEFINE j == o.pos
  <2>6. j \in 1..Len(ts)
    BY <1>1, <2>3, <2>5
  <2>7. \/ j = p + 3 /\ ts[p + 2] = "*"
        \/ /\ p + 2 <= j - 1 /\ Balanced(ts, p + 2, j - 1)
           /\ IsToken(ts, p + 2, j - 1, {"FIELD"})
    BY <2>5
  <2>8. ts[j] = ")"
    BY <2>3
  <2>9. r.node = Aggregate(ts[p], o.node) /\ r.pos - 1 = j
    <3>1. r.node = Aggregate(ts[p], o.node) /\ r.pos = o.pos + 1
      BY <1>7, Results
    <3> QED
      BY <2>5, <3>1
  <2> HIDE DEF j
  <2>10. Fact(c, ts, Aggregate(ts[p], o.node), p, j) /\ AtomSpan(ts, p, j)
    BY <1>1, <2>1, <2>2, <2>6, <2>7, <2>8, AggregateFact, Zenon
  <2> QED
    BY <2>9, <2>10 DEF SoundAtom
<1>8. CASE /\ Peek(ts, p) = "LPAREN" /\ x.ok /\ Peek(ts, x.pos) = "RPAREN"
           /\ r = Parsed(x.node, x.pos + 1)
  <2> DEFINE j == x.pos
             e == x.node
  <2>1. ts[p] = "(" /\ ts[j] = ")" /\ j <= Len(ts)
    BY <1>8, PeekedTokens
  <2>2. j \in 1..Len(ts)
    <3>1. x.pos \in (p + 1 + 1)..(Len(ts) + 1)
      BY <1>1, <1>3, <1>8, Leaves
    <3> QED
      BY <1>1, <2>1, <3>1
  <2>3. Fact(c, ts, e, p + 1, j - 1) /\ Balanced(ts, p + 1, j - 1)
    BY <1>3, <1>8 DEF SoundExpression
  <2>4. r.node = e /\ r.pos - 1 = j
    <3>1. r.node = e /\ r.pos = j + 1
      BY <1>8, Results
    <3> QED
      BY <2>2, <3>1
  <2> HIDE DEF j, e
  <2>5. Fact(c, ts, e, p, j) /\ AtomSpan(ts, p, j)
    BY <1>1, <2>1, <2>2, <2>3, ParenFact, Zenon
  <2> QED
    BY <2>4, <2>5 DEF SoundAtom
<1>9. Peek(ts, p) = Kind(ts[p])
  BY DEF Peek
<1> QED
  BY <1>2, <1>5, <1>6, <1>7, <1>8, <1>9, Zenon DEF AtomCases

\* A comparison, or an atom.
LEMMA ComparisonSound ==
  ASSUME NEW c, NEW ts, Text(ts), NEW l, Rows(ts, l), NEW p \in 1..Len(ts),
         \A q \in (p + 1)..(Len(ts) + 1) : SoundRow(c, ts, l[q], q),
         SoundAtom(c, ts, l[p].atom, p)
  PROVE  SoundComparison(c, ts, l[p].comparison, p)
<1> DEFINE r == l[p].comparison
           left == l[p].atom
           k == left.pos
           right == l[k + 1].atom
           a == left.node
           b == right.node
           j == right.pos - 1
<1> SUFFICES SoundComparison(c, ts, r, p)
  OBVIOUS
<1>1. ComparisonCases(ts, left, right, r)
  BY DEF Rows
<1>2. InRange(ts, left, p) /\ Len(ts) \in Nat /\ p \in Nat /\ SoundAtom(c, ts, left, p)
  <2>1. p \in 1..(Len(ts) + 1)
    BY DEF Text
  <2> QED
    BY <2>1 DEF Rows, TableInRange, Text
<1>3. left.ok /\ Peek(ts, k) = "COMP_OP" =>
        /\ k \in 1..Len(ts) /\ Kind(ts[k]) = "COMP_OP"
        /\ InRange(ts, right, k + 1) /\ SoundAtom(c, ts, right, k + 1)
  <2> SUFFICES ASSUME left.ok, Peek(ts, k) = "COMP_OP"
               PROVE  /\ k \in 1..Len(ts) /\ Kind(ts[k]) = "COMP_OP"
                      /\ InRange(ts, right, k + 1) /\ SoundAtom(c, ts, right, k + 1)
    OBVIOUS
  <2>1. k <= Len(ts) /\ Kind(ts[k]) = "COMP_OP"
    BY PeekedTokens
  <2>2. k \in Nat /\ k \in (p + 1)..(Len(ts) + 1)
    BY <1>2, Leaves
  <2>3. k \in 1..Len(ts) /\ k + 1 \in (p + 1)..(Len(ts) + 1) /\ k + 1 \in 1..(Len(ts) + 1)
    BY <1>2, <2>1, <2>2
  <2> HIDE DEF k
  <2> QED
    BY <2>1, <2>3 DEF Rows, TableInRange, SoundRow
<1> HIDE DEF r, right
<1>4. CASE r = Failed
  BY <1>4, Results DEF SoundComparison
<1>5. CASE left.ok /\ r = Parsed(a, k)
  <2>1. r.node = a /\ r.pos = k
    BY <1>5, Results
  <2>2. Fact(c, ts, a, p, k - 1) /\ AtomSpan(ts, p, k - 1)
    BY <1>2, <1>5 DEF SoundAtom
  <2>3. ComparisonSpan(ts, p, k - 1)
    BY <2>2, Spans
  <2> HIDE DEF a, k
  <2> QED
    BY <2>1, <2>2, <2>3 DEF SoundComparison
<1>6. CASE /\ left.ok /\ Peek(ts, k) = "COMP_OP" /\ right.ok
           /\ r = Parsed(Comparison(CompOpMap[ts[k]], a, b), right.pos)
  <2>1. Fact(c, ts, a, p, k - 1) /\ AtomSpan(ts, p, k - 1)
    BY <1>2, <1>6 DEF SoundAtom
  <2>2. Fact(c, ts, b, k + 1, j) /\ AtomSpan(ts, k + 1, j)
    BY <1>3, <1>6 DEF SoundAtom
  <2>3. k \in 1..Len(ts) /\ Kind(ts[k]) = "COMP_OP"
    BY <1>3, <1>6
  <2>4. j \in 1..Len(ts)
    <3>1. InRange(ts, right, k + 1) /\ k + 1 \in Nat
      BY <1>3, <1>6
    <3>2. right.pos - 1 \in (k + 1)..Len(ts)
      BY <1>2, <1>6, <3>1, Leaves
    <3> QED
      BY <2>3, <3>2
  <2>5. r.node = Comparison(CompOpMap[ts[k]], a, b) /\ r.pos - 1 = j
    BY <1>6, Results
  <2> HIDE DEF a, b, k, j
  <2>6. Fact(c, ts, Comparison(CompOpMap[ts[k]], a, b), p, j)
    BY <1>2, <2>1, <2>2, <2>3, <2>4, ComparisonFact, Zenon
  <2>7. ComparisonSpan(ts, p, j)
    BY <1>2, <2>1, <2>2, <2>3, <2>4, ComparisonFact
  <2> QED
    BY <2>5, <2>6, <2>7 DEF SoundComparison
<1> QED
  BY <1>1, <1>4, <1>5, <1>6, Zenon DEF ComparisonCases

\* A factor.
LEMMA FactorSound ==
  ASSUME NEW c, NEW ts, Text(ts), NEW l, Rows(ts, l), NEW p \in 1..Len(ts),
         \A q \in (p + 1)..(Len(ts) + 1) : SoundRow(c, ts, l[q], q),
         SoundComparison(c, ts, l[p].comparison, p)
  PROVE  SoundFactor(c, ts, l[p].factor, p)
<1> DEFINE r == l[p].factor
           x == l[p + 1].factor
           a == x.node
           j == x.pos - 1
<1> SUFFICES SoundFactor(c, ts, r, p)
  OBVIOUS
<1>1. FactorCases(ts, p, x, l[p].comparison, r)
  BY DEF Rows
<1>2. /\ Len(ts) \in Nat /\ p \in Nat /\ p + 1 \in Nat /\ p + 1 \in 1..(Len(ts) + 1)
      /\ p + 1 \in (p + 1)..(Len(ts) + 1)
  BY DEF Text
<1>3. InRange(ts, x, p + 1) /\ SoundFactor(c, ts, x, p + 1)
  BY <1>2 DEF Rows, TableInRange, SoundRow
<1> HIDE DEF r, x
<1>4. CASE r = Failed
  BY <1>4, Results DEF SoundFactor
<1>5. CASE r = l[p].comparison
  BY <1>5, Spans, Zenon DEF SoundComparison, SoundFactor
<1>6. CASE PeekLogical(ts, p, "NOT") /\ x.ok /\ r = Parsed(Logical("NOT", <<a>>), x.pos)
  <2>1. ts[p] = "NOT"
    BY <1>6 DEF PeekLogical
  <2>2. Fact(c, ts, a, p + 1, j) /\ FactorSpan(ts, p + 1, j)
    BY <1>3, <1>6 DEF SoundFactor
  <2>3. j \in 1..Len(ts)
    <3>1. x.pos - 1 \in (p + 1)..Len(ts)
      BY <1>2, <1>3, <1>6, Leaves
    <3> QED
      BY <1>2, <3>1
  <2>4. r.node = Logical("NOT", <<a>>) /\ r.pos - 1 = j
    BY <1>6, Results
  <2> HIDE DEF a, j
  <2>5. Fact(c, ts, Logical("NOT", <<a>>), p, j) /\ FactorSpan(ts, p, j)
    BY <1>2, <2>1, <2>2, <2>3, NotFact
  <2> QED
    BY <2>4, <2>5 DEF SoundFactor
<1> QED
  BY <1>1, <1>4, <1>5, <1>6, Zenon DEF FactorCases

\* A chain of factors, and one of terms.
LEMMA ChainsSound ==
  ASSUME NEW c, NEW ts, Text(ts), NEW l, Rows(ts, l), NEW p \in 1..Len(ts),
         \A q \in (p + 1)..(Len(ts) + 1) : SoundRow(c, ts, l[q], q),
         SoundFactor(c, ts, l[p].factor, p)
  PROVE  SoundTerm(c, ts, l[p].term, p) /\ SoundExpression(c, ts, l[p].expression, p)
<1>1. /\ Len(ts) \in Nat /\ p \in Nat /\ p \in 1..(Len(ts) + 1)
      /\ TableInRange(ts, l)
  BY DEF Text, Rows
<1>2. /\ LoopEnds(ts, p, "AND", Rounds(ts, "AND", l[p].factor, FactorsOf(l)), l[p].term)
      /\ LoopEnds(ts, p, "OR", Rounds(ts, "OR", l[p].term, TermsOf(l)), l[p].expression)
      /\ InRange(ts, l[p].factor, p) /\ InRange(ts, l[p].term, p)
  BY <1>1 DEF Rows, TableInRange
<1>3. OperandsInRange(ts, FactorsOf(l)) /\ OperandsInRange(ts, TermsOf(l))
  BY <1>1, OperandsOfTable
<1>4. /\ \A q \in (p + 1)..(Len(ts) + 1) : SoundRight(c, ts, "AND", FactorsOf(l)[q], q)
      /\ \A q \in (p + 1)..(Len(ts) + 1) : SoundRight(c, ts, "OR", TermsOf(l)[q], q)
  <2> SUFFICES ASSUME NEW q \in (p + 1)..(Len(ts) + 1)
               PROVE  /\ SoundRight(c, ts, "AND", FactorsOf(l)[q], q)
                      /\ SoundRight(c, ts, "OR", TermsOf(l)[q], q)
    OBVIOUS
  <2>1. q \in DOMAIN l
    BY <1>1 DEF TableInRange
  <2>2. FactorsOf(l)[q] = l[q].factor /\ TermsOf(l)[q] = l[q].term
    BY <2>1 DEF FactorsOf, TermsOf
  <2>3. SoundFactor(c, ts, l[q].factor, q) /\ SoundTerm(c, ts, l[q].term, q)
    BY DEF SoundRow
  <2> QED
    BY <2>2, <2>3 DEF SoundFactor, SoundTerm, SoundRight, RightSpan
<1>5. SoundTerm(c, ts, l[p].term, p)
  <2> DEFINE after == Rounds(ts, "AND", l[p].factor, FactorsOf(l))
  <2>1. SoundLeft(c, ts, "AND", l[p].factor, p)
    BY Spans, Zenon DEF SoundFactor, SoundLeft, LeftSpan
  <2>2. \A n \in 0..Len(ts) : InRange(ts, after[n], p)
    BY <1>2 DEF LoopEnds
  <2>3. \A n \in 0..Len(ts) : SoundLeft(c, ts, "AND", after[n], p)
    BY <1>1, <1>2, <1>3, <1>4, <2>1, <2>2, SoundRounds
  <2>4. \E n \in 0..Len(ts) : l[p].term = after[n]
    BY <1>2, Zenon DEF LoopEnds
  <2> HIDE DEF after
  <2>5. SoundLeft(c, ts, "AND", l[p].term, p)
    BY <2>3, <2>4
  <2> QED
    BY <2>5 DEF SoundTerm, SoundLeft, LeftSpan
<1>6. SoundExpression(c, ts, l[p].expression, p)
  <2> DEFINE after == Rounds(ts, "OR", l[p].term, TermsOf(l))
  <2>1. SoundLeft(c, ts, "OR", l[p].term, p)
    BY <1>5, Spans DEF SoundTerm, SoundLeft, LeftSpan
  <2>2. \A n \in 0..Len(ts) : InRange(ts, after[n], p)
    BY <1>2 DEF LoopEnds
  <2>3. \A n \in 0..Len(ts) : SoundLeft(c, ts, "OR", after[n], p)
    BY <1>1, <1>2, <1>3, <1>4, <2>1, <2>2, SoundRounds
  <2>4. \E n \in 0..Len(ts) : l[p].expression = after[n]
    BY <1>2, Zenon DEF LoopEnds
  <2> HIDE DEF after
  <2>5. SoundLeft(c, ts, "OR", l[p].expression, p)
    BY <2>3, <2>4
  <2> QED
    BY <2>5 DEF SoundExpression, SoundLeft, LeftSpan
<1> QED
  BY <1>5, <1>6

\* All that the parser returns is right.
LEMMA ParserSound ==
  ASSUME NEW c, NEW ts, Text(ts)
  PROVE  \A p \in 1..(Len(ts) + 1) : SoundRow(c, ts, Parser(ts)[p], p)
<1> DEFINE l == Parser(ts)
           N == Len(ts)
           Q == {m \in Nat : m <= N => \A p \in (N + 1 - m)..(N + 1) : SoundRow(c, ts, l[p], p)}
<1>1. Rows(ts, l) /\ N \in Nat
  BY RowsOfParser DEF Text
<1> HIDE DEF l
<1>2. 0 \in Q
  <2>1. l[N + 1] = AtEnd
    BY <1>1 DEF Rows
  <2>2. SoundRow(c, ts, AtEnd, N + 1)
    BY Results DEF AtEnd, SoundRow, SoundAtom, SoundComparison, SoundFactor, SoundTerm,
                   SoundExpression
  <2>3. \A p \in (N + 1 - 0)..(N + 1) : p = N + 1
    BY <1>1
  <2> QED
    BY <2>1, <2>2, <2>3
<1>3. ASSUME NEW m \in Nat, m \in Q
      PROVE  m + 1 \in Q
  <2> SUFFICES ASSUME m + 1 <= N
               PROVE  \A p \in (N + 1 - (m + 1))..(N + 1) : SoundRow(c, ts, l[p], p)
    OBVIOUS
  <2> DEFINE p == N - m
  <2>1. p \in 1..N /\ p + 1 = N + 1 - m /\ p = N + 1 - (m + 1) /\ m <= N
    BY <1>1
  <2>2. \A q \in (p + 1)..(N + 1) : SoundRow(c, ts, l[q], q)
    BY <1>3, <2>1
  <2> HIDE DEF p
  <2>3. SoundAtom(c, ts, l[p].atom, p)
    BY <1>1, <2>1, <2>2, AtomSound
  <2>4. SoundComparison(c, ts, l[p].comparison, p)
    BY <1>1, <2>1, <2>2, <2>3, ComparisonSound
  <2>5. SoundFactor(c, ts, l[p].factor, p)
    BY <1>1, <2>1, <2>2, <2>4, FactorSound
  <2>6. SoundTerm(c, ts, l[p].term, p) /\ SoundExpression(c, ts, l[p].expression, p)
    BY <1>1, <2>1, <2>2, <2>5, ChainsSound
  <2>7. SoundRow(c, ts, l[p], p)
    BY <2>3, <2>4, <2>5, <2>6 DEF SoundRow
  <2>8. \A q \in (N + 1 - (m + 1))..(N + 1) : q = p \/ q \in (p + 1)..(N + 1)
    BY <1>1, <2>1
  <2> QED
    BY <2>2, <2>7, <2>8
<1>4. \A m \in Nat : m \in Q
  <2> HIDE DEF Q
  <2> QED
    BY <1>2, <1>3, AllNaturals
<1>5. N \in Nat /\ N <= N /\ N + 1 - N = 1
  BY <1>1
<1> QED
  BY <1>4, <1>5 DEF l

-----------------------------------------------------------------------------
(* Completeness: which texts the methods take                              *)

\* A method has taken all tokens before position q.
Taken(r, q) == r.ok /\ r.pos = q

AndRounds(ts, l, p) == Rounds(ts, "AND", l[p].factor, FactorsOf(l))
OrRounds(ts, l, p) == Rounds(ts, "OR", l[p].term, TermsOf(l))

\* A loop goes on at its operator,
LEMMA LoopGoesOn ==
  ASSUME NEW ts, Len(ts) \in Nat, NEW p \in Nat, NEW op, NEW first, NEW operand, NEW result,
         LoopEnds(ts, p, op, Rounds(ts, op, first, operand), result),
         NEW n \in 0..Len(ts), NEW k, Taken(Rounds(ts, op, first, operand)[n], k),
         PeekLogical(ts, k, op), NEW q, Taken(operand[k + 1], q)
  PROVE  n + 1 \in 0..Len(ts) /\ Taken(Rounds(ts, op, first, operand)[n + 1], q)
<1> DEFINE after == Rounds(ts, op, first, operand)
           s == operand[k + 1]
<1>1. \A m \in 1..Len(ts) : after[m] = Round(ts, op, operand, after[m - 1])
  BY RoundsAre
<1>2. /\ InRange(ts, after[n], p)
      /\ ~ Ended(ts, op, after[n]) => after[n].pos >= p + 1 + n
  BY Zenon DEF LoopEnds
<1>3. after[n].ok /\ after[n].pos = k /\ s.ok /\ s.pos = q
  BY DEF Taken
<1> SUFFICES n + 1 \in 0..Len(ts) /\ Taken(after[n + 1], q)
  OBVIOUS
<1> HIDE DEF after, s
<1>4. ~ Ended(ts, op, after[n])
  BY <1>3 DEF Ended
<1>5. k >= p + 1 + n /\ k <= Len(ts)
  BY <1>2, <1>3, <1>4 DEF PeekLogical
<1>6. k \in Nat
  BY <1>2, <1>3, Leaves
<1>7. n + 1 \in 1..Len(ts) /\ n + 1 \in 0..Len(ts) /\ (n + 1) - 1 = n
  BY <1>5, <1>6
<1>8. after[n + 1] = Round(ts, op, operand, after[n])
  BY <1>1, <1>7
<1>9. after[n + 1] = Parsed(BuildLogical(after[n].node, op, s.node), s.pos)
  BY <1>3, <1>8, RoundIs DEF s
<1> QED
  BY <1>3, <1>7, <1>9, Results DEF Taken

\* and returns where there is none.
LEMMA LoopReturns ==
  ASSUME NEW ts, NEW p, NEW op, NEW after, NEW result, LoopEnds(ts, p, op, after, result),
         NEW n \in 0..Len(ts), NEW q, Taken(after[n], q), ~ PeekLogical(ts, q, op)
  PROVE  result = after[n]
<1>1. Ended(ts, op, after[n])
  BY DEF Ended, Taken
<1> QED
  BY <1>1, Zenon DEF LoopEnds

\* What a loop starts with.
LEMMA LoopStarts ==
  ASSUME NEW ts, Len(ts) \in Nat, NEW op, NEW first, NEW operand
  PROVE  0 \in 0..Len(ts) /\ Rounds(ts, op, first, operand)[0] = first
BY RoundsAre

\* An atom that nothing follows is an expression.
LEMMA PassedUp ==
  ASSUME NEW ts, Text(ts), NEW l, Rows(ts, l), NEW p \in 1..Len(ts),
         NEW q, Taken(l[p].atom, q), Peek(ts, q) # "COMP_OP", Peek(ts, q) # "LOGIC_OP"
  PROVE  /\ Taken(l[p].comparison, q) /\ l[p].comparison.node = l[p].atom.node
         /\ Taken(l[p].expression, q) /\ l[p].expression.node = l[p].atom.node
<1> DEFINE a == l[p].atom
           b == l[p].comparison
           f == l[p].factor
           t == l[p].term
           e == l[p].expression
           SameAs(r) == Taken(r, q) /\ r.node = a.node
<1> SUFFICES SameAs(b) /\ SameAs(e)
  OBVIOUS
<1>1. /\ AtomCases(ts, p, ParseOperand(ts, p + 2, l), l[p + 1].expression, a)
      /\ ComparisonCases(ts, a, l[a.pos + 1].atom, b)
      /\ FactorCases(ts, p, l[p + 1].factor, b, f)
      /\ LoopEnds(ts, p, "AND", AndRounds(ts, l, p), t)
      /\ LoopEnds(ts, p, "OR", OrRounds(ts, l, p), e)
  BY DEF Rows, AndRounds, OrRounds
<1>2. Len(ts) \in Nat /\ 0 \in 0..Len(ts) /\ AndRounds(ts, l, p)[0] = f /\ OrRounds(ts, l, p)[0] = t
  BY LoopStarts DEF AndRounds, OrRounds, Text
<1>3. a.ok /\ a.pos = q
  BY DEF Taken
<1> HIDE DEF a, b, f, t, e
<1>4. SameAs(b)
  <2>1. b = Parsed(a.node, a.pos)
    BY <1>1, <1>3 DEF ComparisonCases
  <2> QED
    BY <1>3, <2>1, Results DEF Taken
<1>5. f = b
  <2>1. Peek(ts, p) \in LiteralKind \cup {"FIELD", "AGG_FUNCTION", "LPAREN"}
    BY <1>1, <1>3, Results DEF AtomCases
  <2>2. Peek(ts, p) # "LOGIC_OP"
    BY <2>1 DEF LiteralKind
  <2>3. ~ PeekLogical(ts, p, "NOT")
    BY <2>2, Kinds DEF Peek, PeekLogical
  <2> QED
    BY <1>1, <2>3 DEF FactorCases
<1>6. ~ PeekLogical(ts, q, "AND") /\ ~ PeekLogical(ts, q, "OR")
  BY Kinds DEF Peek, PeekLogical
<1>7. t = f
  <2>1. Taken(AndRounds(ts, l, p)[0], q)
    BY <1>2, <1>4, <1>5
  <2> QED
    BY <1>1, <1>2, <1>6, <2>1, LoopReturns
<1>8. e = t
  <2>1. Taken(OrRounds(ts, l, p)[0], q)
    BY <1>2, <1>4, <1>5, <1>7
  <2> QED
    BY <1>1, <1>2, <1>6, <2>1, LoopReturns
<1> QED
  BY <1>4, <1>5, <1>7, <1>8

\* Parentheses around what is an expression.
LEMMA ParenTaken ==
  ASSUME NEW ts, Text(ts), NEW l, Rows(ts, l), NEW p \in 1..Len(ts), NEW q \in 1..Len(ts),
         ts[p] = "(", ts[q] = ")", Taken(l[p + 1].expression, q)
  PROVE  Taken(l[p].atom, q + 1) /\ l[p].atom.node = l[p + 1].expression.node
<1> DEFINE x == l[p + 1].expression
           a == l[p].atom
<1>1. AtomCases(ts, p, ParseOperand(ts, p + 2, l), x, a)
  BY DEF Rows
<1>2. Peek(ts, p) = "LPAREN" /\ Peek(ts, q) = "RPAREN"
  BY Kinds DEF Peek, Text
<1>3. x.ok /\ x.pos = q
  BY DEF Taken
<1> SUFFICES Taken(a, q + 1) /\ a.node = x.node
  OBVIOUS
<1> HIDE DEF x, a
<1>4. a = Parsed(x.node, x.pos + 1)
  BY <1>1, <1>2, <1>3 DEF AtomCases, LiteralKind
<1> QED
  BY <1>3, <1>4, Results DEF Taken

\* The five ways to cut a well-formed part from i to j, with token k.
OrCase(ts, i, j, k) ==
  /\ LastOuter(OuterOp(ts, i, j, "OR"), k)
  /\ i <= k - 1 /\ k + 1 <= j
  /\ WellFormed(ts)[<<i, k - 1>>] /\ WellFormed(ts)[<<k + 1, j>>]
AndCase(ts, i, j, k) ==
  /\ OuterOp(ts, i, j, "OR") = {} /\ LastOuter(OuterOp(ts, i, j, "AND"), k)
  /\ i <= k - 1 /\ k + 1 <= j
  /\ WellFormed(ts)[<<i, k - 1>>] /\ WellFormed(ts)[<<k + 1, j>>]
NoChain(ts, i, j) == OuterOp(ts, i, j, "OR") = {} /\ OuterOp(ts, i, j, "AND") = {}
NotCase(ts, i, j) ==
  NoChain(ts, i, j) /\ ts[i] = "NOT" /\ i + 1 <= j /\ WellFormed(ts)[<<i + 1, j>>]
ComparisonCase(ts, i, j, k) ==
  /\ NoChain(ts, i, j) /\ ts[i] # "NOT" /\ LastOuter(Outer(ts, i, j, "COMP_OP"), k)
  /\ i <= k - 1 /\ k + 1 <= j
  /\ WellFormed(ts)[<<i, k - 1>>] /\ WellFormed(ts)[<<k + 1, j>>]
  /\ IsAtom(ts, i, k - 1) /\ IsAtom(ts, k + 1, j)
AtomCase(ts, i, j) ==
  /\ NoChain(ts, i, j) /\ ts[i] # "NOT"
  /\ \/ InParentheses(ts, i, j) /\ i + 1 <= j - 1 /\ WellFormed(ts)[<<i + 1, j - 1>>]
     \/ i = j /\ Kind(ts[i]) \in LiteralKind \cup {"FIELD"}

\* A well-formed part has a token.
LEMMA NotEmpty ==
  ASSUME NEW ts, Len(ts) \in Nat, NEW i \in 1..(Len(ts) + 1), NEW j \in 0..Len(ts),
         WellFormed(ts)[<<i, j>>]
  PROVE  i <= j /\ IsWellFormed(ts, i, j, WellFormed(ts))
<1>1. IsWellFormed(ts, i, j, WellFormed(ts))
  BY WellFormedIs
<1>2. ~ (i > j)
  BY <1>1, Zenon DEF IsWellFormed
<1> QED
  BY <1>1, <1>2

\* It is cut in one of the five ways.
LEMMA WellFormedCases ==
  ASSUME NEW ts, Len(ts) \in Nat, NEW i \in 1..Len(ts), NEW j \in 1..Len(ts),
         WellFormed(ts)[<<i, j>>]
  PROVE  \/ \E k \in (i + 1)..(j - 1) : OrCase(ts, i, j, k)
         \/ \E k \in (i + 1)..(j - 1) : AndCase(ts, i, j, k)
         \/ NotCase(ts, i, j)
         \/ \E k \in (i + 1)..(j - 1) : ComparisonCase(ts, i, j, k)
         \/ AtomCase(ts, i, j)
<1> DEFINE k == Cut(ts, i, j)
           W(a, b) == WellFormed(ts)[<<a, b>>]
<1>1. i \in Nat /\ j \in Nat /\ i \in 1..(Len(ts) + 1) /\ j \in 0..Len(ts)
  OBVIOUS
<1>2. i <= j /\ ~ (i > j) /\ IsWellFormed(ts, i, j, WellFormed(ts))
  <2>1. i <= j /\ IsWellFormed(ts, i, j, WellFormed(ts))
    BY <1>1, NotEmpty
  <2> QED
    BY <1>1, <2>1
<1>3. \/ LastOuter(OuterOp(ts, i, j, "OR"), k)
      \/ /\ OuterOp(ts, i, j, "OR") = {}
         /\ LastOuter(OuterOp(ts, i, j, "AND"), k)
      \/ NoChain(ts, i, j) /\ ts[i] = "NOT" /\ k = i
      \/ NoChain(ts, i, j) /\ ts[i] # "NOT" /\ LastOuter(Outer(ts, i, j, "COMP_OP"), k)
      \/ /\ NoChain(ts, i, j)
         /\ ts[i] # "NOT" /\ Outer(ts, i, j, "COMP_OP") = {} /\ k = 0
  BY <1>1, Cuts DEF NoChain
<1>4. \A kind, m : m \in Outer(ts, i, j, kind) => m \in i..j /\ Kind(ts[m]) = kind
  BY Zenon DEF Outer
<1>5. \A op, m : m \in OuterOp(ts, i, j, op) => m \in Outer(ts, i, j, "LOGIC_OP") /\ ts[m] = op
  BY Zenon DEF OuterOp
<1>6. k = 0 => /\ \/ InParentheses(ts, i, j) /\ W(i + 1, j - 1)
                  \/ i = j /\ Kind(ts[i]) \in LiteralKind \cup {"FIELD"}
  BY <1>2, Zenon DEF IsWellFormed
<1>7. k # 0 /\ ts[k] = "NOT" => W(i + 1, j)
  BY <1>2, Zenon DEF IsWellFormed
<1>8. k # 0 /\ ts[k] # "NOT" =>
        /\ W(i, k - 1) /\ W(k + 1, j)
        /\ Kind(ts[k]) = "COMP_OP" => IsAtom(ts, i, k - 1) /\ IsAtom(ts, k + 1, j)
  BY <1>2, Zenon DEF IsWellFormed
<1> HIDE DEF k, W
<1>9. ASSUME k \in i..j, ts[k] # "NOT"
      PROVE  /\ k \in (i + 1)..(j - 1) /\ i <= k - 1 /\ k + 1 <= j
             /\ W(i, k - 1) /\ W(k + 1, j)
             /\ Kind(ts[k]) = "COMP_OP" => IsAtom(ts, i, k - 1) /\ IsAtom(ts, k + 1, j)
  <2>1. /\ k # 0 /\ k - 1 \in 0..Len(ts) /\ k + 1 \in 1..(Len(ts) + 1) /\ k \in Nat
    BY <1>1, <1>9
  <2>2. /\ W(i, k - 1) /\ W(k + 1, j)
        /\ Kind(ts[k]) = "COMP_OP" => IsAtom(ts, i, k - 1) /\ IsAtom(ts, k + 1, j)
    BY <1>8, <1>9, <2>1
  <2>3. i <= k - 1
    BY <1>1, <2>1, <2>2, NotEmpty DEF W
  <2>4. k + 1 <= j
    BY <1>1, <2>1, <2>2, NotEmpty DEF W
  <2>5. k \in (i + 1)..(j - 1)
    BY <1>1, <2>1, <2>3, <2>4
  <2> QED
    BY <2>2, <2>3, <2>4, <2>5
<1>10. CASE LastOuter(OuterOp(ts, i, j, "OR"), k)
  <2>1. k \in i..j /\ ts[k] # "NOT"
    BY <1>4, <1>5, <1>10 DEF LastOuter
  <2> QED
    BY <1>9, <1>10, <2>1, Zenon DEF OrCase, W
<1>11. CASE OuterOp(ts, i, j, "OR") = {} /\ LastOuter(OuterOp(ts, i, j, "AND"), k)
  <2>1. k \in i..j /\ ts[k] # "NOT"
    BY <1>4, <1>5, <1>11 DEF LastOuter
  <2> QED
    BY <1>9, <1>11, <2>1, Zenon DEF AndCase, W
<1>12. CASE NoChain(ts, i, j) /\ ts[i] = "NOT" /\ k = i
  <2>1. k # 0 /\ i + 1 \in 1..(Len(ts) + 1)
    BY <1>1, <1>12
  <2>2. W(i + 1, j)
    BY <1>7, <1>12, <2>1
  <2>3. i + 1 <= j
    BY <1>1, <2>1, <2>2, NotEmpty DEF W
  <2> QED
    BY <1>12, <2>2, <2>3 DEF NotCase, W
<1>13. CASE NoChain(ts, i, j) /\ ts[i] # "NOT" /\ LastOuter(Outer(ts, i, j, "COMP_OP"), k)
  <2>1. k \in i..j /\ Kind(ts[k]) = "COMP_OP"
    BY <1>4, <1>13 DEF LastOuter
  <2>2. ts[k] # "NOT"
    BY <2>1, Kinds
  <2> QED
    BY <1>9, <1>13, <2>1, <2>2, Zenon DEF ComparisonCase, W
<1>14. CASE NoChain(ts, i, j) /\ ts[i] # "NOT" /\ k = 0
  <2>1. InParentheses(ts, i, j) /\ W(i + 1, j - 1) => i + 1 <= j - 1
    <3>1. i + 1 \in 1..(Len(ts) + 1) /\ j - 1 \in 0..Len(ts)
      BY <1>1
    <3> QED
      BY <3>1, NotEmpty DEF W
  <2> QED
    BY <1>6, <1>14, <2>1 DEF AtomCase, W
<1> QED
  BY <1>3, <1>10, <1>11, <1>12, <1>13, <1>14

\* What is outside all parentheses of the parts around a token that is.
LEMMA OuterParts ==
  ASSUME NEW ts, NEW i \in Int, NEW j \in Int, NEW k \in i..j, Depth(ts, i, k) = 0
  PROVE  /\ \A kind, m : m \in Outer(ts, k + 1, j, kind) => m \in Outer(ts, i, j, kind) /\ k < m
         /\ \A kind, m : m \in Outer(ts, i, k - 1, kind) => m \in Outer(ts, i, j, kind) /\ m < k
<1>1. ASSUME NEW kind, NEW m, m \in Outer(ts, k + 1, j, kind)
      PROVE  m \in Outer(ts, i, j, kind) /\ k < m
  <2>1. m \in (k + 1)..j /\ Kind(ts[m]) = kind /\ Depth(ts, k + 1, m) = 0
    BY <1>1, Zenon DEF Outer
  <2>2. k \in Int /\ m \in Int /\ i <= k + 1 /\ k <= m /\ m \in i..j /\ k < m
    BY <2>1
  <2>3. /\ Depth(ts, i, k) \in Int /\ Depth(ts, k + 1, m) \in Int
        /\ Depth(ts, i, m) = Depth(ts, i, k) + Depth(ts, k + 1, m)
    BY <2>2, DepthAdds
  <2>4. Depth(ts, i, m) = 0
    BY <2>1, <2>3
  <2> QED
    BY <2>1, <2>2, <2>4, Zenon DEF Outer
<1>2. ASSUME NEW kind, NEW m, m \in Outer(ts, i, k - 1, kind)
      PROVE  m \in Outer(ts, i, j, kind) /\ m < k
  <2>1. m \in i..(k - 1) /\ Kind(ts[m]) = kind /\ Depth(ts, i, m) = 0
    BY <1>2, Zenon DEF Outer
  <2>2. m \in i..j /\ m < k
    BY <2>1
  <2> QED
    BY <2>1, <2>2, Zenon DEF Outer
<1> QED
  BY <1>1, <1>2

\* The last operator of its kind leaves none behind it.
LEMMA LastOperator ==
  ASSUME NEW ts, NEW i \in Int, NEW j \in Int, NEW op, NEW k,
         LastOuter(OuterOp(ts, i, j, op), k)
  PROVE  /\ k \in i..j /\ Depth(ts, i, k) = 0 /\ ts[k] = op /\ Kind(ts[k]) = "LOGIC_OP"
         /\ OuterOp(ts, k + 1, j, op) = {}
<1>1. \A a, b, o, m : m \in OuterOp(ts, a, b, o) <=>
                        m \in Outer(ts, a, b, "LOGIC_OP") /\ ts[m] = o
  BY Zenon DEF OuterOp
<1>2. k \in OuterOp(ts, i, j, op) /\ \A m \in OuterOp(ts, i, j, op) : m <= k
  BY DEF LastOuter
<1>3. k \in i..j /\ Kind(ts[k]) = "LOGIC_OP" /\ Depth(ts, i, k) = 0 /\ ts[k] = op
  BY <1>1, <1>2, Zenon DEF Outer
<1>4. \A kind, m : m \in Outer(ts, k + 1, j, kind) => m \in Outer(ts, i, j, kind) /\ k < m
  BY <1>3, OuterParts
<1>5. \A m : ~ (m \in OuterOp(ts, k + 1, j, op))
  <2> SUFFICES ASSUME NEW m, m \in OuterOp(ts, k + 1, j, op)
               PROVE  FALSE
    OBVIOUS
  <2>1. m \in Outer(ts, k + 1, j, "LOGIC_OP") /\ ts[m] = op
    BY <1>1
  <2>2. m \in OuterOp(ts, i, j, op) /\ k < m
    BY <1>1, <1>4, <2>1
  <2>3. m \in Int /\ k \in Int
    BY <1>3, <2>1 DEF Outer
  <2> QED
    BY <1>2, <2>2, <2>3
<1> QED
  BY <1>3, <1>5

\* An operator that is missing is missing in both parts.
LEMMA MissingOperator ==
  ASSUME NEW ts, NEW i \in Int, NEW j \in Int, NEW k \in i..j, Depth(ts, i, k) = 0,
         NEW op, OuterOp(ts, i, j, op) = {}
  PROVE  OuterOp(ts, i, k - 1, op) = {} /\ OuterOp(ts, k + 1, j, op) = {}
<1>1. \A a, b, m : m \in OuterOp(ts, a, b, op) <=>
                     m \in Outer(ts, a, b, "LOGIC_OP") /\ ts[m] = op
  BY Zenon DEF OuterOp
<1>2. /\ \A kind, m : m \in Outer(ts, k + 1, j, kind) => m \in Outer(ts, i, j, kind) /\ k < m
      /\ \A kind, m : m \in Outer(ts, i, k - 1, kind) => m \in Outer(ts, i, j, kind) /\ m < k
  BY OuterParts
<1> QED
  BY <1>1, <1>2

\* What the methods do with the part from i to j: those that take it.
Takes(ts, l, i, j) ==
  WellFormed(ts)[<<i, j>>] =>
    /\ IsAtom(ts, i, j) => Taken(l[i].atom, j + 1)
    /\ Peek(ts, j + 1) # "COMP_OP" =>
         /\ NoChain(ts, i, j) => Taken(l[i].factor, j + 1)
         /\ OuterOp(ts, i, j, "OR") = {} =>
              \E n \in 0..Len(ts) : Taken(AndRounds(ts, l, i)[n], j + 1)
         /\ ~ PeekLogical(ts, j + 1, "AND") =>
              \E n \in 0..Len(ts) : Taken(OrRounds(ts, l, i)[n], j + 1)

\* So does the method of the whole loop where it ends.
LEMMA LoopsTake ==
  ASSUME NEW ts, Text(ts), NEW l, Rows(ts, l), NEW i \in 1..Len(ts), NEW j,
         WellFormed(ts)[<<i, j>>], Takes(ts, l, i, j), Peek(ts, j + 1) # "COMP_OP",
         ~ PeekLogical(ts, j + 1, "AND")
  PROVE  /\ OuterOp(ts, i, j, "OR") = {} => Taken(l[i].term, j + 1)
         /\ ~ PeekLogical(ts, j + 1, "OR") => Taken(l[i].expression, j + 1)
<1>1. /\ LoopEnds(ts, i, "AND", AndRounds(ts, l, i), l[i].term)
      /\ LoopEnds(ts, i, "OR", OrRounds(ts, l, i), l[i].expression)
  BY DEF Rows, AndRounds, OrRounds
<1>2. ASSUME OuterOp(ts, i, j, "OR") = {}
      PROVE  Taken(l[i].term, j + 1)
  <2>1. PICK n \in 0..Len(ts) : Taken(AndRounds(ts, l, i)[n], j + 1)
    BY <1>2 DEF Takes
  <2>2. l[i].term = AndRounds(ts, l, i)[n]
    BY <1>1, <2>1, LoopReturns
  <2> QED
    BY <2>1, <2>2
<1>3. ASSUME ~ PeekLogical(ts, j + 1, "OR")
      PROVE  Taken(l[i].expression, j + 1)
  <2>1. PICK n \in 0..Len(ts) : Taken(OrRounds(ts, l, i)[n], j + 1)
    BY DEF Takes
  <2>2. l[i].expression = OrRounds(ts, l, i)[n]
    BY <1>1, <1>3, <2>1, LoopReturns
  <2> QED
    BY <2>1, <2>2
<1> QED
  BY <1>2, <1>3

\* If they take the narrower parts, they take this one: as an atom,
LEMMA AtomTaken ==
  ASSUME NEW ts, Text(ts), NEW l, Rows(ts, l), NEW i \in 1..Len(ts), NEW j \in 1..Len(ts),
         WellFormed(ts)[<<i, j>>], IsAtom(ts, i, j), Takes(ts, l, i + 1, j - 1)
  PROVE  Taken(l[i].atom, j + 1)
<1>1. Len(ts) \in Nat /\ i \in Int /\ j \in Int /\ i \in Nat /\ j \in Nat
  BY DEF Text
<1>2. AtomCase(ts, i, j) \/ \E k \in (i + 1)..(j - 1), kind \in {"LOGIC_OP", "COMP_OP"} :
                              k \in Outer(ts, i, j, kind)
  <2>1. ~ NotCase(ts, i, j)
    <3>1. i + 1 <= j /\ ts[i] = "NOT" => ~ IsAtom(ts, i, j)
      BY <1>1 DEF IsAtom, InParentheses
    <3> QED
      BY <3>1 DEF NotCase
  <2>2. \A k : /\ OrCase(ts, i, j, k) => k \in Outer(ts, i, j, "LOGIC_OP")
               /\ AndCase(ts, i, j, k) => k \in Outer(ts, i, j, "LOGIC_OP")
               /\ ComparisonCase(ts, i, j, k) => k \in Outer(ts, i, j, "COMP_OP")
    BY Zenon DEF OrCase, AndCase, ComparisonCase, LastOuter, OuterOp
  <2> QED
    BY <1>1, <2>1, <2>2, WellFormedCases
<1>3. AtomCase(ts, i, j)
  <2>1. CASE i = j
    <3>1. ~ \E k \in (i + 1)..(j - 1) : TRUE
      BY <1>1, <2>1
    <3> QED
      BY <1>2, <3>1
  <2>2. CASE InParentheses(ts, i, j)
    <3>1. Outer(ts, i, j, "LOGIC_OP") = {} /\ Outer(ts, i, j, "COMP_OP") = {}
      BY <1>1, <2>2, InsideOfParentheses
    <3> QED
      BY <1>2, <3>1
  <2> QED
    BY <2>1, <2>2 DEF IsAtom
<1>4. CASE i = j /\ Kind(ts[i]) \in LiteralKind \cup {"FIELD"}
  <2>1. AtomCases(ts, i, ParseOperand(ts, i + 2, l), l[i + 1].expression, l[i].atom)
    BY DEF Rows
  <2>2. Peek(ts, i) = Kind(ts[i])
    BY <1>1 DEF Peek
  <2>3. \E node : l[i].atom = Parsed(node, i + 1)
    BY <1>4, <2>1, <2>2 DEF AtomCases, LiteralKind
  <2> QED
    BY <1>4, <2>3, Results DEF Taken
<1>5. CASE InParentheses(ts, i, j) /\ i + 1 <= j - 1 /\ WellFormed(ts)[<<i + 1, j - 1>>]
  <2>1. ts[i] = "(" /\ ts[j] = ")" /\ i + 1 \in 1..Len(ts) /\ (j - 1) + 1 = j
    BY <1>1, <1>5 DEF InParentheses
  <2>2. Peek(ts, j) = "RPAREN"
    BY <1>1, <2>1, Kinds DEF Peek
  <2>3. ~ PeekLogical(ts, j, "AND") /\ ~ PeekLogical(ts, j, "OR")
    BY <2>1 DEF PeekLogical
  <2> DEFINE h == j - 1
  <2>4. Peek(ts, h + 1) # "COMP_OP" /\ ~ PeekLogical(ts, h + 1, "AND")
        /\ ~ PeekLogical(ts, h + 1, "OR")
    BY <2>1, <2>2, <2>3
  <2>5. Taken(l[i + 1].expression, h + 1)
    <3>1. WellFormed(ts)[<<i + 1, h>>] /\ Takes(ts, l, i + 1, h)
      BY <1>5
    <3> HIDE DEF h
    <3> QED
      BY <2>1, <2>4, <3>1, LoopsTake
  <2>6. Taken(l[i + 1].expression, j)
    BY <2>1, <2>5
  <2> QED
    BY <2>1, <2>6, ParenTaken
<1> QED
  BY <1>3, <1>4, <1>5 DEF AtomCase

\* as a factor, as a chain of factors, as a chain of terms.
LEMMA PartTaken ==
  ASSUME NEW ts, Text(ts), NEW l, Rows(ts, l), NEW i \in 1..Len(ts), NEW j \in 1..Len(ts),
         \A a \in 1..Len(ts), b \in 1..Len(ts) : b - a < j - i => Takes(ts, l, a, b)
  PROVE  Takes(ts, l, i, j)
<1> SUFFICES ASSUME WellFormed(ts)[<<i, j>>]
             PROVE  Takes(ts, l, i, j)
  BY Zenon DEF Takes
<1> DEFINE W(a, b) == WellFormed(ts)[<<a, b>>]
<1>1. /\ Len(ts) \in Nat /\ i \in Int /\ j \in Int /\ i \in Nat /\ j \in Nat
      /\ i \in 1..(Len(ts) + 1)
  BY DEF Text
<1>2. ASSUME IsAtom(ts, i, j)
      PROVE  Taken(l[i].atom, j + 1)
  <2>1. Takes(ts, l, i + 1, j - 1)
    <3>1. CASE i + 1 <= j - 1
      <4>1. i + 1 \in 1..Len(ts) /\ j - 1 \in 1..Len(ts) /\ (j - 1) - (i + 1) < j - i
        BY <1>1, <3>1
      <4> QED
        BY <4>1
    <3>2. CASE ~ (i + 1 <= j - 1)
      <4>1. i + 1 \in 1..(Len(ts) + 1) /\ j - 1 \in 0..Len(ts)
        BY <1>1
      <4>2. ~ W(i + 1, j - 1)
        BY <1>1, <3>2, <4>1, NotEmpty
      <4> QED
        BY <4>2, Zenon DEF Takes
    <3> QED
      BY <3>1, <3>2
  <2> QED
    BY <1>2, <2>1, AtomTaken
<1>3. /\ LoopEnds(ts, i, "AND", AndRounds(ts, l, i), l[i].term)
      /\ LoopEnds(ts, i, "OR", OrRounds(ts, l, i), l[i].expression)
      /\ 0 \in 0..Len(ts)
      /\ AndRounds(ts, l, i)[0] = l[i].factor /\ OrRounds(ts, l, i)[0] = l[i].term
      /\ \A q \in 1..(Len(ts) + 1) : FactorsOf(l)[q] = l[q].factor /\ TermsOf(l)[q] = l[q].term
  <2>1. DOMAIN l = 1..(Len(ts) + 1)
    BY DEF Rows, TableInRange
  <2> QED
    BY <1>1, <2>1, LoopStarts DEF Rows, AndRounds, OrRounds, FactorsOf, TermsOf
<1>4. \A k \in (i + 1)..(j - 1) :
        /\ k \in 1..Len(ts) /\ k \in Nat /\ k - 1 \in 1..Len(ts) /\ k + 1 \in 1..Len(ts)
        /\ (k - 1) - i < j - i /\ j - (k + 1) < j - i /\ (k - 1) + 1 = k
        /\ k + 1 \in 1..(Len(ts) + 1)
  BY <1>1
<1>5. \A k \in (i + 1)..(j - 1) : Takes(ts, l, i, k - 1) /\ Takes(ts, l, k + 1, j)
  BY <1>4
<1> DEFINE last == Peek(ts, j + 1) # "COMP_OP"
<1>6. ASSUME last, NoChain(ts, i, j)
      PROVE  Taken(l[i].factor, j + 1)
  <2>1. /\ ComparisonCases(ts, l[i].atom, l[l[i].atom.pos + 1].atom, l[i].comparison)
        /\ FactorCases(ts, i, l[i + 1].factor, l[i].comparison, l[i].factor)
    BY DEF Rows
  <2>2. CASE NotCase(ts, i, j)
    <3>1. i + 1 <= j /\ ts[i] = "NOT" /\ W(i + 1, j)
      BY <2>2 DEF NotCase
    <3>2. i + 1 \in 1..Len(ts) /\ j - (i + 1) < j - i /\ i \in i..j
      BY <1>1, <3>1
    <3>3. Takes(ts, l, i + 1, j)
      BY <3>2
    <3>4. Depth(ts, i, i) = 0
      <4>1. ts[i] \notin Paren
        BY <3>1 DEF Paren
      <4> QED
        BY <1>1, <4>1, OneToken
    <3>5. \A kind, m : m \in Outer(ts, i + 1, j, kind) => m \in Outer(ts, i, j, kind)
      BY <1>1, <3>2, <3>4, OuterParts
    <3>6. NoChain(ts, i + 1, j)
      BY <1>6, <3>5 DEF NoChain, OuterOp
    <3>7. Taken(l[i + 1].factor, j + 1)
      BY <1>6, <3>1, <3>3, <3>6, Zenon DEF Takes
    <3>8. PeekLogical(ts, i, "NOT")
      BY <3>1 DEF PeekLogical
    <3>9. \E node : l[i].factor = Parsed(node, j + 1)
      BY <2>1, <3>7, <3>8 DEF FactorCases, Taken
    <3> QED
      BY <3>9, Results DEF Taken
  <2>3. ASSUME ts[i] # "NOT", Taken(l[i].comparison, j + 1)
        PROVE  Taken(l[i].factor, j + 1)
    <3>1. ~ PeekLogical(ts, i, "NOT")
      BY <2>3 DEF PeekLogical
    <3> QED
      BY <2>1, <2>3, <3>1 DEF FactorCases
  <2>4. ASSUME NEW k \in (i + 1)..(j - 1), ComparisonCase(ts, i, j, k)
        PROVE  Taken(l[i].factor, j + 1)
    <3>1. /\ ts[i] # "NOT" /\ IsAtom(ts, i, k - 1) /\ IsAtom(ts, k + 1, j)
          /\ W(i, k - 1) /\ W(k + 1, j)
      BY <2>4 DEF ComparisonCase
    <3>2. Kind(ts[k]) = "COMP_OP"
      BY <2>4 DEF ComparisonCase, LastOuter, Outer
    <3>3. Taken(l[i].atom, k)
      <4>1. Taken(l[i].atom, (k - 1) + 1)
        BY <1>5, <3>1, Zenon DEF Takes
      <4> QED
        BY <1>4, <4>1
    <3>4. Taken(l[k + 1].atom, j + 1)
      BY <1>5, <3>1, Zenon DEF Takes
    <3>5. Peek(ts, k) = "COMP_OP"
      BY <1>4, <3>2 DEF Peek
    <3>6. \E node : l[i].comparison = Parsed(node, j + 1)
      BY <2>1, <3>3, <3>4, <3>5 DEF ComparisonCases, Taken
    <3>7. Taken(l[i].comparison, j + 1)
      BY <3>6, Results DEF Taken
    <3> QED
      BY <2>3, <3>1, <3>7
  <2>5. CASE AtomCase(ts, i, j)
    <3>1. IsAtom(ts, i, j) /\ ts[i] # "NOT"
      BY <2>5 DEF AtomCase, IsAtom
    <3>2. Taken(l[i].atom, j + 1)
      BY <1>2, <3>1
    <3>3. \E node : l[i].comparison = Parsed(node, j + 1)
      BY <1>6, <2>1, <3>2 DEF ComparisonCases, Taken
    <3> QED
      BY <2>3, <3>1, <3>3, Results DEF Taken
  <2>6. \A k : ~ OrCase(ts, i, j, k) /\ ~ AndCase(ts, i, j, k)
    BY <1>6 DEF OrCase, AndCase, NoChain, LastOuter
  <2> QED
    BY <1>1, <2>2, <2>4, <2>5, <2>6, WellFormedCases
<1>7. ASSUME last, OuterOp(ts, i, j, "OR") = {}
      PROVE  \E n \in 0..Len(ts) : Taken(AndRounds(ts, l, i)[n], j + 1)
  <2>1. CASE NoChain(ts, i, j)
    BY <1>3, <1>6, <1>7, <2>1
  <2>2. ASSUME NEW k \in (i + 1)..(j - 1), AndCase(ts, i, j, k)
        PROVE  \E n \in 0..Len(ts) : Taken(AndRounds(ts, l, i)[n], j + 1)
    <3>1. W(i, k - 1) /\ W(k + 1, j) /\ LastOuter(OuterOp(ts, i, j, "AND"), k)
      BY <2>2 DEF AndCase
    <3>2. /\ ts[k] = "AND" /\ Kind(ts[k]) = "LOGIC_OP"
          /\ OuterOp(ts, k + 1, j, "AND") = {} /\ OuterOp(ts, k + 1, j, "OR") = {}
          /\ OuterOp(ts, i, k - 1, "OR") = {}
      <4>1. /\ k \in i..j /\ Depth(ts, i, k) = 0
            /\ ts[k] = "AND" /\ Kind(ts[k]) = "LOGIC_OP"
            /\ OuterOp(ts, k + 1, j, "AND") = {}
        BY <1>1, <3>1, LastOperator
      <4>2. OuterOp(ts, i, k - 1, "OR") = {} /\ OuterOp(ts, k + 1, j, "OR") = {}
        BY <1>1, <1>7, <4>1, MissingOperator
      <4> QED
        BY <4>1, <4>2
    <3>3. Peek(ts, k) = "LOGIC_OP" /\ PeekLogical(ts, k, "AND")
      BY <1>4, <3>2 DEF Peek, PeekLogical
    <3>4. PICK n \in 0..Len(ts) : Taken(AndRounds(ts, l, i)[n], k)
      <4>1. Peek(ts, (k - 1) + 1) # "COMP_OP"
        BY <1>4, <3>3
      <4>2. \E n \in 0..Len(ts) : Taken(AndRounds(ts, l, i)[n], (k - 1) + 1)
        BY <1>5, <3>1, <3>2, <4>1, Zenon DEF Takes
      <4> QED
        BY <1>4, <4>2
    <3>5. Taken(l[k + 1].factor, j + 1)
      BY <1>5, <1>7, <3>1, <3>2, Zenon DEF Takes, NoChain
    <3>6. Taken(FactorsOf(l)[k + 1], j + 1)
      BY <1>3, <1>4, <3>5
    <3>7. n + 1 \in 0..Len(ts) /\ Taken(AndRounds(ts, l, i)[n + 1], j + 1)
      BY <1>1, <1>3, <3>3, <3>4, <3>6, LoopGoesOn DEF AndRounds
    <3> QED
      BY <3>7
  <2>3. \A k : ~ OrCase(ts, i, j, k)
    BY <1>7 DEF OrCase, LastOuter
  <2>4. /\ NotCase(ts, i, j) => NoChain(ts, i, j)
        /\ AtomCase(ts, i, j) => NoChain(ts, i, j)
        /\ \A k : ComparisonCase(ts, i, j, k) => NoChain(ts, i, j)
    BY DEF NotCase, AtomCase, ComparisonCase
  <2> QED
    BY <1>1, <2>1, <2>2, <2>3, <2>4, WellFormedCases
<1>8. ASSUME last, ~ PeekLogical(ts, j + 1, "AND")
      PROVE  \E n \in 0..Len(ts) : Taken(OrRounds(ts, l, i)[n], j + 1)
  <2>1. CASE OuterOp(ts, i, j, "OR") = {}
    <3>1. PICK n \in 0..Len(ts) : Taken(AndRounds(ts, l, i)[n], j + 1)
      BY <1>7, <1>8, <2>1
    <3>2. l[i].term = AndRounds(ts, l, i)[n]
      BY <1>3, <1>8, <3>1, LoopReturns
    <3>3. Taken(OrRounds(ts, l, i)[0], j + 1)
      BY <1>3, <3>1, <3>2
    <3> QED
      BY <1>3, <3>3
  <2>2. ASSUME NEW k \in (i + 1)..(j - 1), OrCase(ts, i, j, k)
        PROVE  \E n \in 0..Len(ts) : Taken(OrRounds(ts, l, i)[n], j + 1)
    <3>1. W(i, k - 1) /\ W(k + 1, j) /\ LastOuter(OuterOp(ts, i, j, "OR"), k)
      BY <2>2 DEF OrCase
    <3>2. /\ ts[k] = "OR" /\ Kind(ts[k]) = "LOGIC_OP" /\ OuterOp(ts, k + 1, j, "OR") = {}
      BY <1>1, <3>1, LastOperator
    <3>3. /\ Peek(ts, k) = "LOGIC_OP" /\ PeekLogical(ts, k, "OR")
          /\ ~ PeekLogical(ts, k, "AND")
      BY <1>4, <3>2 DEF Peek, PeekLogical
    <3>4. PICK n \in 0..Len(ts) : Taken(OrRounds(ts, l, i)[n], k)
      <4>1. Peek(ts, (k - 1) + 1) # "COMP_OP" /\ ~ PeekLogical(ts, (k - 1) + 1, "AND")
        BY <1>4, <3>3
      <4>2. \E n \in 0..Len(ts) : Taken(OrRounds(ts, l, i)[n], (k - 1) + 1)
        BY <1>5, <3>1, <4>1, Zenon DEF Takes
      <4> QED
        BY <1>4, <4>2
    <3>5. Taken(l[k + 1].term, j + 1)
      BY <1>4, <1>5, <1>8, <3>1, <3>2, LoopsTake
    <3>6. Taken(TermsOf(l)[k + 1], j + 1)
      BY <1>3, <1>4, <3>5
    <3>7. n + 1 \in 0..Len(ts) /\ Taken(OrRounds(ts, l, i)[n + 1], j + 1)
      BY <1>1, <1>3, <3>3, <3>4, <3>6, LoopGoesOn DEF OrRounds
    <3> QED
      BY <3>7
  <2>3. /\ NotCase(ts, i, j) => NoChain(ts, i, j)
        /\ AtomCase(ts, i, j) => NoChain(ts, i, j)
        /\ \A k : ComparisonCase(ts, i, j, k) => NoChain(ts, i, j)
        /\ \A k : AndCase(ts, i, j, k) => OuterOp(ts, i, j, "OR") = {}
        /\ NoChain(ts, i, j) => OuterOp(ts, i, j, "OR") = {}
    BY DEF NotCase, AtomCase, ComparisonCase, AndCase, NoChain
  <2> QED
    BY <1>1, <2>1, <2>2, <2>3, WellFormedCases
<1> QED
  BY <1>2, <1>6, <1>7, <1>8, Zenon DEF Takes

\* The parser takes every part that is well formed.
LEMMA ParserComplete ==
  ASSUME NEW ts, Text(ts), NEW l, Rows(ts, l)
  PROVE  \A i \in 1..Len(ts), j \in 1..Len(ts) : Takes(ts, l, i, j)
<1> DEFINE N == Len(ts)
           Q == {w \in Nat : \A i \in 1..N, j \in 1..N : j - i + N < w => Takes(ts, l, i, j)}
<1>1. N \in Nat
  BY DEF Text
<1>2. 0 \in Q
  <2>1. \A i \in 1..N, j \in 1..N : ~ (j - i + N < 0)
    BY <1>1
  <2> QED
    BY <2>1
<1>3. ASSUME NEW w \in Nat, w \in Q
      PROVE  w + 1 \in Q
  <2> SUFFICES ASSUME NEW i \in 1..N, NEW j \in 1..N, j - i + N < w + 1
               PROVE  Takes(ts, l, i, j)
    OBVIOUS
  <2>1. \A a \in 1..N, b \in 1..N : b - a < j - i => b - a + N < w
    BY <1>1
  <2>2. \A a \in 1..N, b \in 1..N : b - a < j - i => Takes(ts, l, a, b)
    BY <1>3, <2>1
  <2> QED
    BY <2>2, PartTaken
<1>4. \A w \in Nat : w \in Q
  <2> HIDE DEF Q
  <2> QED
    BY <1>2, <1>3, AllNaturals
<1>5. 2 * N + 1 \in Nat /\ \A i \in 1..N, j \in 1..N : j - i + N < 2 * N + 1
  BY <1>1
<1> QED
  BY <1>4, <1>5

-----------------------------------------------------------------------------
(* Texts of patterns                                                       *)

\* The tokens of a token in parentheses.
LEMMA TokensOfToken ==
  ASSUME NEW ts, NEW i \in Int, NEW j \in Int, NEW kinds, IsToken(ts, i, j, kinds),
         NEW m \in i..j
  PROVE  Kind(ts[m]) \in kinds \cup {"LPAREN", "RPAREN"}
<1>1. i <= j /\ First(ts, i, j) = Last(ts, i, j) /\ Kind(ts[First(ts, i, j)]) \in kinds
  BY DEF IsToken
<1>2. First(ts, i, j) \in Int
  BY <1>1, LayersIs DEF First
<1>3. m \in First(ts, i, j)..Last(ts, i, j) \/ ts[m] \in Paren
  BY <1>1, TokensOfLayers
<1>4. m \in First(ts, i, j)..Last(ts, i, j) => m = First(ts, i, j)
  BY <1>1, <1>2
<1> QED
  BY <1>1, <1>3, <1>4, Kinds DEF Paren

\* The tokens of an aggregate.
LEMMA TokensOfAggregate ==
  ASSUME NEW ts, NEW i \in Int, NEW j \in Int, IsAggregate(ts, i, j)
  PROVE  /\ \E m \in i..j : Kind(ts[m]) = "AGG_FUNCTION"
         /\ \A m \in i..j : Kind(ts[m]) # "LOGIC_OP"
<1> DEFINE f == First(ts, i, j)
           g == Last(ts, i, j)
<1>1. /\ i <= j /\ f + 2 < g
      /\ Kind(ts[f]) = "AGG_FUNCTION" /\ ts[f + 1] = "(" /\ ts[g] = ")"
      /\ \/ f + 2 = g - 1 /\ ts[f + 2] = "*"
         \/ IsToken(ts, f + 2, g - 1, {"FIELD"})
  BY Zenon DEF IsAggregate
<1>2. f \in i..j /\ g \in Int
  BY <1>1, LayersIs DEF First, Last
<1>3. \A m \in i..j : m \in f..g \/ ts[m] \in Paren
  BY <1>1, TokensOfLayers
<1> HIDE DEF f, g
<1>4. ASSUME NEW m \in i..j
      PROVE  Kind(ts[m]) # "LOGIC_OP"
  <2>1. CASE ts[m] \in Paren
    BY <2>1, Kinds DEF Paren
  <2>2. CASE m \in f..g
    <3>1. m = f \/ m = f + 1 \/ m = g \/ m \in (f + 2)..(g - 1)
      BY <1>2, <2>2
    <3>2. ASSUME m \in (f + 2)..(g - 1)
          PROVE  Kind(ts[m]) # "LOGIC_OP"
      <4>1. CASE f + 2 = g - 1 /\ ts[f + 2] = "*"
        <5>1. m = f + 2
          BY <1>2, <3>2, <4>1
        <5> QED
          BY <4>1, <5>1, Kinds
      <4>2. CASE IsToken(ts, f + 2, g - 1, {"FIELD"})
        <5>1. f + 2 \in Int /\ g - 1 \in Int
          BY <1>2
        <5>2. Kind(ts[m]) \in {"FIELD"} \cup {"LPAREN", "RPAREN"}
          BY <3>2, <4>2, <5>1, TokensOfToken
        <5> QED
          BY <5>2
      <4> QED
        BY <1>1, <4>1, <4>2
    <3>3. Kind(ts[f]) # "LOGIC_OP" /\ Kind(ts[f + 1]) # "LOGIC_OP" /\ Kind(ts[g]) # "LOGIC_OP"
      BY <1>1, Kinds
    <3> QED
      BY <3>1, <3>2, <3>3
  <2> QED
    BY <1>3, <2>1, <2>2
<1> QED
  BY <1>1, <1>2, <1>4

\* What the parser makes of tokens and aggregates.
TakesToken(ts, l, i, j) ==
  /\ IsToken(ts, i, j, LiteralKind) =>
       Taken(l[i].atom, j + 1) /\ l[i].atom.node.kind = "literal"
  /\ IsToken(ts, i, j, {"FIELD"}) =>
       Taken(l[i].atom, j + 1) /\ l[i].atom.node.kind = "field"
  /\ IsAggregate(ts, i, j) =>
       Taken(l[i].atom, j + 1) /\ l[i].atom.node.kind = "aggregate"

\* One token without parentheses around it.
LEMMA BareTokenTaken ==
  ASSUME NEW ts, Text(ts), NEW l, Rows(ts, l), NEW i \in 1..Len(ts), NEW j \in 1..Len(ts),
         ~ InParentheses(ts, i, j)
  PROVE  /\ IsToken(ts, i, j, LiteralKind) =>
              Taken(l[i].atom, j + 1) /\ l[i].atom.node.kind = "literal"
         /\ IsToken(ts, i, j, {"FIELD"}) =>
              Taken(l[i].atom, j + 1) /\ l[i].atom.node.kind = "field"
<1> DEFINE a == l[i].atom
<1>1. AtomCases(ts, i, ParseOperand(ts, i + 2, l), l[i + 1].expression, a)
  BY DEF Rows
<1>2. Peek(ts, i) = Kind(ts[i])
  BY DEF Peek, Text
<1>3. ASSUME NEW kinds, IsToken(ts, i, j, kinds)
      PROVE  i = j /\ Kind(ts[i]) \in kinds
  <2>1. i <= j
    BY <1>3 DEF IsToken
  <2>2. First(ts, i, j) = i /\ Last(ts, i, j) = j
    BY <2>1, NoLayer
  <2> QED
    BY <1>3, <2>2 DEF IsToken
<1> HIDE DEF a
<1>4. ASSUME IsToken(ts, i, j, LiteralKind)
      PROVE  Taken(a, j + 1) /\ a.node.kind = "literal"
  <2>1. i = j /\ Kind(ts[i]) \in LiteralKind
    BY <1>3, <1>4
  <2>2. a = Parsed(AtomLiteral(ts[i]), i + 1)
    BY <1>1, <1>2, <2>1 DEF AtomCases, LiteralKind
  <2>3. AtomLiteral(ts[i]).kind = "literal"
    BY <2>1, Literals
  <2> QED
    BY <2>1, <2>2, <2>3, Results DEF Taken
<1>5. ASSUME IsToken(ts, i, j, {"FIELD"})
      PROVE  Taken(a, j + 1) /\ a.node.kind = "field"
  <2>1. i = j /\ Kind(ts[i]) = "FIELD"
    BY <1>3, <1>5
  <2>2. a = Parsed(FieldNode(ts[i]), i + 1)
    BY <1>1, <1>2, <2>1 DEF AtomCases, LiteralKind
  <2> QED
    BY <2>1, <2>2, Results DEF Taken, FieldNode
<1> QED
  BY <1>4, <1>5 DEF a

\* An aggregate without parentheses around it.
LEMMA BareAggregateTaken ==
  ASSUME NEW ts, Text(ts), NEW l, Rows(ts, l), NEW i \in 1..Len(ts), NEW j \in 1..Len(ts),
         ~ InParentheses(ts, i, j), IsAggregate(ts, i, j), TakesToken(ts, l, i + 2, j - 1)
  PROVE  Taken(l[i].atom, j + 1) /\ l[i].atom.node.kind = "aggregate"
<1> DEFINE a == l[i].atom
           b == l[i + 2].atom
           o == ParseOperand(ts, i + 2, l)
<1>1. AtomCases(ts, i, o, l[i + 1].expression, a)
  BY DEF Rows
<1>2. OperandCases(ts, i + 2, l, o)
  BY OperandIs
<1>3. i <= j /\ i \in Int /\ j \in Int /\ Len(ts) \in Nat
  BY DEF IsAggregate, Text
<1>4. First(ts, i, j) = i /\ Last(ts, i, j) = j
  BY <1>3, NoLayer
<1>5. /\ i + 2 < j
      /\ Kind(ts[i]) = "AGG_FUNCTION" /\ ts[i + 1] = "(" /\ ts[j] = ")"
      /\ \/ i + 2 = j - 1 /\ ts[i + 2] = "*"
         \/ IsToken(ts, i + 2, j - 1, {"FIELD"})
  BY <1>4, Zenon DEF IsAggregate
<1>6. i + 1 <= Len(ts) /\ i + 2 \in 1..Len(ts) /\ (j - 1) + 1 = j /\ (i + 2) + 1 = i + 3
  BY <1>3, <1>5
<1>7. /\ Peek(ts, i) = "AGG_FUNCTION" /\ Peek(ts, i + 1) = "LPAREN" /\ Peek(ts, j) = "RPAREN"
      /\ Peek(ts, i + 2) = Kind(ts[i + 2])
  BY <1>5, <1>6, Kinds DEF Peek
<1>8. Taken(o, j)
  <2>1. CASE i + 2 = j - 1 /\ ts[i + 2] = "*"
    <3>1. Peek(ts, i + 2) = "WILDCARD"
      BY <1>7, <2>1, Kinds
    <3>2. \E node : o = Parsed(node, (i + 2) + 1)
      BY <1>2, <3>1 DEF OperandCases
    <3>3. (i + 2) + 1 = j
      BY <1>3, <2>1
    <3> QED
      BY <3>2, <3>3, Results DEF Taken
  <2>2. CASE IsToken(ts, i + 2, j - 1, {"FIELD"})
    <3>1. b.ok /\ b.pos = j /\ b.node.kind = "field"
      BY <1>6, <2>2 DEF TakesToken, Taken
    <3>2. AtomCases(ts, i + 2, ParseOperand(ts, (i + 2) + 2, l), l[(i + 2) + 1].expression, b)
      BY <1>6 DEF Rows
    <3>3. Peek(ts, i + 2) # "WILDCARD"
      <4> HIDE DEF b
      <4> QED
        BY <3>1, <3>2, Results DEF AtomCases, LiteralKind
    <3>4. o = Parsed(b.node, b.pos)
      BY <1>2, <3>1, <3>3 DEF OperandCases
    <3> QED
      BY <3>1, <3>4, Results DEF Taken
  <2> QED
    BY <1>5, <2>1, <2>2
<1> SUFFICES Taken(a, j + 1) /\ a.node.kind = "aggregate"
  OBVIOUS
<1> HIDE DEF a, b, o
<1>9. o.ok /\ o.pos = j
  BY <1>8 DEF Taken
<1>10. a = Parsed(Aggregate(ts[i], o.node), o.pos + 1)
  BY <1>1, <1>7, <1>9 DEF AtomCases, LiteralKind
<1> QED
  BY <1>9, <1>10, Results DEF Taken, Aggregate

\* The same within parentheses, if it is so of the narrower parts.
LEMMA TokenTaken ==
  ASSUME NEW ts, Text(ts), NEW l, Rows(ts, l), NEW i \in 1..Len(ts), NEW j \in 1..Len(ts),
         \A a \in 1..Len(ts), b \in 1..Len(ts) : b - a < j - i => TakesToken(ts, l, a, b)
  PROVE  TakesToken(ts, l, i, j)
<1>1. Len(ts) \in Nat /\ i \in Int /\ j \in Int
  BY DEF Text
<1>2. CASE ~ InParentheses(ts, i, j)
  <2>1. ASSUME IsAggregate(ts, i, j)
        PROVE  Taken(l[i].atom, j + 1) /\ l[i].atom.node.kind = "aggregate"
    <3>1. i <= j
      BY <2>1 DEF IsAggregate
    <3>2. First(ts, i, j) = i /\ Last(ts, i, j) = j
      BY <1>1, <1>2, <3>1, NoLayer
    <3>3. i + 2 < j
      BY <2>1, <3>2 DEF IsAggregate
    <3>4. i + 2 \in 1..Len(ts) /\ j - 1 \in 1..Len(ts) /\ (j - 1) - (i + 2) < j - i
      BY <1>1, <3>3
    <3>5. TakesToken(ts, l, i + 2, j - 1)
      BY <3>4
    <3> QED
      BY <1>2, <2>1, <3>5, BareAggregateTaken
  <2> QED
    BY <1>2, <2>1, BareTokenTaken DEF TakesToken
<1>3. CASE InParentheses(ts, i, j)
  <2>1. /\ ts[i] = "(" /\ ts[j] = ")" /\ i + 1 \in 1..Len(ts) /\ j - 1 \in 1..Len(ts)
        /\ (j - 1) - (i + 1) < j - i /\ (j - 1) + 1 = j
    BY <1>1, <1>3 DEF InParentheses
  <2>2. /\ \A kinds : IsToken(ts, i, j, kinds) <=> IsToken(ts, i + 1, j - 1, kinds)
        /\ IsAggregate(ts, i, j) <=> IsAggregate(ts, i + 1, j - 1)
    BY <1>1, <1>3, TokenUp
  <2>3. TakesToken(ts, l, i + 1, j - 1)
    BY <2>1
  <2>4. Peek(ts, j) = "RPAREN"
    BY <1>1, <2>1, Kinds DEF Peek
  <2>5. ASSUME Taken(l[i + 1].atom, j)
        PROVE  Taken(l[i].atom, j + 1) /\ l[i].atom.node = l[i + 1].atom.node
    <3>1. /\ Taken(l[i + 1].expression, j)
          /\ l[i + 1].expression.node = l[i + 1].atom.node
      BY <2>1, <2>4, <2>5, PassedUp
    <3>2. Taken(l[i].atom, j + 1) /\ l[i].atom.node = l[i + 1].expression.node
      BY <2>1, <3>1, ParenTaken
    <3> QED
      BY <3>1, <3>2
  <2> QED
    BY <2>1, <2>2, <2>3, <2>5 DEF TakesToken
<1> QED
  BY <1>2, <1>3

\* The parser takes every token and every aggregate.
LEMMA TokensComplete ==
  ASSUME NEW ts, Text(ts), NEW l, Rows(ts, l)
  PROVE  \A i \in 1..Len(ts), j \in 1..Len(ts) : TakesToken(ts, l, i, j)
<1> DEFINE N == Len(ts)
           Q == {w \in Nat : \A i \in 1..N, j \in 1..N :
                   j - i + N < w => TakesToken(ts, l, i, j)}
<1>1. N \in Nat
  BY DEF Text
<1>2. 0 \in Q
  <2>1. \A i \in 1..N, j \in 1..N : ~ (j - i + N < 0)
    BY <1>1
  <2> QED
    BY <2>1
<1>3. ASSUME NEW w \in Nat, w \in Q
      PROVE  w + 1 \in Q
  <2> SUFFICES ASSUME NEW i \in 1..N, NEW j \in 1..N, j - i + N < w + 1
               PROVE  TakesToken(ts, l, i, j)
    OBVIOUS
  <2>1. \A a \in 1..N, b \in 1..N : b - a < j - i => b - a + N < w
    BY <1>1
  <2>2. \A a \in 1..N, b \in 1..N : b - a < j - i => TakesToken(ts, l, a, b)
    BY <1>3, <2>1
  <2> QED
    BY <2>2, TokenTaken
<1>4. \A w \in Nat : w \in Q
  <2> HIDE DEF Q
  <2> QED
    BY <1>2, <1>3, AllNaturals
<1>5. 2 * N + 1 \in Nat /\ \A i \in 1..N, j \in 1..N : j - i + N < 2 * N + 1
  BY <1>1
<1> QED
  BY <1>4, <1>5

-----------------------------------------------------------------------------
(* Which texts the form takes                                              *)

\* left and right are the sides of the pattern.
PatternCases(ts, left, right, r) ==
  LET taken == /\ left.ok /\ left.node.kind = "aggregate" /\ Peek(ts, left.pos) = "COMP_OP"
               /\ right.ok /\ right.node.kind = "literal"
  IN \/ /\ taken
        /\ r = Parsed(Comparison(CompOpMap[ts[left.pos]], left.node, right.node), right.pos)
     \/ ~ taken /\ r = Failed

\* What the branch of pattern rules returns.
LEMMA PatternIs ==
  ASSUME NEW ts, NEW l
  PROVE  PatternCases(ts, l[1].atom, l[l[1].atom.pos + 1].atom, ParsePattern(ts, l))
BY Zenon DEF ParsePattern, Then, PatternCases

\* What parse_entrypoint returns, and when it is a node.
LEMMA ParseIs ==
  ASSUME NEW ts, NEW type
  PROVE  /\ Parse(ts, type).ok <=>
              Validated(ts, type) /\ Taken(Branch(ts, type), Len(ts) + 1)
         /\ Parse(ts, type).ok => Parse(ts, type) = Branch(ts, type)
BY Results, Zenon DEF Parse, ParseEntrypoint, Taken

\* The texts of patterns have no other tokens.
LEMMA PatternTokens ==
  ASSUME NEW ts, Text(ts), NEW k \in 1..Len(ts), Kind(ts[k]) = "COMP_OP",
         IsAggregate(ts, 1, k - 1), IsToken(ts, k + 1, Len(ts), LiteralKind)
  PROVE  Validated(ts, "PATTERN")
<1>1. Len(ts) \in Nat /\ k \in Int /\ k - 1 \in Int /\ k + 1 \in Int /\ Len(ts) \in Int
      /\ DOMAIN ts = 1..Len(ts)
  BY DEF Text
<1>2. ts # <<>>
  BY <1>1
<1>3. \E m \in 1..(k - 1) : Kind(ts[m]) = "AGG_FUNCTION"
  BY <1>1, TokensOfAggregate
<1>4. \A m \in 1..(k - 1) : Kind(ts[m]) # "LOGIC_OP"
  BY <1>1, TokensOfAggregate
<1>5. ASSUME NEW m \in (k + 1)..Len(ts)
      PROVE  Kind(ts[m]) # "LOGIC_OP"
  <2>1. Kind(ts[m]) \in LiteralKind \cup {"LPAREN", "RPAREN"}
    BY <1>1, TokensOfToken
  <2> QED
    BY <2>1 DEF LiteralKind
<1>6. /\ \A m \in 1..Len(ts) : m \in 1..(k - 1) \/ m = k \/ m \in (k + 1)..Len(ts)
      /\ \A m \in 1..(k - 1) : m \in 1..Len(ts)
  BY <1>1
<1>7. ~ Has(ts, "LOGIC_OP")
  BY <1>1, <1>4, <1>5, <1>6 DEF Has
<1>8. Has(ts, "COMP_OP") /\ Has(ts, "AGG_FUNCTION")
  BY <1>1, <1>3, <1>6 DEF Has
<1> QED
  BY <1>2, <1>7, <1>8, Zenon DEF Validated

\* The form of patterns takes the texts of its language and no others.
LEMMA PatternAccepted ==
  ASSUME NEW ts, Text(ts)
  PROVE  Parse(ts, "PATTERN").ok <=> InLanguage(ts, "PATTERN")
<1> DEFINE l == Parser(ts)
           N == Len(ts)
           left == l[1].atom
           right == l[left.pos + 1].atom
           r == Branch(ts, "PATTERN")
<1>1. N \in Nat /\ Rows(ts, l)
  BY RowsOfParser DEF Text
<1>2. PatternCases(ts, left, right, r)
  BY PatternIs DEF Branch
<1>3. Parse(ts, "PATTERN").ok <=> Validated(ts, "PATTERN") /\ Taken(r, N + 1)
  BY ParseIs
<1>4. InLanguage(ts, "PATTERN") <=>
        \E k \in Outer(ts, 1, N, "COMP_OP") :
          IsAggregate(ts, 1, k - 1) /\ IsToken(ts, k + 1, N, LiteralKind)
  BY DEF InLanguage
<1>5. ASSUME NEW k \in Outer(ts, 1, N, "COMP_OP"),
             IsAggregate(ts, 1, k - 1), IsToken(ts, k + 1, N, LiteralKind)
      PROVE  Validated(ts, "PATTERN") /\ Taken(r, N + 1)
  <2>1. k \in 1..N /\ Kind(ts[k]) = "COMP_OP"
    BY Zenon DEF Outer
  <2>2. 1 <= k - 1 /\ k + 1 <= N
    BY <1>5 DEF IsAggregate, IsToken
  <2>3. 1 \in 1..N /\ k - 1 \in 1..N /\ k + 1 \in 1..N /\ N \in 1..N /\ (k - 1) + 1 = k
    BY <1>1, <2>1, <2>2
  <2>4. TakesToken(ts, l, 1, k - 1) /\ TakesToken(ts, l, k + 1, N)
    BY <1>1, <2>3, TokensComplete
  <2>5. Taken(left, k) /\ left.node.kind = "aggregate"
    BY <1>5, <2>3, <2>4 DEF TakesToken
  <2>6. Taken(l[k + 1].atom, N + 1) /\ l[k + 1].atom.node.kind = "literal"
    BY <1>5, <2>4 DEF TakesToken
  <2>7. left.ok /\ left.pos = k /\ right.ok /\ right.pos = N + 1 /\ right.node.kind = "literal"
    BY <2>5, <2>6 DEF Taken
  <2>8. Peek(ts, k) = "COMP_OP"
    BY <1>1, <2>1 DEF Peek
  <2> HIDE DEF l, left, right, r
  <2>9. r = Parsed(Comparison(CompOpMap[ts[left.pos]], left.node, right.node), right.pos)
    BY <1>2, <2>5, <2>7, <2>8, Zenon DEF PatternCases
  <2>10. Taken(r, N + 1)
    BY <2>7, <2>9, Results DEF Taken
  <2>11. Validated(ts, "PATTERN")
    BY <1>5, <2>1, PatternTokens
  <2> QED
    BY <2>10, <2>11
<1>6. ASSUME Taken(r, N + 1)
      PROVE  \E k \in Outer(ts, 1, N, "COMP_OP") :
               IsAggregate(ts, 1, k - 1) /\ IsToken(ts, k + 1, N, LiteralKind)
  <2> DEFINE k == left.pos
  <2>1. /\ left.ok /\ left.node.kind = "aggregate" /\ Peek(ts, k) = "COMP_OP"
        /\ right.ok /\ right.node.kind = "literal" /\ right.pos = N + 1
    <3> HIDE DEF left, right, r
    <3> QED
      BY <1>2, <1>6, Results DEF PatternCases, Taken
  <2>2. 1 \in 1..(N + 1) /\ 1 \in Nat
    BY <1>1
  <2>3. InRange(ts, left, 1)
    BY <1>1, <2>2 DEF Rows, TableInRange
  <2>4. k \in Nat /\ k \in 2..(N + 1) /\ k <= N /\ Kind(ts[k]) = "COMP_OP"
    <3> HIDE DEF left
    <3>1. k \in Nat /\ k \in (1 + 1)..(N + 1)
      BY <1>1, <2>1, <2>2, <2>3, Leaves
    <3>2. k <= N /\ Kind(ts[k]) = "COMP_OP"
      BY <2>1, Peeks
    <3> QED
      BY <3>1, <3>2
  <2>5. k + 1 \in 1..(N + 1) /\ 1 \in Int /\ k \in Int /\ N \in Int /\ (N + 1) - 1 = N
    BY <1>1, <2>4
  <2>6. \A q \in 1..(N + 1) : SoundRow(<<>>, ts, l[q], q)
    BY ParserSound
  <2>7. SoundAtom(<<>>, ts, left, 1) /\ SoundAtom(<<>>, ts, right, k + 1)
    BY <2>2, <2>5, <2>6 DEF SoundRow
  <2> HIDE DEF left, right, k, l, r
  <2>8. Shape(ts, left.node, 1, k - 1) /\ Balanced(ts, 1, k - 1)
    BY <2>1, <2>7 DEF SoundAtom, Fact, AtomSpan, k
  <2>9. Shape(ts, right.node, k + 1, N) /\ Balanced(ts, k + 1, N) /\ k + 1 <= N
    BY <2>1, <2>5, <2>7 DEF SoundAtom, Fact, AtomSpan
  <2>10. IsAggregate(ts, 1, k - 1)
    BY <2>1, <2>8 DEF Shape
  <2>11. IsToken(ts, k + 1, N, LiteralKind)
    BY <2>1, <2>9 DEF Shape, IsToken
  <2>12. ts[k] \notin Paren
    BY <2>4, Kinds DEF Paren
  <2>13. k \in 1..N /\ Depth(ts, 1, k) = 0
    BY <2>5, <2>8, <2>9, <2>12, Joined
  <2>14. k \in Outer(ts, 1, N, "COMP_OP")
    BY <2>4, <2>13 DEF Outer
  <2> QED
    BY <2>10, <2>11, <2>14
<1> HIDE DEF l, left, right, r, N
<1> QED
  BY <1>3, <1>4, <1>5, <1>6, Zenon

\* What the method of the form returns is a node of the whole text.
MethodOf(ts, type) ==
  IF type = "THRESHOLD" THEN Parser(ts)[1].comparison ELSE Parser(ts)[1].expression

\* The forms of conditions take the texts of their languages and no others.
LEMMA ConditionAccepted ==
  ASSUME NEW ts, Text(ts), NEW type \in {"THRESHOLD", "COMPOSITE"}
  PROVE  Parse(ts, type).ok <=> InLanguage(ts, type)
<1> DEFINE l == Parser(ts)
           N == Len(ts)
           r == MethodOf(ts, type)
           Tokens == IF type = "THRESHOLD"
                     THEN ~ Has(ts, "LOGIC_OP") /\ Has(ts, "COMP_OP")
                     ELSE Has(ts, "LOGIC_OP")
<1>1. N \in Nat /\ DOMAIN ts = 1..N /\ Rows(ts, l)
  BY RowsOfParser DEF Text
<1>2. Parse(ts, type).ok <=> Validated(ts, type) /\ Taken(r, N + 1)
  <2>1. r = Branch(ts, type)
    BY DEF MethodOf, Branch
  <2> QED
    BY <2>1, ParseIs
<1>3. Validated(ts, type) <=> ~ Has(ts, "AGG_FUNCTION") /\ Tokens
  <2>1. Tokens => ts # <<>>
    BY <1>1 DEF Has
  <2> QED
    BY <2>1 DEF Validated
<1>4. InLanguage(ts, type) <=>
        ~ Has(ts, "AGG_FUNCTION") /\ Tokens /\ WellFormed(ts)[<<1, N>>]
  BY DEF InLanguage
<1>5. ASSUME Tokens, WellFormed(ts)[<<1, N>>]
      PROVE  Taken(r, N + 1)
  <2>1. 1 \in 1..N /\ N \in 1..N
    BY <1>1, <1>5 DEF Has
  <2>2. Takes(ts, l, 1, N)
    BY <1>1, <2>1, ParserComplete
  <2>3. Peek(ts, N + 1) = "END" /\ \A op : ~ PeekLogical(ts, N + 1, op)
    BY <1>1 DEF Peek, PeekLogical
  <2>4. CASE type = "COMPOSITE"
    <3>1. r = l[1].expression
      BY <2>4 DEF MethodOf
    <3>2. Peek(ts, N + 1) # "COMP_OP"
      BY <2>3
    <3> HIDE DEF l, r
    <3> QED
      BY <1>1, <1>5, <2>1, <2>2, <2>3, <3>1, <3>2, LoopsTake
  <2>5. CASE type = "THRESHOLD"
    <3>1. r = l[1].comparison
      BY <2>5 DEF MethodOf
    <3>2. ~ Has(ts, "LOGIC_OP")
      BY <1>5, <2>5
    <3>3. NoChain(ts, 1, N)
      BY <1>1, <3>2 DEF NoChain, OuterOp, Outer, Has
    <3>4. Taken(l[1].factor, N + 1)
      BY <1>5, <2>2, <2>3, <3>3 DEF Takes
    <3>5. ~ PeekLogical(ts, 1, "NOT")
      BY <1>1, <2>1, <3>2, Kinds DEF PeekLogical, Has
    <3>6. FactorCases(ts, 1, l[1 + 1].factor, l[1].comparison, l[1].factor)
      BY <1>1, <2>1 DEF Rows
    <3> HIDE DEF l, r
    <3> QED
      BY <3>1, <3>4, <3>5, <3>6 DEF FactorCases
  <2> QED
    BY <2>4, <2>5
<1>6. ASSUME Taken(r, N + 1), ~ Has(ts, "AGG_FUNCTION")
      PROVE  WellFormed(ts)[<<1, N>>]
  <2>1. SoundRow(<<>>, ts, l[1], 1) /\ (N + 1) - 1 = N
    <3>1. 1 \in 1..(N + 1) /\ (N + 1) - 1 = N
      BY <1>1
    <3>2. \A q \in 1..(N + 1) : SoundRow(<<>>, ts, l[q], q)
      BY ParserSound
    <3> QED
      BY <3>1, <3>2
  <2>2. r.ok /\ r.pos - 1 = N
    BY <1>6, <2>1 DEF Taken
  <2>3. Fact(<<>>, ts, r.node, 1, N)
    BY <2>1, <2>2 DEF SoundRow, SoundComparison, SoundExpression, MethodOf
  <2> QED
    BY <1>6, <2>3 DEF Fact
<1> HIDE DEF l, N, r, Tokens
<1> QED
  BY <1>2, <1>3, <1>4, <1>5, <1>6, Zenon

\* The parser takes the texts of the language and no others.
LEMMA TextsAccepted ==
  ASSUME NEW ts, Text(ts), NEW type \in {"THRESHOLD", "COMPOSITE", "PATTERN"}
  PROVE  Parse(ts, type).ok <=> InLanguage(ts, type)
BY PatternAccepted, ConditionAccepted

-----------------------------------------------------------------------------
(* The outcome of a tree                                                   *)

\* The generations of a tree, one by one.
LEMMA GenerationsAre ==
  ASSUME NEW e
  PROVE  /\ Generations(e)[0] = {e}
         /\ \A n \in 1..(MaxDepth + 1) :
              Generations(e)[n] = UNION {Children(x) : x \in Generations(e)[n - 1]}
<1> DEFINE M == MaxDepth + 1
           start == {e}
           Step(n, previous) == UNION {Children(x) : x \in previous}
           Body(n, f) == IF n = 0 THEN start ELSE Step(n, f[n - 1])
           P == {m \in Nat : \E f : f = [n \in 0..m |-> Body(n, f)]}
<1>1. 0 \in P
  <2>1. [n \in 0..0 |-> start] = [n \in 0..0 |-> Body(n, [k \in 0..0 |-> start])]
    OBVIOUS
  <2> QED
    BY <2>1
<1>2. ASSUME NEW m \in Nat, m \in P
      PROVE  m + 1 \in P
  <2>1. PICK f : f = [n \in 0..m |-> Body(n, f)]
    BY <1>2
  <2> DEFINE g == [n \in 0..(m + 1) |-> IF n = m + 1 THEN Step(n, f[m]) ELSE f[n]]
  <2> HIDE DEF Step, start
  <2>2. ASSUME NEW n \in 0..(m + 1)
        PROVE  g[n] = Body(n, g)
    <3>1. CASE n = 0
      <4>1. 0 \in 0..m /\ 0 # m + 1
        OBVIOUS
      <4>2. f[0] = start
        BY <2>1, <4>1
      <4> QED
        BY <3>1, <4>1, <4>2
    <3>2. CASE n = m + 1
      <4>1. n # 0 /\ n - 1 = m /\ m \in 0..(m + 1) /\ m # m + 1
        BY <3>2
      <4>2. g[n] = Step(n, f[m]) /\ g[n - 1] = f[m]
        BY <3>2, <4>1
      <4> HIDE DEF g
      <4> QED
        BY <4>1, <4>2
    <3>3. CASE n # 0 /\ n # m + 1
      <4>1. n \in 0..m /\ n - 1 \in 0..m /\ n - 1 \in 0..(m + 1) /\ n - 1 # m + 1
        BY <3>3
      <4>2. g[n] = f[n] /\ g[n - 1] = f[n - 1]
        BY <3>3, <4>1
      <4>3. f[n] = Step(n, f[n - 1])
        BY <2>1, <3>3, <4>1
      <4> HIDE DEF g
      <4> QED
        BY <3>3, <4>2, <4>3
    <3> QED
      BY <3>1, <3>2, <3>3
  <2>3. g = [n \in 0..(m + 1) |-> Body(n, g)]
    <3>1. g = [n \in 0..(m + 1) |-> g[n]]
      OBVIOUS
    <3> HIDE DEF g, Body
    <3> QED
      BY <2>2, <3>1
  <2> HIDE DEF g
  <2> QED
    BY <2>3, m + 1 \in Nat
<1>3. M \in P
  <2>1. M \in Nat
    BY DepthAssumption
  <2> HIDE DEF P, M
  <2> QED
    BY <1>1, <1>2, <2>1, AllNaturals
<1>4. PICK f : f = [n \in 0..M |-> Body(n, f)]
  BY <1>3
<1> HIDE DEF P
<1>5. Generations(e) = [n \in 0..M |-> Body(n, Generations(e))]
  BY <1>4, Zenon DEF Generations
<1>6. \A n \in 0..M : Generations(e)[n] = Body(n, Generations(e))
  BY <1>5, Zenon
<1> HIDE DEF Body
<1>7. M \in Nat
  BY DepthAssumption
<1>8. 0 \in 0..M /\ \A n \in 1..M : n \in 0..M /\ n # 0
  BY <1>7
<1> QED
  BY <1>6, <1>8, Zenon DEF Body

\* What a node has below it.
Below(outcome, n) == IF n = 0 THEN <<>> ELSE outcome[n - 1]

\* A table of outcomes for tree e.
IsTable(r, t, a, e, outcome) ==
  \A n \in 0..MaxDepth :
    /\ DOMAIN outcome[n] = Generations(e)[MaxDepth - n]
    /\ \A x \in Generations(e)[MaxDepth - n] :
         outcome[n][x] = EvaluateNode(r, t, a, x, Below(outcome, n))

\* The table of outcomes is built from the leaves up.
LEMMA OutcomesAre ==
  ASSUME NEW r, NEW t, NEW a, NEW e
  PROVE  \E outcome : /\ EvaluateExpression(r, t, a, e) = outcome[MaxDepth][e]
                      /\ IsTable(r, t, a, e, outcome)
<1> DEFINE M == MaxDepth
           Table(n, below) == [x \in Generations(e)[MaxDepth - n] |->
                                 EvaluateNode(r, t, a, x, below)]
           start == Table(0, <<>>)
           Step(n, previous) == Table(n, previous)
           Body(n, f) == IF n = 0 THEN start ELSE Step(n, f[n - 1])
           P == {m \in Nat : \E f : f = [n \in 0..m |-> Body(n, f)]}
<1> HIDE DEF Table
<1>1. 0 \in P
  <2>1. [n \in 0..0 |-> start] = [n \in 0..0 |-> Body(n, [k \in 0..0 |-> start])]
    OBVIOUS
  <2> QED
    BY <2>1
<1>2. ASSUME NEW m \in Nat, m \in P
      PROVE  m + 1 \in P
  <2>1. PICK f : f = [n \in 0..m |-> Body(n, f)]
    BY <1>2
  <2> DEFINE g == [n \in 0..(m + 1) |-> IF n = m + 1 THEN Step(n, f[m]) ELSE f[n]]
  <2> HIDE DEF Step, start
  <2>2. ASSUME NEW n \in 0..(m + 1)
        PROVE  g[n] = Body(n, g)
    <3>1. CASE n = 0
      <4>1. 0 \in 0..m /\ 0 # m + 1
        OBVIOUS
      <4>2. f[0] = start
        BY <2>1, <4>1
      <4> QED
        BY <3>1, <4>1, <4>2
    <3>2. CASE n = m + 1
      <4>1. n # 0 /\ n - 1 = m /\ m \in 0..(m + 1) /\ m # m + 1
        BY <3>2
      <4>2. g[n] = Step(n, f[m]) /\ g[n - 1] = f[m]
        BY <3>2, <4>1
      <4> HIDE DEF g
      <4> QED
        BY <4>1, <4>2
    <3>3. CASE n # 0 /\ n # m + 1
      <4>1. n \in 0..m /\ n - 1 \in 0..m /\ n - 1 \in 0..(m + 1) /\ n - 1 # m + 1
        BY <3>3
      <4>2. g[n] = f[n] /\ g[n - 1] = f[n - 1]
        BY <3>3, <4>1
      <4>3. f[n] = Step(n, f[n - 1])
        BY <2>1, <3>3, <4>1
      <4> HIDE DEF g
      <4> QED
        BY <3>3, <4>2, <4>3
    <3> QED
      BY <3>1, <3>2, <3>3
  <2>3. g = [n \in 0..(m + 1) |-> Body(n, g)]
    <3>1. g = [n \in 0..(m + 1) |-> g[n]]
      OBVIOUS
    <3> HIDE DEF g, Body
    <3> QED
      BY <2>2, <3>1
  <2> HIDE DEF g
  <2> QED
    BY <2>3, m + 1 \in Nat
<1>3. M \in P
  <2>1. M \in Nat
    BY DepthAssumption
  <2> HIDE DEF P, M
  <2> QED
    BY <1>1, <1>2, <2>1, AllNaturals
<1>4. PICK f : f = [n \in 0..M |-> Body(n, f)]
  BY <1>3
<1> HIDE DEF P
<1> DEFINE Same(n, h) == LET below == IF n = 0 THEN <<>> ELSE h[n - 1] IN
                              [x \in Generations(e)[MaxDepth - n] |->
                                 EvaluateNode(r, t, a, x, below)]
<1>5. \A n, g : Body(n, g) = Same(n, g)
  BY Zenon DEF Table
<1>6. f = [n \in 0..M |-> Same(n, f)]
  <2> HIDE DEF Body, Same
  <2> QED
    BY <1>4, <1>5, Zenon
<1> DEFINE g == CHOOSE g : g = [n \in 0..MaxDepth |-> Same(n, g)]
<1>7. g = [n \in 0..MaxDepth |-> Same(n, g)]
  <2> HIDE DEF Same
  <2> QED
    BY <1>6, Zenon
<1>8. EvaluateExpression(r, t, a, e) = g[MaxDepth][e]
  BY Zenon DEF EvaluateExpression
<1> HIDE DEF g
<1>9. ASSUME NEW n \in 0..MaxDepth
      PROVE  /\ DOMAIN g[n] = Generations(e)[MaxDepth - n]
             /\ \A x \in Generations(e)[MaxDepth - n] :
                  g[n][x] = EvaluateNode(r, t, a, x, Below(g, n))
  <2> DEFINE V(x) == EvaluateNode(r, t, a, x, Below(g, n))
  <2>1. g[n] = Same(n, g)
    <3> HIDE DEF Same
    <3> QED
      BY <1>7, Zenon
  <2>2. g[n] = [x \in Generations(e)[MaxDepth - n] |-> V(x)]
    BY <2>1, Zenon DEF Below
  <2> HIDE DEF V
  <2>3. /\ DOMAIN g[n] = Generations(e)[MaxDepth - n]
        /\ \A x \in Generations(e)[MaxDepth - n] : g[n][x] = V(x)
    BY <2>2, Zenon
  <2> QED
    BY <2>3, Zenon DEF V
<1> HIDE DEF Body, Same
<1>10. IsTable(r, t, a, e, g)
  BY <1>9, Zenon DEF IsTable
<1> QED
  BY <1>8, <1>10, Zenon

\* The outcome of a tree that ParseDict converts is that of a context.
LEMMA EvaluatedInContext ==
  ASSUME NEW r, NEW t \in Transaction, NEW a, NEW e, r.rule_type # "PATTERN", ParseDict(e)
  PROVE  \E c : /\ Context(c) /\ c.tx = t /\ Fits(c, e, MaxDepth)
                /\ Of(c, e, MaxDepth) = EvaluateExpression(r, t, a, e)
<1> DEFINE G == Generations(e)
<1>1. PICK outcome : /\ EvaluateExpression(r, t, a, e) = outcome[MaxDepth][e]
                     /\ IsTable(r, t, a, e, outcome)
  BY OutcomesAre, Zenon
<1>2. /\ G[0] = {e}
      /\ \A n \in 1..(MaxDepth + 1) : G[n] = UNION {Children(x) : x \in G[n - 1]}
      /\ G[MaxDepth + 1] = {}
      /\ \A n \in 0..MaxDepth : \A x \in G[n] : InSchema(x)
  BY GenerationsAre DEF ParseDict
<1> HIDE DEF G
<1> DEFINE c == [rule |-> r, tx |-> t, answer |-> a, outcome |-> outcome]
<1>3. c.rule = r /\ c.tx = t /\ c.answer = a /\ c.outcome = outcome
  OBVIOUS
<1> HIDE DEF c
<1>4. MaxDepth \in Nat
  BY DepthAssumption
<1>5. ASSUME NEW n \in 0..MaxDepth
      PROVE  /\ DOMAIN outcome[n] = G[MaxDepth - n]
             /\ \A x \in G[MaxDepth - n] :
                  outcome[n][x] = EvaluateNode(r, t, a, x, Below(outcome, n))
  BY <1>1, Zenon DEF IsTable, G
<1>6. ASSUME NEW n \in 0..MaxDepth, NEW x \in G[MaxDepth - n]
      PROVE  Fits(c, x, n) /\ outcome[n][x] = Of(c, x, n)
  <2>1. InSchema(x)
    BY <1>2, <1>4, MaxDepth - n \in 0..MaxDepth
  <2>2. ASSUME NEW y \in Children(x)
        PROVE  n # 0 /\ y \in DOMAIN outcome[n - 1]
    <3>1. /\ MaxDepth - n + 1 \in 1..(MaxDepth + 1)
          /\ (MaxDepth - n + 1) - 1 = MaxDepth - n
      BY <1>4
    <3>2. y \in G[MaxDepth - n + 1]
      <4>1. G[MaxDepth - n + 1] = UNION {Children(z) : z \in G[MaxDepth - n]}
        BY <1>2, <3>1
      <4> QED
        BY <4>1
    <3>3. n # 0
      <4>1. n = 0 => MaxDepth - n + 1 = MaxDepth + 1
        BY <1>4
      <4> QED
        BY <1>2, <3>2, <4>1
    <3>4. n - 1 \in 0..MaxDepth /\ MaxDepth - (n - 1) = MaxDepth - n + 1
      BY <1>4, <3>3
    <3>5. DOMAIN outcome[n - 1] = G[MaxDepth - n + 1]
      BY <1>5, <3>4
    <3> QED
      BY <3>2, <3>3, <3>5
  <2>3. Fits(c, x, n)
    BY <1>3, <2>1, <2>2 DEF Fits
  <2>4. outcome[n][x] = Of(c, x, n)
    BY <1>3, <1>5, Zenon DEF Of, Below
  <2> QED
    BY <2>3, <2>4
<1>7. Context(c)
  BY <1>3, <1>5, <1>6, Zenon DEF Context
<1>8. MaxDepth \in 0..MaxDepth /\ MaxDepth - MaxDepth = 0 /\ e \in G[0]
  BY <1>2, <1>4
<1>9. Fits(c, e, MaxDepth) /\ outcome[MaxDepth][e] = Of(c, e, MaxDepth)
  BY <1>6, <1>8
<1>10. Of(c, e, MaxDepth) = EvaluateExpression(r, t, a, e)
  BY <1>1, <1>9
<1> QED
  BY <1>3, <1>7, <1>9, <1>10, Zenon

\* A threshold that the form takes is a comparison.
LEMMA ThresholdCompares ==
  ASSUME NEW c, NEW ts, Text(ts), ~ Has(ts, "LOGIC_OP"), ~ Has(ts, "AGG_FUNCTION"),
         Has(ts, "COMP_OP"), NEW e, Fact(c, ts, e, 1, Len(ts))
  PROVE  e.kind = "comparison"
<1> DEFINE N == Len(ts)
           f == First(ts, 1, N)
           g == Last(ts, 1, N)
<1>1. N \in Nat /\ N \in Int /\ 1 \in Int /\ 1 <= N /\ DOMAIN ts = 1..N
  BY DEF Text, Fact
<1>2. Shape(ts, e, 1, N)
  BY DEF Fact
<1>3. PICK k \in 1..N : Kind(ts[k]) = "COMP_OP"
  BY <1>1 DEF Has
<1>4. f = g => ~ (Kind(ts[f]) \in LiteralKind \cup {"FIELD"})
  <2>1. f = g /\ Kind(ts[f]) \in LiteralKind \cup {"FIELD"} =>
          IsToken(ts, 1, N, LiteralKind \cup {"FIELD"})
    BY <1>1 DEF IsToken
  <2>2. ~ IsToken(ts, 1, N, LiteralKind \cup {"FIELD"})
    <3> SUFFICES ASSUME IsToken(ts, 1, N, LiteralKind \cup {"FIELD"})
                 PROVE  FALSE
      OBVIOUS
    <3>1. Kind(ts[k]) \in (LiteralKind \cup {"FIELD"}) \cup {"LPAREN", "RPAREN"}
      BY <1>1, TokensOfToken
    <3> QED
      BY <1>3, <3>1 DEF LiteralKind
  <2> QED
    BY <2>1, <2>2
<1>5. ~ IsAggregate(ts, 1, N)
  <2>1. IsAggregate(ts, 1, N) => \E m \in 1..N : Kind(ts[m]) = "AGG_FUNCTION"
    BY <1>1, TokensOfAggregate
  <2> QED
    BY <1>1, <2>1 DEF Has
<1>6. ~ \E m \in 1..N : Kind(ts[m]) = "LOGIC_OP"
  BY <1>1 DEF Has
<1> HIDE DEF N
<1> QED
  BY <1>2, <1>4, <1>5, <1>6, Zenon DEF Shape

\* A rule of the form that the parser made of a text has the meaning of the text.
LEMMA VerdictIsRight ==
  ASSUME NEW ts, Text(ts), NEW type \in {"THRESHOLD", "COMPOSITE"}, Parse(ts, type).ok,
         NEW r, r.rule_type = type, r.expression = Parse(ts, type).node,
         ParseDict(r.expression), NEW t \in Transaction, NEW a
  PROVE  IsRight(IsFraudTransaction(r, t, a), Meaning(t, ts, {})[<<1, Len(ts)>>],
                 Meaning(t, ts, BOOLEAN)[<<1, Len(ts)>>])
<1> DEFINE e == r.expression
           N == Len(ts)
           m == MethodOf(ts, type)
<1>1. N \in Nat
  BY DEF Text
<1>2. PICK c : /\ Context(c) /\ c.tx = t /\ Fits(c, e, MaxDepth)
               /\ Of(c, e, MaxDepth) = EvaluateExpression(r, t, a, e)
  BY EvaluatedInContext
<1>3. /\ Validated(ts, type) /\ Taken(m, N + 1) /\ m.node = e
  <2>1. m = Branch(ts, type)
    BY DEF MethodOf, Branch
  <2>2. Validated(ts, type) /\ Taken(Branch(ts, type), N + 1) /\ Parse(ts, type) = Branch(ts, type)
    BY ParseIs
  <2> QED
    BY <2>1, <2>2
<1>4. Fact(c, ts, e, 1, N)
  <2>1. SoundRow(c, ts, Parser(ts)[1], 1) /\ (N + 1) - 1 = N
    <3>1. 1 \in 1..(N + 1) /\ (N + 1) - 1 = N
      BY <1>1
    <3>2. \A q \in 1..(N + 1) : SoundRow(c, ts, Parser(ts)[q], q)
      BY ParserSound
    <3> QED
      BY <3>1, <3>2
  <2>2. m.ok /\ m.pos - 1 = N /\ m.node = e
    BY <1>3, <2>1 DEF Taken
  <2> QED
    BY <2>1, <2>2 DEF SoundRow, SoundComparison, SoundExpression, MethodOf
<1>5. ~ Has(ts, "AGG_FUNCTION")
  BY <1>3 DEF Validated
<1>6. Good(c, ts, e, 1, N)
  BY <1>2, <1>4, <1>5 DEF Fact
<1>7. MaxDepth \in 0..MaxDepth
  BY DepthAssumption
<1>8. IsRight(EvaluateExpression(r, t, a, e), Meaning(t, ts, {})[<<1, N>>],
              Meaning(t, ts, BOOLEAN)[<<1, N>>])
  <2>1. IsRight(Of(c, e, MaxDepth), Meaning(c.tx, ts, {})[<<1, N>>],
                Meaning(c.tx, ts, BOOLEAN)[<<1, N>>])
    BY <1>2, <1>6, <1>7, Zenon DEF Good
  <2> QED
    BY <1>2, <2>1
<1>9. r.rule_type = "THRESHOLD" => e.kind = "comparison"
  BY <1>3, <1>4, ThresholdCompares DEF Validated
<1>10. IsFraudTransaction(r, t, a) = EvaluateExpression(r, t, a, e)
  BY <1>9, Zenon DEF IsFraudTransaction
<1> QED
  BY <1>8, <1>10

-----------------------------------------------------------------------------
(* The life of a rule                                                      *)

\* The phases a text has come to that the form took.
Accepted == phase \in {"stored", "refused", "pushed", "evaluated"}

\* The inductive invariant: the rule is what the parser makes of the text that
\* still stands in the form, and the verdict that of the rule.
RuleOfText ==
  /\ typed \in Seq(STRING)
  /\ form \in RuleType
  /\ phase \in {"typing", "rejected", "stored", "refused", "pushed", "evaluated"}
  /\ phase = "rejected" => ~ Parse(typed, form).ok
  /\ Accepted =>
       /\ Parse(typed, form).ok
       /\ rule.rule_type = form
       /\ rule.expression = Parse(typed, form).node
  /\ phase \in {"pushed", "evaluated"} => ParseDict(rule.expression)
  /\ phase = "evaluated" =>
       /\ tx \in Transaction
       /\ verdict = IsFraudTransaction(rule, tx, answer)

\* What Submit leaves of a text.
LEMMA Submitted ==
  ASSUME RuleOfText, Submit
  PROVE  /\ UNCHANGED <<form, typed>>
         /\ phase' = IF Parse(typed, form).ok THEN "stored" ELSE "rejected"
         /\ Parse(typed, form).ok =>
              rule'.rule_type = form /\ rule'.expression = Parse(typed, form).node
<1>1. PICK delta \in Limit, count \in Limit :
        /\ phase' = IF Parse(typed, form).ok THEN "stored" ELSE "rejected"
        /\ rule' = [rule_type |-> form, max_delta_time |-> delta, max_count |-> count,
                    expression |-> IF Parse(typed, form).ok THEN Parse(typed, form).node
                                   ELSE Wildcard]
  BY DEF Submit
<1>2. rule'.rule_type = form
  BY <1>1
<1>3. Parse(typed, form).ok => rule'.expression = Parse(typed, form).node
  BY <1>1
<1> QED
  BY <1>1, <1>2, <1>3 DEF Submit

\* In every state the stored rule is the parsed text, a rule that was pushed is
\* one that ParseDict converts, and the verdict is that of the stored rule
\* (ExpressionModelForm.clean, profile_iterator, RuleProcessor).
THEOREM RuleOfTextAlways == Spec => []RuleOfText
<1>1. Init => RuleOfText
  <2> SUFFICES ASSUME Init
               PROVE  RuleOfText
    OBVIOUS
  <2>1. typed \in Seq(STRING)
    BY DEF Init
  <2> QED
    BY <2>1 DEF Init, RuleOfText, Accepted
<1>2. RuleOfText /\ [Next]_vars => RuleOfText'
  <2> SUFFICES ASSUME RuleOfText, [Next]_vars
               PROVE  RuleOfText'
    OBVIOUS
  <2> USE DEF RuleOfText, Accepted
  <2>1. CASE Write
    <3>1. PICK p \in Piece[form] : typed' = typed \o p
      BY <2>1 DEF Write
    <3>2. p \in Seq(STRING)
      BY PieceAssumption
    <3>3. typed' \in Seq(STRING)
      BY <3>1, <3>2
    <3> QED
      BY <2>1, <3>3 DEF Write
  <2>2. CASE Submit
    <3>1. /\ UNCHANGED <<form, typed>>
          /\ phase' = IF Parse(typed, form).ok THEN "stored" ELSE "rejected"
          /\ Parse(typed, form).ok =>
               rule'.rule_type = form /\ rule'.expression = Parse(typed, form).node
      BY <2>2, Submitted
    <3>2. CASE Parse(typed, form).ok
      <4>1. phase' = "stored" /\ typed' = typed /\ form' = form
        BY <3>1, <3>2
      <4>2. Parse(typed, form)' = Parse(typed, form)
        BY <4>1
      <4> QED
        BY <3>1, <3>2, <4>1, <4>2
    <3>3. CASE ~ Parse(typed, form).ok
      <4>1. phase' = "rejected" /\ typed' = typed /\ form' = form
        BY <3>1, <3>3
      <4>2. Parse(typed, form)' = Parse(typed, form)
        BY <4>1
      <4> QED
        BY <3>3, <4>1, <4>2
    <3> QED
      BY <3>2, <3>3
  <2>3. CASE Reopen
    <3>1. typed' \in Seq(STRING)
      BY <2>3 DEF Reopen
    <3> QED
      BY <2>3, <3>1 DEF Reopen
  <2>4. CASE Push
    BY <2>4 DEF Push
  <2>5. CASE Evaluate
    BY <2>5 DEF Evaluate
  <2>6. CASE UNCHANGED vars
    BY <2>6 DEF vars
  <2> QED
    BY <2>1, <2>2, <2>3, <2>4, <2>5, <2>6 DEF Next
<1> QED
  BY <1>1, <1>2, PTL DEF Spec

\* A text of the form is a text of one of the three forms.
LEMMA TypedText ==
  ASSUME RuleOfText
  PROVE  Text(typed) /\ form \in {"THRESHOLD", "COMPOSITE", "PATTERN"}
<1>1. typed \in Seq(STRING) /\ form \in RuleType
  BY DEF RuleOfText
<1>2. Len(typed) \in Nat /\ DOMAIN typed = 1..Len(typed)
  BY <1>1
<1> QED
  BY <1>1, <1>2, PieceAssumption DEF Text

\* The form accepts the texts of the language and no others, for every text,
\* however long, and every choice of what may be typed (RuleParser.parse, Parser).
THEOREM FormAcceptsTheLanguage == Spec => []AcceptsTheLanguage
<1>1. RuleOfText => AcceptsTheLanguage
  <2> SUFFICES ASSUME RuleOfText
               PROVE  AcceptsTheLanguage
    OBVIOUS
  <2>1. Parse(typed, form).ok <=> InLanguage(typed, form)
    BY TypedText, TextsAccepted
  <2> QED
    BY <2>1 DEF RuleOfText, Accepted, AcceptsTheLanguage
<1> QED
  BY <1>1, RuleOfTextAlways, PTL

\* A verdict is the one the text has when NOT binds before AND before OR,
\* whatever a comparison that threw would have said, and a rule throws only where
\* a text has no truth value (Parser._build_logical, LogicalEvaluator).
THEOREM VerdictsByPrecedence == Spec => []VerdictByPrecedence
<1>1. RuleOfText => VerdictByPrecedence
  <2> SUFFICES ASSUME RuleOfText, phase = "evaluated", form # "PATTERN"
               PROVE  IF verdict = "exception"
                      THEN Meaning(tx, typed, {})[<<1, Len(typed)>>] = {}
                      ELSE Meaning(tx, typed, BOOLEAN)[<<1, Len(typed)>>] = {verdict = "true"}
    BY DEF VerdictByPrecedence
  <2>1. /\ Parse(typed, form).ok
        /\ rule.rule_type = form
        /\ rule.expression = Parse(typed, form).node
        /\ ParseDict(rule.expression)
        /\ tx \in Transaction
        /\ verdict = IsFraudTransaction(rule, tx, answer)
    BY DEF RuleOfText, Accepted
  <2>2. Text(typed) /\ form \in {"THRESHOLD", "COMPOSITE"}
    BY TypedText
  <2>3. IsRight(verdict, Meaning(tx, typed, {})[<<1, Len(typed)>>],
                Meaning(tx, typed, BOOLEAN)[<<1, Len(typed)>>])
    BY <2>1, <2>2, VerdictIsRight
  <2> QED
    BY <2>3 DEF IsRight
<1> QED
  BY <1>1, RuleOfTextAlways, PTL

=============================================================================
