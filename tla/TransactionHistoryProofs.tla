---------------------- MODULE TransactionHistoryProofs ----------------------
(***************************************************************************)
(* TransactionHistory proved: for every set of transactions and of files   *)
(* of columns, whatever the limit, the history of a transaction and its    *)
(* statistics are those their names promise, and a model is fed with the   *)
(* transaction that the client posted.                                     *)
(*                                                                         *)
(* Inv says how history, stats and vector came about from the table;       *)
(* what they are then worth is a matter of the loops over the history:     *)
(* a loop is a function with one value for each of its steps, there is     *)
(* one (Induction!LoopExists), and what it computes follows by induction   *)
(* (Induction!AllNaturals).                                                *)
(***************************************************************************)
EXTENDS TransactionHistory, Induction, FiniteSetTheorems, SequenceTheorems,
        TLAPS

-----------------------------------------------------------------------------
(* Sequences                                                               *)

\* An element more at the end is an element more in the set.
LEMMA AppendedElements ==
  ASSUME NEW S, NEW t \in Seq(S), NEW x \in S
  PROVE  /\ Append(t, x) \in Seq(S)
         /\ ToSet(Append(t, x)) = ToSet(t) \cup {x}
         /\ IsInjective(t) /\ x \notin ToSet(t) => IsInjective(Append(t, x))
<1> DEFINE u == Append(t, x)
<1>1. /\ u \in Seq(S) /\ Len(t) \in Nat
      /\ Len(u) = Len(t) + 1
      /\ \A i \in 1..Len(t) : u[i] = t[i]
      /\ u[Len(t) + 1] = x
  BY AppendProperties, LenProperties
<1>2. DOMAIN u = 1..(Len(t) + 1) /\ DOMAIN t = 1..Len(t)
  BY <1>1, LenProperties
<1> HIDE DEF u
<1>3. \A i \in DOMAIN u : u[i] \in ToSet(t) \cup {x}
  BY <1>1, <1>2 DEF ToSet
<1>4. \A i \in DOMAIN t : t[i] \in ToSet(u)
  BY <1>1, <1>2 DEF ToSet
<1>5. x \in ToSet(u)
  <2>1. Len(t) + 1 \in DOMAIN u /\ u[Len(t) + 1] = x
    BY <1>1, <1>2
  <2> QED
    BY <2>1, Zenon DEF ToSet
<1>6. ToSet(u) = ToSet(t) \cup {x}
  BY <1>3, <1>4, <1>5 DEF ToSet
<1>7. ASSUME IsInjective(t), x \notin ToSet(t)
      PROVE  IsInjective(u)
  <2>1. \A i \in 1..Len(t) : u[i] # x
    BY <1>1, <1>2, <1>7 DEF ToSet
  <2> SUFFICES ASSUME NEW i \in 1..(Len(t) + 1), NEW j \in 1..(Len(t) + 1), u[i] = u[j]
               PROVE  i = j
    BY <1>2 DEF IsInjective
  <2> QED
    BY <1>1, <1>2, <1>7, <2>1 DEF IsInjective
<1> QED
  BY <1>1, <1>6, <1>7 DEF u

\* The loop keeps the elements of s that are in kept.
LEMMA FilteredIsFiltered ==
  ASSUME NEW S, NEW s \in Seq(S), NEW kept
  PROVE  /\ Filtered(s, kept) \in Seq(S)
         /\ ToSet(Filtered(s, kept)) = ToSet(s) \cap kept
         /\ IsInjective(s) => IsInjective(Filtered(s, kept))
<1> DEFINE n == Len(s)
           Step(i, t) == IF s[i] \in kept THEN Append(t, s[i]) ELSE t
           Loop(f) == [i \in 0..n |-> IF i = 0 THEN <<>> ELSE Step(i, f[i - 1])]
           F == [i \in 1..n |-> [t \in Seq(S) |-> Step(i, t)]]
           f == CHOOSE g : g = Loop(g)
<1>1. n \in Nat /\ \A i \in 1..n : s[i] \in S
  BY LenProperties, ElementOfSeq
<1>2. \A i \in 1..n, t \in Seq(S) : Step(i, t) \in Seq(S)
  BY <1>1, AppendProperties
<1>3. F \in [1..n -> [Seq(S) -> Seq(S)]]
  BY <1>2
<1>4. <<>> \in Seq(S)
  BY EmptySeq
<1>5. PICK g \in [0..n -> Seq(S)] :
        g[0] = <<>> /\ \A i \in 1..n : g[i] = F[i][g[i - 1]]
  <2> DEFINE T == Seq(S)
             start == <<>>
  <2>1. F \in [1..n -> [T -> T]] /\ start \in T /\ n \in Nat
    BY <1>1, <1>3, <1>4
  <2> HIDE DEF F, n, T, start, Step, Loop, f
  <2>2. \E g : IsLoop(g, n, T, start, F)
    BY <2>1, LoopExists, Zenon
  <2> QED
    BY <2>2 DEF T, start, IsLoop
<1>6. g = Loop(g)
  <2>1. \A i \in 1..n : g[i] = Step(i, g[i - 1])
    <3> SUFFICES ASSUME NEW i \in 1..n
                 PROVE  g[i] = Step(i, g[i - 1])
      OBVIOUS
    <3>1. i - 1 \in 0..n /\ g[i - 1] \in Seq(S)
      BY <1>1, <1>5, SMTT(30)
    <3>2. F[i][g[i - 1]] = Step(i, g[i - 1])
      BY <3>1
    <3> QED
      BY <1>5, <3>2
  <2> HIDE DEF Step
  <2> QED
    BY <1>1, <1>5, <2>1
<1>7. f = Loop(f)
  <2> HIDE DEF Loop
  <2> QED
    BY <1>6
<1>8. f[0] = <<>> /\ \A i \in 1..n : f[i] = Step(i, f[i - 1])
  <2> HIDE DEF f, Step
  <2> QED
    BY <1>1, <1>7
<1>9. Filtered(s, kept) = f[n]
  BY DEF Filtered
<1> DEFINE P == {k \in Nat : k <= n => /\ f[k] \in Seq(S)
                                       /\ ToSet(f[k]) = {s[i] : i \in 1..k} \cap kept
                                       /\ IsInjective(s) => IsInjective(f[k])}
<1>10. 0 \in P
  <2> HIDE DEF f
  <2>1. f[0] \in Seq(S) /\ DOMAIN f[0] = {}
    BY <1>4, <1>8
  <2> QED
    BY <2>1 DEF ToSet, IsInjective
<1>11. ASSUME NEW k \in Nat, k \in P
       PROVE  k + 1 \in P
  <2> HIDE DEF f
  <2> SUFFICES ASSUME k + 1 <= n
               PROVE  /\ f[k + 1] \in Seq(S)
                      /\ ToSet(f[k + 1]) = {s[i] : i \in 1..(k + 1)} \cap kept
                      /\ IsInjective(s) => IsInjective(f[k + 1])
    BY DEF P
  <2> DEFINE t == f[k]
             x == s[k + 1]
  <2>1. /\ t \in Seq(S) /\ ToSet(t) = {s[i] : i \in 1..k} \cap kept
        /\ IsInjective(s) => IsInjective(t)
    BY <1>1, <1>11
  <2>2. x \in S
    BY <1>1
  <2>3. f[k + 1] = Step(k + 1, t)
    BY <1>8
  <2>4. {s[i] : i \in 1..(k + 1)} = {s[i] : i \in 1..k} \cup {x}
    OBVIOUS
  <2>5. CASE x \in kept
    <3>1. f[k + 1] = Append(t, x)
      BY <2>3, <2>5
    <3>2. IsInjective(s) => x \notin ToSet(t)
      <4>1. DOMAIN s = 1..n
        BY LenProperties
      <4> QED
        BY <1>1, <2>1, <4>1 DEF IsInjective
    <3>3. /\ Append(t, x) \in Seq(S)
          /\ ToSet(Append(t, x)) = ToSet(t) \cup {x}
          /\ IsInjective(t) /\ x \notin ToSet(t) => IsInjective(Append(t, x))
      <4> HIDE DEF t, x
      <4> QED
        BY <2>1, <2>2, AppendedElements
    <3>4. ({s[i] : i \in 1..k} \cap kept) \cup {x} = {s[i] : i \in 1..(k + 1)} \cap kept
      BY <2>4, <2>5
    <3> HIDE DEF t, x
    <3> QED
      BY <2>1, <3>1, <3>2, <3>3, <3>4
  <2>6. CASE x \notin kept
    BY <2>1, <2>3, <2>4, <2>6
  <2> QED
    BY <2>5, <2>6
<1>12. n \in P
  <2> HIDE DEF P
  <2> QED
    BY <1>1, <1>10, <1>11, AllNaturals
<1>13. /\ f[n] \in Seq(S) /\ ToSet(f[n]) = {s[i] : i \in 1..n} \cap kept
       /\ IsInjective(s) => IsInjective(f[n])
  <2> HIDE DEF f
  <2> QED
    BY <1>1, <1>12
<1>14. ToSet(s) = {s[i] : i \in 1..n}
  BY LenProperties DEF ToSet
<1> HIDE DEF f, n
<1> QED
  BY <1>9, <1>13, <1>14

-----------------------------------------------------------------------------
(* What a query returns                                                    *)

\* The rows of an account fit a sequence of as many positions in one way only:
\* every row is somewhere.
LEMMA SeqsOfSet ==
  ASSUME NEW T, IsFiniteSet(T), NEW q \in SetToSeqs(T)
  PROVE  /\ Cardinality(T) \in Nat
         /\ q \in [1..Cardinality(T) -> T] /\ q \in Seq(T) /\ Len(q) = Cardinality(T)
         /\ IsInjective(q)
         /\ \A x \in T : \E i \in 1..Cardinality(T) : q[i] = x
<1> DEFINE n == Cardinality(T)
<1>1. n \in Nat
  BY FS_CardinalityType
<1>2. q \in [1..n -> T] /\ \A i, j \in 1..n : i # j => q[i] # q[j]
  BY DEF SetToSeqs
<1>3. IsFiniteSet(1..n) /\ Cardinality(1..n) = n
  BY <1>1, FS_Interval
<1> HIDE DEF n
<1>4. q \in Injection(1..n, T)
  BY <1>2 DEF Injection, IsInjective
<1>5. q \in Surjection(1..n, T)
  BY <1>3, <1>4, FS_Injection DEF n
<1>6. q \in Seq(T) /\ Len(q) = n
  BY <1>1, <1>2, SeqDef, LenProperties
<1> QED
  BY <1>1, <1>2, <1>5, <1>6 DEF Surjection, IsInjective, n

\* What ORDER BY and LIMIT return are rows that none of the others is newer than.
LEMMA NewestAreNewest ==
  ASSUME NEW a, IsFiniteSet(RowsOf(a)), NEW s \in Newest(a)
  PROVE  /\ s \in Seq(RowsOf(a))
         /\ IsInjective(s)
         /\ ToSet(s) \in NewestSets(a)
<1> DEFINE mine == RowsOf(a)
           n == Cardinality(mine)
           m == Min({Limit, n})
<1>1. PICK q \in SetToSeqs(mine) :
        /\ \A i, j \in DOMAIN q : i < j => q[i].times_tamp >= q[j].times_tamp
        /\ s = SubSeq(q, 1, Min({Limit, Len(q)}))
  BY DEF Newest
<1>2. /\ n \in Nat
      /\ q \in [1..n -> mine] /\ Len(q) = n
      /\ IsInjective(q)
      /\ \A x \in mine : \E i \in 1..n : q[i] = x
  BY SeqsOfSet
<1>3. m \in Nat /\ m <= n /\ s = SubSeq(q, 1, m)
  <2>1. m \in {Limit, n} /\ m <= n
    BY <1>2, SmallerOfTwo, LimitAssumption
  <2> QED
    BY <1>1, <1>2, <2>1, LimitAssumption
<1> HIDE DEF mine, n, m
<1>4. s \in Seq(mine) /\ Len(s) = m /\ \A i \in 1..m : s[i] = q[i]
  BY <1>2, <1>3, SubSeqProperties
<1>5. DOMAIN s = 1..m /\ DOMAIN q = 1..n
  BY <1>2, <1>4, LenProperties
<1>6. IsInjective(s)
  BY <1>2, <1>3, <1>4, <1>5 DEF IsInjective
<1>7. ToSet(s) = {q[i] : i \in 1..m}
  BY <1>4, <1>5 DEF ToSet
<1>8. ToSet(s) \in SUBSET mine
  BY <1>2, <1>3, <1>7
<1>9. Cardinality(ToSet(s)) = m
  <2>1. s \in [1..m -> ToSet(s)] /\ \A x \in ToSet(s) : \E i \in 1..m : s[i] = x
    BY <1>4, <1>5, LenProperties DEF ToSet
  <2>2. s \in Bijection(1..m, ToSet(s))
    BY <1>6, <2>1 DEF Bijection, Injection, Surjection
  <2> QED
    BY <1>3, <2>2, FS_CountingElements DEF ExistsBijection
<1>10. ASSUME NEW r \in ToSet(s), NEW x \in mine \ ToSet(s)
       PROVE  r.times_tamp >= x.times_tamp
  <2>1. PICK i \in 1..m : r = q[i]
    BY <1>7
  <2>2. PICK j \in 1..n : x = q[j]
    BY <1>2
  <2>3. j \notin 1..m
    BY <1>7, <2>2
  <2>4. i < j /\ i \in 1..n
    BY <1>2, <1>3, <2>3
  <2> QED
    BY <1>1, <1>5, <2>1, <2>2, <2>4
<1> QED
  BY <1>4, <1>6, <1>8, <1>9, <1>10 DEF NewestSets, kSubset, mine, n, m

-----------------------------------------------------------------------------
(* The invariant                                                           *)

\* The time of a row is the one the insert read.
Stored ==
  /\ IsFiniteSet(rows)
  /\ \A r \in rows : r.times_tamp = Stoll(r.posted.timestamp)

\* The history are rows of the account, none of them twice, all of them stored
\* as earlier than the transaction, and none of those left out by the limit is
\* newer; the statistics are of them.
Selected ==
  phase = "computed" =>
    /\ history \in Seq(RowsOf(tx.account)) /\ IsInjective(history)
    /\ \A r \in ToSet(history) : r.times_tamp < ParseTimestamp(tx.timestamp)
    /\ answered => \E newest \in NewestSets(tx.account) :
         ToSet(history) = {r \in newest : r.times_tamp < ParseTimestamp(tx.timestamp)}
    /\ stats = ComputeAccountStats(history, tx)

\* The vector is of the transaction and of its statistics.
Fed ==
  phase = "computed" =>
    /\ columns \in Columns
    /\ vector = CreateFeatureVector(columns, Forwarded(tx.categories), Numeric(tx, stats))

Inv == TypeOK /\ Stored /\ Selected /\ Fed

\* The statistics have the fields of AccountStats.
LEMMA StatsAreStats ==
  ASSUME NEW s, NEW t
  PROVE  DOMAIN ComputeAccountStats(s, t) = DOMAIN NoStats
BY DEF ComputeAccountStats, NoStats

\* The invariant holds at first.
LEMMA InitInv == Init => Inv
<1> SUFFICES ASSUME Init
             PROVE  Inv
  OBVIOUS
<1>1. TypeOK
  BY DEF Init, TypeOK, ToSet
<1>2. Stored
  BY FS_EmptySet DEF Init, Stored
<1> QED
  BY <1>1, <1>2 DEF Init, Inv, Selected, Fed

\* An insert adds the row of the transaction, unless its id is there.
LEMMA InsertStep ==
  ASSUME Inv, NEW t \in Posted, rows' = Insert(rows, t)
  PROVE  /\ rows \subseteq rows' /\ rows' \subseteq Row
         /\ \A q, r \in rows' : q.posted.id = r.posted.id => q = r
         /\ Stored'
<1> DEFINE new == [posted |-> t, times_tamp |-> Stoll(t.timestamp)]
<1>1. new \in Row
  BY PostedAssumption, LimitAssumption DEF Row, Stoll
<1>2. CASE \E r \in rows : r.posted.id = t.id
  BY <1>2 DEF Inv, TypeOK, Stored, Insert
<1>3. CASE ~ \E r \in rows : r.posted.id = t.id
  <2>1. rows' = rows \cup {new}
    BY <1>3 DEF Insert
  <2>2. IsFiniteSet(rows')
    BY <2>1, FS_AddElement DEF Inv, Stored
  <2> QED
    BY <1>1, <1>3, <2>1, <2>2 DEF Inv, TypeOK, Stored
<1> QED
  BY <1>2, <1>3

\* It is kept by a request whose transaction is saved,
LEMMA SaveSucceedsStep ==
  ASSUME Inv, NEW t \in Posted, SaveSucceeds(t)
  PROVE  Inv'
<1>1. /\ rows \subseteq rows' /\ rows' \subseteq Row
      /\ \A q, r \in rows' : q.posted.id = r.posted.id => q = r
      /\ Stored'
  BY InsertStep DEF SaveSucceeds
<1>2. TypeOK'
  BY <1>1, NoTransactionAssumption DEF Inv, TypeOK, SaveSucceeds, model
<1> QED
  BY <1>1, <1>2 DEF Inv, Selected, Fed, SaveSucceeds

\* by one whose transaction is not,
LEMMA SaveFailsStep ==
  ASSUME Inv, NEW t \in Posted, SaveFails(t)
  PROVE  Inv'
<1>1. TypeOK'
  BY NoTransactionAssumption DEF Inv, TypeOK, SaveFails, model
<1> QED
  BY <1>1 DEF Inv, Stored, Selected, Fed, SaveFails

\* The statistics of rows of the account that nothing is newer than.
LEMMA PredictStep ==
  ASSUME Inv, answered' \in BOOLEAN,
         NEW newest \in Seq(RowsOf(tx.account)), IsInjective(newest),
         answered' => ToSet(newest) \in NewestSets(tx.account),
         Predict(newest)
  PROVE  Inv'
<1> DEFINE mine == RowsOf(tx.account)
           now == ParseTimestamp(tx.timestamp)
           kept == {r \in ToSet(newest) : r.times_tamp < now}
<1>1. /\ history' = Filtered(newest, kept)
      /\ stats' = ComputeAccountStats(history', tx)
      /\ columns' \in Columns
      /\ vector' = CreateFeatureVector(columns', Forwarded(tx.categories), Numeric(tx, stats'))
      /\ phase = "saved" /\ phase' = "computed" /\ rows' = rows /\ tx' = tx
  BY DEF Predict, Earlier
<1>2. /\ RowsOf(tx.account)' = mine
      /\ NewestSets(tx.account)' = NewestSets(tx.account)
      /\ ParseTimestamp(tx.timestamp)' = now
  BY <1>1 DEF NewestSets, RowsOf, ParseTimestamp
<1>3. /\ history' \in Seq(mine)
      /\ ToSet(history') = ToSet(newest) \cap kept
      /\ IsInjective(history')
  <2> HIDE DEF mine, kept
  <2> QED
    BY <1>1, FilteredIsFiltered DEF mine
<1>4. ToSet(history') = kept
  BY <1>3
<1>5. ToSet(newest) \subseteq rows
  <2>1. \A i \in DOMAIN newest : newest[i] \in mine
    BY LenProperties, ElementOfSeq
  <2> QED
    BY <2>1 DEF ToSet, RowsOf
<1>6. DOMAIN vector' = DOMAIN columns'
  BY <1>1 DEF CreateFeatureVector
<1>7. DOMAIN stats' = DOMAIN NoStats
  BY <1>1, StatsAreStats
<1>8. TypeOK'
  <2>1. ToSet(history)' = ToSet(history')
    BY DEF ToSet
  <2> QED
    BY <1>1, <1>4, <1>5, <1>6, <1>7, <2>1 DEF Inv, TypeOK
<1>9. Selected'
  <2>1. ToSet(history)' = ToSet(history')
    BY DEF ToSet
  <2> QED
    BY <1>1, <1>2, <1>3, <1>4, <2>1 DEF Selected
<1>10. Stored' /\ Fed'
  BY <1>1 DEF Inv, Stored, Fed
<1> QED
  BY <1>8, <1>9, <1>10 DEF Inv

\* by the statistics of the rows that the query returned,
LEMMA ComputeStep ==
  ASSUME Inv, Compute
  PROVE  Inv'
<1>1. PICK newest \in Newest(tx.account) : Predict(newest)
  BY DEF Compute
<1>2. IsFiniteSet(RowsOf(tx.account))
  <2>1. RowsOf(tx.account) \in SUBSET rows
    BY DEF RowsOf
  <2> QED
    BY <2>1, FS_Subset DEF Inv, Stored
<1>3. /\ newest \in Seq(RowsOf(tx.account)) /\ IsInjective(newest)
      /\ ToSet(newest) \in NewestSets(tx.account)
  BY <1>2, NewestAreNewest
<1> QED
  BY <1>1, <1>3, PredictStep DEF Compute

\* by those of no rows,
LEMMA ComputeWithoutAnswerStep ==
  ASSUME Inv, ComputeWithoutAnswer
  PROVE  Inv'
<1>1. <<>> \in Seq(RowsOf(tx.account)) /\ IsInjective(<<>>)
  BY EmptySeq DEF IsInjective
<1> QED
  BY <1>1, PredictStep DEF ComputeWithoutAnswer

\* by the end of a request,
LEMMA FinishStep ==
  ASSUME Inv, Finish
  PROVE  Inv'
<1>1. TypeOK'
  BY DEF Inv, TypeOK, Finish, ToSet
<1> QED
  BY <1>1 DEF Inv, Stored, Selected, Fed, Finish

\* and where nothing changes;
LEMMA StutterStep ==
  ASSUME Inv, UNCHANGED vars
  PROVE  Inv'
<1>1. UNCHANGED <<rows, phase, tx, answered, history, stats, columns, vector>>
  BY DEF vars, model
<1>2. TypeOK' /\ Stored' /\ Fed'
  BY <1>1 DEF Inv, TypeOK, Stored, Fed
<1>3. Selected'
  BY <1>1 DEF Inv, Selected, NewestSets, RowsOf
<1> QED
  BY <1>2, <1>3 DEF Inv

\* that is, by every step.
LEMMA NextInv == Inv /\ [Next]_vars => Inv'
<1> SUFFICES ASSUME Inv, [Next]_vars
             PROVE  Inv'
  OBVIOUS
<1>1. CASE \E t \in Posted : SaveSucceeds(t) \/ SaveFails(t)
  BY <1>1, SaveSucceedsStep, SaveFailsStep
<1>2. CASE Compute
  BY <1>2, ComputeStep
<1>3. CASE ComputeWithoutAnswer
  BY <1>3, ComputeWithoutAnswerStep
<1>4. CASE Finish
  BY <1>4, FinishStep
<1>5. CASE UNCHANGED vars
  BY <1>5, StutterStep
<1> QED
  BY <1>1, <1>2, <1>3, <1>4, <1>5 DEF Next

\* The invariant holds in every state.
THEOREM Invariance == Spec => []Inv
BY InitInv, NextInv, PTL DEF Spec

\* Every variable keeps its type and an id has one row, however many requests
\* bring it and whatever else they carry (INSERT ... ON CONFLICT DO NOTHING).
THEOREM TypeCorrect == Spec => []TypeOK
<1>1. Inv => TypeOK
  BY DEF Inv
<1> QED
  BY <1>1, Invariance, PTL

\* Where the times of an account are numbers of seconds, the three readers of a
\* timestamp (the insert, the filter, the statistics) agree, and the history of
\* a transaction is from before it.
THEOREM HistoryFromBefore == Spec => []PlainHistoryIsEarlier
<1>1. Inv => PlainHistoryIsEarlier
  <2> SUFFICES ASSUME Inv, phase = "computed",
                      \A t \in {r.posted : r \in RowsOf(tx.account)} \cup {tx} :
                        t.timestamp.format = "epoch",
                      NEW r \in ToSet(history)
               PROVE  Instant(r.posted.timestamp) < Instant(tx.timestamp)
    BY DEF PlainHistoryIsEarlier, HistoryIsEarlier
  <2>1. r \in RowsOf(tx.account) /\ r.times_tamp < ParseTimestamp(tx.timestamp)
    BY LenProperties, ElementOfSeq DEF Inv, Selected, ToSet
  <2>2. r \in Row /\ r.times_tamp = Stoll(r.posted.timestamp)
    BY <2>1 DEF Inv, TypeOK, Stored, RowsOf
  <2>3. r.posted \in Posted /\ tx \in Posted
    BY <2>2 DEF Inv, TypeOK, Row
  <2>4. r.posted.timestamp.format = "epoch" /\ tx.timestamp.format = "epoch"
    BY <2>1
  <2> QED
    BY <2>1, <2>2, <2>3, <2>4, PostedAssumption DEF Instant, Stoll, ParseTimestamp
<1> QED
  BY <1>1, Invariance, PTL

-----------------------------------------------------------------------------
(* The features                                                            *)

\* FeatureIndex is the last position of a name, and 0 if there is none.
LEMMA FeatureIndexIsLast ==
  ASSUME NEW S, NEW c \in Seq(S), NEW name
  PROVE  /\ FeatureIndex(c, name) # 0 <=> name \in ToSet(c)
         /\ \A i \in DOMAIN c :
              FeatureIndex(c, name) = i <=>
                c[i] = name /\ \A j \in DOMAIN c : j > i => c[j] # name
<1> DEFINE n == Len(c)
           places == {i \in DOMAIN c : c[i] = name}
           last == Max({0} \cup places)
<1>1. n \in Nat /\ DOMAIN c = 1..n
  BY LenProperties
<1>2. last \in {0} \cup places /\ \A y \in {0} \cup places : last >= y
  <2>1. {0} \cup places \in SUBSET (0..n)
    BY <1>1
  <2> HIDE DEF n, places
  <2> QED
    BY <1>1, <2>1, GreatestUpTo
<1>3. FeatureIndex(c, name) = last
  BY DEF FeatureIndex
<1> HIDE DEF last, n
<1>4. last # 0 <=> name \in ToSet(c)
  BY <1>1, <1>2 DEF ToSet
<1> QED
  BY <1>1, <1>2, <1>3, <1>4

\* The texts of the detector are those of the gateway.
LEMMA SameTexts ==
  ASSUME NEW t \in Posted, NEW g \in Category
  PROVE  (IF g \in FreeText THEN Forwarded(t.categories)[g] ELSE Suffix[Forwarded(t.categories)[g]])
           = t.categories[g]
<1>1. CASE g \in FreeText
  BY <1>1 DEF Forwarded
<1>2. CASE g \in DOMAIN Enumeration \ FreeText
  <2>1. t.categories[g] \in DOMAIN Enumeration[g]
    BY <1>2, PostedAssumption
  <2>2. Forwarded(t.categories)[g] = Enumeration[g][t.categories[g]]
    BY <1>2 DEF Forwarded
  <2>3. Suffix[Enumeration[g][t.categories[g]]] = t.categories[g]
    BY <1>2, <2>1 DEF Enumeration, Suffix
  <2> QED
    BY <1>2, <2>2, <2>3
<1> QED
  BY <1>1, <1>2 DEF Category

\* A column of a category is 1 just if it is the last of its name and means the
\* value that the client posted.
LEMMA OneHot ==
  ASSUME NEW S, NEW c \in Seq(S), NEW t \in Posted, NEW i \in DOMAIN c,
         NEW g \in Category, NEW v, v # NoText, c[i] = <<g, v>>,
         \A j \in DOMAIN c : j > i => c[j] # c[i]
  PROVE  i \in CategoricalColumns(c, Forwarded(t.categories)) <=>
           (IF v = "nan"
            THEN t.categories[g] \in {NoText, "nan"} \/ <<g, t.categories[g]>> \notin ToSet(c)
            ELSE t.categories[g] = v)
<1> DEFINE text == t.categories[g]
           own == IF text = NoText THEN "nan" ELSE text
           ownIndex == FeatureIndex(c, <<g, own>>)
           nanIndex == FeatureIndex(c, <<g, "nan">>)
<1>1. \A name : /\ FeatureIndex(c, name) # 0 <=> name \in ToSet(c)
                /\ FeatureIndex(c, name) = i <=> c[i] = name
  <2>1. \A name : /\ FeatureIndex(c, name) # 0 <=> name \in ToSet(c)
                  /\ \A k \in DOMAIN c :
                      FeatureIndex(c, name) = k <=>
                        c[k] = name /\ \A j \in DOMAIN c : j > k => c[j] # name
    BY FeatureIndexIsLast
  <2> QED
    BY <2>1
<1>2. i # 0
  <2>1. Len(c) \in Nat /\ DOMAIN c = 1..Len(c)
    BY LenProperties
  <2> QED
    BY <2>1
<1>3. \A h \in Category : CategoricalIndex(c, h, t.categories[h]) = i => h = g
  <2> SUFFICES ASSUME NEW h \in Category, CategoricalIndex(c, h, t.categories[h]) = i
               PROVE  h = g
    OBVIOUS
  <2>1. \/ FeatureIndex(c, <<h, IF t.categories[h] = NoText THEN "nan" ELSE t.categories[h]>>) = i
        \/ FeatureIndex(c, <<h, "nan">>) = i
    BY DEF CategoricalIndex
  <2>2. \E w : c[i] = <<h, w>>
    BY <1>1, <2>1
  <2> QED
    BY <2>2
<1>4. CategoricalColumns(c, Forwarded(t.categories))
        = {CategoricalIndex(c, h, t.categories[h]) : h \in Category} \ {0}
  <2> DEFINE sent == Forwarded(t.categories)
             Index(h) == CategoricalIndex(c, h, IF h \in FreeText THEN sent[h] ELSE Suffix[sent[h]])
  <2>1. \A h \in Category : Index(h) = CategoricalIndex(c, h, t.categories[h])
    BY SameTexts
  <2>2. CategoricalColumns(c, sent) = {Index(h) : h \in Category} \ {0}
    BY DEF CategoricalColumns
  <2> HIDE DEF Index
  <2> QED
    BY <2>1, <2>2
<1>5. i \in CategoricalColumns(c, Forwarded(t.categories)) <=> CategoricalIndex(c, g, text) = i
  BY <1>2, <1>3, <1>4
<1>6. CategoricalIndex(c, g, text) = IF ownIndex # 0 THEN ownIndex ELSE nanIndex
  BY DEF CategoricalIndex
<1>7. /\ ownIndex = i <=> own = v
      /\ nanIndex = i <=> v = "nan"
      /\ ownIndex # 0 <=> <<g, own>> \in ToSet(c)
  BY <1>1
<1>8. v = "nan" => <<g, "nan">> \in ToSet(c)
  BY DEF ToSet
<1> HIDE DEF ownIndex, nanIndex
<1> QED
  BY <1>2, <1>5, <1>6, <1>7, <1>8

-----------------------------------------------------------------------------
(* The clock                                                               *)

\* A number is its quotient and its rest.
LEMMA QuotientAndRest ==
  ASSUME NEW x \in Nat, NEW d \in Nat \ {0}
  PROVE  /\ x \div d \in Nat /\ x % d \in 0..(d - 1)
         /\ x = (d * (x \div d)) + (x % d)
<1>1. x \div d \in Nat
  OBVIOUS
<1>2. x % d \in 0..(d - 1)
  OBVIOUS
<1>3. x = (d * (x \div d)) + (x % d)
  OBVIOUS
<1> QED
  BY <1>1, <1>2, <1>3

\* A multiple leaves no rest.
LEMMA RestOfMultiple ==
  ASSUME NEW q \in Nat, NEW d \in Nat \ {0}
  PROVE  (d * q) % d = 0
<1> DEFINE p == (d * q) \div d
           r == (d * q) % d
<1>1. p \in Nat /\ r \in 0..(d - 1) /\ d * q = d * p + r
  BY d * q \in Nat, QuotientAndRest
<1> HIDE DEF p, r
<1>2. d * (q - p) = r
  BY <1>1
<1>3. q - p < 1
  BY <1>1, <1>2
<1>4. q - p > 0 - 1
  BY <1>1, <1>2
<1> QED
  BY <1>1, <1>2, <1>3, <1>4 DEF r

\* A time is in the hour of the day that hour_of_day says, after a midnight.
LEMMA HourGivesTheTime ==
  ASSUME NEW time \in Nat
  PROVE  \E midnight \in 0..time :
           /\ midnight % Day = 0
           /\ time - midnight \in (HourOfDay(time) * Hour)..((HourOfDay(time) + 1) * Hour - 1)
<1> DEFINE days == time \div Day
           rest == time % Day
           h == rest \div Hour
           m == rest % Hour
<1>1. HourOfDay(time) = h
  BY DEF HourOfDay
<1>2. days \in Nat /\ rest \in 0..(Day - 1) /\ time = (Day * days) + rest
  BY ClockAssumption, QuotientAndRest
<1> HIDE DEF days, rest
<1>3. rest \in Nat
  BY <1>2, ClockAssumption
<1>4. h \in Nat /\ m \in 0..(Hour - 1) /\ rest = (Hour * h) + m
  BY <1>3, ClockAssumption, QuotientAndRest
<1> DEFINE midnight == Day * days
<1> HIDE DEF h, m
<1>5. midnight \in Nat /\ midnight % Day = 0
  BY <1>2, ClockAssumption, RestOfMultiple
<1> HIDE DEF midnight
<1>6. h * Hour = Hour * h /\ (h + 1) * Hour = (Hour * h) + Hour /\ Hour * h \in Int
  BY <1>4, ClockAssumption
<1>7. rest \in (h * Hour)..((h + 1) * Hour - 1)
  BY <1>3, <1>4, <1>6, ClockAssumption
<1>8. midnight \in 0..time /\ time - midnight = rest
  BY <1>2, <1>3, <1>5 DEF midnight
<1> QED
  BY <1>1, <1>5, <1>7, <1>8

\* day_of_week counts from Monday: from tm_wday, which counts from Sunday.
LEMMA DayGivesTheDay ==
  ASSUME NEW time \in Nat
  PROVE  (time \div Day + 3) % 7 = DayOfWeek(time)
<1>1. time \div Day \in Nat
  BY ClockAssumption, QuotientAndRest
<1> DEFINE q == time \div Day
<1> HIDE DEF q
<1>2. q \in Nat => (q + 3) % 7 = (((q + 4) % 7) + 6) % 7
  OBVIOUS
<1> QED
  BY <1>1, <1>2 DEF DayOfWeek, q

\* What the vector has at a position of a file of columns.
LEMMA VectorOfThePost ==
  ASSUME NEW c \in Seq(ColumnNames), NEW t \in Posted, NEW st, DOMAIN st = DOMAIN NoStats,
         NEW i \in DOMAIN c
  PROVE  LET x == CreateFeatureVector(c, Forwarded(t.categories), Numeric(t, st))[i]
             g == c[i][1]
             v == c[i][2]
             last == \A j \in DOMAIN c : j > i => c[j] # c[i]
         IN /\ c[i] = <<g, v>>
            /\ \/ g \in Category /\ v # NoText
               \/ g \in DOMAIN NoStats \cup {"amount", "hour_of_day", "day_of_week"}
            /\ ~ last => x = 0
            /\ last /\ g \in Category => x = (IF i \in CategoricalColumns(c, Forwarded(t.categories)) THEN 1 ELSE 0)
            /\ last /\ g \in DOMAIN NoStats => x = st[g]
            /\ last /\ g = "amount" => x = t.amount
            /\ last /\ g = "hour_of_day" => x = HourOfDay(t.timestamp.wall)
            /\ last /\ g = "day_of_week" => x = DayOfWeek(t.timestamp.wall)
<1> DEFINE g == c[i][1]
           v == c[i][2]
           num == Numeric(t, st)
           message == Forwarded(t.categories)
           x == CreateFeatureVector(c, message, num)[i]
           last == \A j \in DOMAIN c : j > i => c[j] # c[i]
<1>1. c[i] \in ColumnNames
  BY LenProperties, ElementOfSeq
<1>2. /\ c[i] = <<g, v>>
      /\ \/ g \in Category /\ v # NoText
         \/ g \in DOMAIN NoStats \cup {"amount", "hour_of_day", "day_of_week"}
  BY <1>1 DEF ColumnNames
<1>3. x = IF g \in DOMAIN num
          THEN IF i = FeatureIndex(c, c[i]) THEN num[g] ELSE 0
          ELSE IF i \in CategoricalColumns(c, message) THEN 1 ELSE 0
  BY DEF CreateFeatureVector
<1>4. i = FeatureIndex(c, c[i]) <=> last
  BY FeatureIndexIsLast
<1>5. /\ DOMAIN num = DOMAIN NoStats \cup {"amount", "hour_of_day", "day_of_week"}
      /\ \A k \in DOMAIN NoStats : num[k] = st[k]
      /\ num["amount"] = t.amount
      /\ num["hour_of_day"] = HourOfDay(t.timestamp.wall)
      /\ num["day_of_week"] = DayOfWeek(t.timestamp.wall)
  BY DEF Numeric, NoStats, ParseTimestamp
<1>6. g \in Category => g \notin DOMAIN num
  BY <1>5 DEF Category, FreeText, Enumeration, NoStats
<1>7. ~ last /\ i \in CategoricalColumns(c, message) => FALSE
  <2>1. ASSUME NEW h, NEW w, i = CategoricalIndex(c, h, w)
        PROVE  last
    <3>1. \E name : i = FeatureIndex(c, name)
      BY <2>1 DEF CategoricalIndex
    <3> QED
      BY <3>1, FeatureIndexIsLast
  <2> HIDE DEF last
  <2> QED
    BY <2>1 DEF CategoricalColumns
<1> HIDE DEF x, g, v, num, message, last
<1>8. ~ last => x = 0
  BY <1>3, <1>4, <1>7
<1>9. last /\ g \in Category => x = (IF i \in CategoricalColumns(c, message) THEN 1 ELSE 0)
  BY <1>3, <1>6
<1>10. last /\ g \in DOMAIN NoStats => x = st[g]
  BY <1>3, <1>4, <1>5
<1>11. /\ last /\ g = "amount" => x = t.amount
       /\ last /\ g = "hour_of_day" => x = HourOfDay(t.timestamp.wall)
       /\ last /\ g = "day_of_week" => x = DayOfWeek(t.timestamp.wall)
  BY <1>3, <1>4, <1>5
<1> QED
  BY <1>2, <1>8, <1>9, <1>10, <1>11 DEF x, g, v, num, message, last

\* A model sees the transaction that the client posted, through the gateway's
\* and the message's enumerations and the file of columns: the last column named
\* after the category as it was posted, or the one for no value, is 1, each number
\* is in its place, and hour and day of the week give the time back.
THEOREM VectorFromThePost == Spec => []FeaturesOfThePost
<1>1. Inv => FeaturesOfThePost
  <2> SUFFICES ASSUME Inv, phase = "computed", NEW i \in DOMAIN columns
               PROVE  LET time == ParseTimestamp(tx.timestamp)
                          Has(g, v) == <<g, v>> \in ToSet(columns)
                          Means(g, v) ==
                            IF v = "nan" THEN tx.categories[g] \in {NoText, "nan"} \/ ~ Has(g, tx.categories[g])
                            ELSE tx.categories[g] = v
                          g == columns[i][1]
                          v == columns[i][2]
                      IN
                      CASE ~ IsLast(i) -> vector[i] = 0
                        [] IsLast(i) /\ g \in Category -> vector[i] = (IF Means(g, v) THEN 1 ELSE 0)
                        [] IsLast(i) /\ g \in DOMAIN stats -> vector[i] = stats[g]
                        [] IsLast(i) /\ g = "amount" -> vector[i] = tx.amount
                        [] IsLast(i) /\ g = "hour_of_day" ->
                             \E midnight \in 0..time :
                               midnight % Day = 0 /\ time - midnight \in (vector[i] * Hour)..((vector[i] + 1) * Hour - 1)
                        [] IsLast(i) /\ g = "day_of_week" -> (time \div Day + 3) % 7 = vector[i]
    BY DEF FeaturesOfThePost
  <2> DEFINE g == columns[i][1]
             v == columns[i][2]
             time == tx.timestamp.wall
             text == tx.categories[g]
             means == IF v = "nan" THEN text \in {NoText, "nan"} \/ <<g, text>> \notin ToSet(columns)
                      ELSE text = v
             ones == CategoricalColumns(columns, Forwarded(tx.categories))
  <2>1. /\ columns \in Seq(ColumnNames) /\ tx \in Posted
        /\ vector = CreateFeatureVector(columns, Forwarded(tx.categories), Numeric(tx, stats))
        /\ DOMAIN stats = DOMAIN NoStats
    BY ColumnsAssumption DEF Inv, Fed, TypeOK
  <2>2. /\ columns[i] = <<g, v>>
        /\ \/ g \in Category /\ v # NoText
           \/ g \in DOMAIN NoStats \cup {"amount", "hour_of_day", "day_of_week"}
        /\ ~ IsLast(i) => vector[i] = 0
        /\ IsLast(i) /\ g \in Category => vector[i] = (IF i \in ones THEN 1 ELSE 0)
        /\ IsLast(i) /\ g \in DOMAIN stats => vector[i] = stats[g]
        /\ IsLast(i) /\ g = "amount" => vector[i] = tx.amount
        /\ IsLast(i) /\ g = "hour_of_day" => vector[i] = HourOfDay(time)
        /\ IsLast(i) /\ g = "day_of_week" => vector[i] = DayOfWeek(time)
    BY <2>1, VectorOfThePost DEF IsLast
  <2>3. IsLast(i) /\ g \in Category => v # NoText
    BY <2>2 DEF Category, FreeText, Enumeration, NoStats
  <2>4. IsLast(i) /\ g \in Category => (i \in ones <=> means)
    BY <2>1, <2>2, <2>3, OneHot DEF IsLast
  <2>5. time \in Nat
    BY <2>1, PostedAssumption
  <2>6. /\ \E midnight \in 0..time :
             /\ midnight % Day = 0
             /\ time - midnight \in (HourOfDay(time) * Hour)..((HourOfDay(time) + 1) * Hour - 1)
        /\ (time \div Day + 3) % 7 = DayOfWeek(time)
    BY <2>5, HourGivesTheTime, DayGivesTheDay
  <2>7. IsLast(i) => \/ g \in Category
                    \/ g \in DOMAIN stats
                    \/ g \in {"amount", "hour_of_day", "day_of_week"}
    BY <2>1, <2>2
  <2> HIDE DEF g, v, ones, time
  <2> QED
    BY <2>2, <2>4, <2>6, <2>7 DEF ParseTimestamp, g, v, time
<1> QED
  BY <1>1, Invariance, PTL

-----------------------------------------------------------------------------
(* Sums                                                                    *)

\* A loop over s that adds up the numbers w, one sum for each set of the elements
\* that count.
CountsUp(f, s, T, w) ==
  /\ f \in [0..Len(s) -> [SUBSET T -> Int]]
  /\ \A U \in SUBSET T : f[0][U] = 0
  /\ \A i \in 1..Len(s), U \in SUBSET T :
       f[i][U] = f[i - 1][U] + (IF s[i] \in U THEN w[s[i]] ELSE 0)

\* There is such a loop.
LEMMA CountingLoop ==
  ASSUME NEW T, NEW w \in [T -> Int], NEW s \in Seq(T)
  PROVE  \E f : CountsUp(f, s, T, w)
<1> DEFINE n == Len(s)
           Sums == [SUBSET T -> Int]
           start == [U \in SUBSET T |-> 0]
           Step(i, h) == [U \in SUBSET T |-> h[U] + (IF s[i] \in U THEN w[s[i]] ELSE 0)]
           F == [i \in 1..n |-> [h \in Sums |-> Step(i, h)]]
<1>1. n \in Nat /\ \A i \in 1..n : s[i] \in T
  BY LenProperties, ElementOfSeq
<1>2. start \in Sums
  OBVIOUS
<1>3. \A i \in 1..n, h \in Sums : Step(i, h) \in Sums
  <2> SUFFICES ASSUME NEW i \in 1..n, NEW h \in Sums
               PROVE  Step(i, h) \in Sums
    OBVIOUS
  <2>1. s[i] \in T /\ w[s[i]] \in Int
    BY <1>1
  <2> QED
    BY <2>1
<1>4. F \in [1..n -> [Sums -> Sums]]
  <2> HIDE DEF Sums, Step
  <2> QED
    BY <1>3
<1>5. PICK f \in [0..n -> Sums] :
        f[0] = start /\ \A i \in 1..n : f[i] = F[i][f[i - 1]]
  <2>1. n \in Nat
    BY <1>1
  <2> HIDE DEF n, Sums, start, Step, F
  <2>2. start \in Sums /\ F \in [1..n -> [Sums -> Sums]]
    BY <1>2, <1>4
  <2>3. \E f : IsLoop(f, n, Sums, start, F)
    BY <2>1, <2>2, LoopExists, Zenon
  <2> QED
    BY <2>3 DEF IsLoop
<1>6. \A i \in 1..n : f[i] = Step(i, f[i - 1])
  <2> SUFFICES ASSUME NEW i \in 1..n
               PROVE  f[i] = Step(i, f[i - 1])
    OBVIOUS
  <2> HIDE DEF Sums, Step
  <2>1. f[i - 1] \in Sums
    BY <1>1, <1>5
  <2> QED
    BY <1>5, <2>1
<1> HIDE DEF n
<1>7. \A U \in SUBSET T : f[0][U] = 0
  BY <1>5
<1>8. \A i \in 1..n, U \in SUBSET T : f[i][U] = f[i - 1][U] + (IF s[i] \in U THEN w[s[i]] ELSE 0)
  BY <1>6, ZenonT(30)
<1>9. CountsUp(f, s, T, w)
  BY <1>5, <1>7, <1>8 DEF n, CountsUp
<1> QED
  BY <1>9, Zenon

\* The sums total: an element more in the set is its number more.
AddsUp(total, s, T, w) ==
  \A p \in 1..Len(s), U \in SUBSET T :
    s[p] \in U => total[U] = w[s[p]] + total[U \ {s[p]}]

\* The loop meets every element once: one element more is one number more.
LEMMA OneElementMore ==
  ASSUME NEW T, NEW w \in [T -> Int], NEW s \in Seq(T), IsInjective(s),
         NEW f, CountsUp(f, s, T, w)
  PROVE  AddsUp(f[Len(s)], s, T, w)
<1> SUFFICES ASSUME NEW p \in 1..Len(s), NEW U \in SUBSET T, s[p] \in U
             PROVE  f[Len(s)][U] = w[s[p]] + f[Len(s)][U \ {s[p]}]
  BY DEF AddsUp
<1> DEFINE n == Len(s)
           V == U \ {s[p]}
           P == {k \in Nat : k <= n => f[k][U] = f[k][V] + (IF p <= k THEN w[s[p]] ELSE 0)}
<1>1. n \in Nat /\ DOMAIN s = 1..n
  BY LenProperties
<1>2. V \in SUBSET T /\ w[s[p]] \in Int
  OBVIOUS
<1> HIDE DEF V, n
<1>3. f \in [0..n -> [SUBSET T -> Int]]
  BY DEF n, CountsUp
<1>4. /\ f[0][U] = 0 /\ f[0][V] = 0
      /\ \A i \in 1..n : /\ f[i][U] = f[i - 1][U] + (IF s[i] \in U THEN w[s[i]] ELSE 0)
                         /\ f[i][V] = f[i - 1][V] + (IF s[i] \in V THEN w[s[i]] ELSE 0)
  BY <1>2 DEF n, CountsUp
<1>5. ASSUME NEW k \in 0..n
      PROVE  f[k][U] \in Int /\ f[k][V] \in Int
  <2>1. f[k] \in [SUBSET T -> Int]
    BY <1>3
  <2> QED
    BY <1>2, <2>1
<1>6. p \in 1..n
  BY DEF n
<1>7. 0 \in P
  BY <1>4, <1>6
<1>8. ASSUME NEW k \in Nat, k \in P
      PROVE  k + 1 \in P
  <2> SUFFICES ASSUME k + 1 <= n
               PROVE  f[k + 1][U] = f[k + 1][V] + (IF p <= k + 1 THEN w[s[p]] ELSE 0)
    OBVIOUS
  <2>1. f[k][U] = f[k][V] + (IF p <= k THEN w[s[p]] ELSE 0)
    BY <1>1, <1>8
  <2>2. k + 1 \in 1..n /\ k \in 0..n /\ (k + 1) - 1 = k
    BY <1>1
  <2>3. /\ f[k + 1][U] = f[k][U] + (IF s[k + 1] \in U THEN w[s[k + 1]] ELSE 0)
        /\ f[k + 1][V] = f[k][V] + (IF s[k + 1] \in V THEN w[s[k + 1]] ELSE 0)
    BY <1>4, <2>2
  <2>4. CASE k + 1 = p
    <3>1. s[k + 1] \in U /\ s[k + 1] \notin V
      BY <2>4 DEF V
    <3>2. f[k][U] = f[k][V] /\ f[k + 1][U] = f[k][U] + w[s[p]] /\ f[k + 1][V] = f[k][V] + 0
      BY <1>6, <2>1, <2>3, <2>4, <3>1, <1>5, <2>2
    <3> QED
      BY <1>2, <1>5, <2>2, <2>4, <3>2
  <2>5. CASE k + 1 # p
    <3>1. s[k + 1] # s[p]
      BY <1>1, <1>6, <2>2, <2>5 DEF IsInjective
    <3>2. s[k + 1] \in U <=> s[k + 1] \in V
      BY <3>1 DEF V
    <3>3. s[k + 1] \in T /\ w[s[k + 1]] \in Int
      BY <2>2, ElementOfSeq DEF n
    <3>4. p <= k + 1 <=> p <= k
      BY <1>6, <2>5
    <3>5. /\ f[k + 1][U] = f[k][U] + (IF s[k + 1] \in U THEN w[s[k + 1]] ELSE 0)
          /\ f[k + 1][V] = f[k][V] + (IF s[k + 1] \in U THEN w[s[k + 1]] ELSE 0)
      BY <2>3, <3>2
    <3> DEFINE a == IF s[k + 1] \in U THEN w[s[k + 1]] ELSE 0
               b == IF p <= k THEN w[s[p]] ELSE 0
    <3>6. a \in Int /\ b \in Int /\ f[k][U] \in Int /\ f[k][V] \in Int
      BY <1>2, <1>5, <2>2, <3>3
    <3>7. f[k + 1][U] = f[k][U] + a /\ f[k + 1][V] = f[k][V] + a /\ f[k][U] = f[k][V] + b
      BY <2>1, <3>5
    <3> HIDE DEF a
    <3>8. f[k + 1][U] = f[k + 1][V] + b
      <4> HIDE DEF b
      <4> QED
        BY <3>6, <3>7
    <3> QED
      BY <3>4, <3>8
  <2> QED
    BY <2>4, <2>5
<1>9. n \in P
  <2> HIDE DEF P
  <2> QED
    BY <1>1, <1>7, <1>8, AllNaturals
<1>10. f[n][U] = f[n][V] + w[s[p]]
  BY <1>1, <1>9, <1>6
<1>11. f[n][U] = w[s[p]] + f[n][V]
  BY <1>1, <1>2, <1>5, <1>10
<1> QED
  BY <1>11 DEF V, n

\* The elements of a sequence without repetition are as many as its positions.
LEMMA AsManyElements ==
  ASSUME NEW S, NEW s \in Seq(S), IsInjective(s), NEW K
  PROVE  /\ IsFiniteSet(ToSet(s))
         /\ Cardinality(ToSet(s)) = Len(s)
         /\ Cardinality({i \in DOMAIN s : s[i] \in K}) = Cardinality(ToSet(s) \cap K)
<1> DEFINE n == Len(s)
           places == {i \in DOMAIN s : s[i] \in K}
           found == ToSet(s) \cap K
<1>1. n \in Nat /\ DOMAIN s = 1..n
  BY LenProperties
<1> HIDE DEF n
<1>2. s \in [1..n -> ToSet(s)] /\ \A x \in ToSet(s) : \E i \in 1..n : s[i] = x
  BY <1>1, LenProperties DEF ToSet, n
<1>3. s \in Bijection(1..n, ToSet(s))
  BY <1>2 DEF Bijection, Injection, Surjection, IsInjective
<1>4. IsFiniteSet(1..n)
  BY <1>1, FS_Interval
<1>5. IsFiniteSet(ToSet(s)) /\ Cardinality(ToSet(s)) = n
  BY <1>1, <1>3, <1>4, FS_CountingElements, FS_Bijection DEF ExistsBijection
<1> DEFINE h == [i \in places |-> s[i]]
<1>6. h \in [places -> found] /\ \A x \in found : \E i \in places : h[i] = x
  BY <1>1, <1>2 DEF ToSet
<1>7. \A i, j \in places : h[i] = h[j] => i = j
  BY DEF IsInjective
<1>8. IsFiniteSet(places)
  BY <1>1, <1>4, FS_Subset
<1> HIDE DEF places, found, h
<1>9. h \in Bijection(places, found)
  BY <1>6, <1>7 DEF Bijection, Injection, Surjection, IsInjective
<1>10. Cardinality(found) = Cardinality(places)
  BY <1>8, <1>9, FS_Bijection DEF ExistsBijection
<1> QED
  BY <1>5, <1>10 DEF n, places, found

\* The sum over the elements is what a loop over the sequence adds up.
LEMMA SumInOrder ==
  ASSUME NEW T, NEW s \in Seq(T), IsInjective(s), ToSet(s) = T, NEW w \in [T -> Int]
  PROVE  \E sums \in [0..Len(s) -> Int] :
           /\ sums[0] = 0
           /\ \A i \in 1..Len(s) : sums[i] = sums[i - 1] + w[s[i]]
           /\ SumFunction(w) = sums[Len(s)]
<1>1. PICK f : CountsUp(f, s, T, w)
  BY CountingLoop, Zenon
<1>2. AddsUp(f[Len(s)], s, T, w)
  BY <1>1, OneElementMore, Zenon
<1> DEFINE n == Len(s)
<1>3. n \in Nat /\ IsFiniteSet(T) /\ \A i \in 1..n : s[i] \in T
  BY LenProperties, ElementOfSeq, AsManyElements
<1>4. CountsUp(f, s, T, w)
  BY <1>1
<1>5. /\ f \in [0..n -> [SUBSET T -> Int]]
      /\ \A U \in SUBSET T : f[0][U] = 0
      /\ \A i \in 1..n, U \in SUBSET T :
           f[i][U] = f[i - 1][U] + (IF s[i] \in U THEN w[s[i]] ELSE 0)
  BY <1>4 DEF CountsUp
<1> DEFINE Total == f[n]
           x(U) == CHOOSE e \in U : TRUE
           Sum(g) == [U \in SUBSET T |-> IF U = {} THEN 0 ELSE w[x(U)] + g[U \ {x(U)}]]
           iter == CHOOSE g : g = Sum(g)
<1>6. Total \in [SUBSET T -> Int]
  <2> HIDE DEF n
  <2>1. n \in 0..n
    BY <1>3
  <2> QED
    BY <1>5, <2>1
<1>7. \A U \in SUBSET T : \A e \in U : Total[U] = w[e] + Total[U \ {e}]
  <2> SUFFICES ASSUME NEW U \in SUBSET T, NEW e \in U
               PROVE  Total[U] = w[e] + Total[U \ {e}]
    OBVIOUS
  <2>1. PICK p \in 1..n : s[p] = e
    BY LenProperties DEF ToSet
  <2>2. Total[U] = w[s[p]] + Total[U \ {s[p]}]
    <3>1. s[p] \in U
      BY <2>1
    <3>2. p \in 1..Len(s)
      OBVIOUS
    <3> QED
      BY <1>2, <3>1, <3>2 DEF AddsUp
  <2> QED
    BY <2>1, <2>2
<1>8. Total[{}] = 0
  <2> DEFINE P == {k \in Nat : k <= n => f[k][{}] = 0}
  <2>1. 0 \in P
    BY <1>5
  <2>2. ASSUME NEW k \in Nat, k \in P
        PROVE  k + 1 \in P
    <3> SUFFICES ASSUME k + 1 <= n
                 PROVE  f[k + 1][{}] = 0
      OBVIOUS
    <3>1. f[k][{}] = 0
      BY <1>3, <2>2
    <3>2. k + 1 \in 1..n /\ (k + 1) - 1 = k
      BY <1>3
    <3>3. f[k + 1][{}] = f[k][{}] + 0
      BY <1>5, <3>2
    <3> QED
      BY <3>1, <3>3
  <2>3. n \in P
    <3> HIDE DEF P, n
    <3> QED
      BY <1>3, <2>1, <2>2, AllNaturals
  <2> QED
    BY <1>3, <2>3
<1>9. \A U \in SUBSET T : U # {} => x(U) \in U
  OBVIOUS
<1> HIDE DEF Total, x
<1>10. Total = Sum(Total)
  <2>1. \A U \in SUBSET T : Total[U] = IF U = {} THEN 0 ELSE w[x(U)] + Total[U \ {x(U)}]
    BY <1>7, <1>8, <1>9
  <2> QED
    BY <1>6, <2>1
<1>11. iter = Sum(iter)
  <2> HIDE DEF Sum
  <2> QED
    BY <1>10
<1> HIDE DEF iter
<1>12. \A U \in SUBSET T : iter[U] = Total[U]
  <2> DEFINE P == {k \in Nat : \A U \in SUBSET T : Cardinality(U) = k => iter[U] = Total[U]}
  <2>1. \A U \in SUBSET T : iter[U] = IF U = {} THEN 0 ELSE w[x(U)] + iter[U \ {x(U)}]
    BY <1>11
  <2>2. 0 \in P
    <3>1. \A U \in SUBSET T : Cardinality(U) = 0 => U = {}
      BY <1>3, FS_Subset, FS_EmptySet
    <3> QED
      BY <1>8, <2>1, <3>1
  <2>3. ASSUME NEW k \in Nat, k \in P
        PROVE  k + 1 \in P
    <3> SUFFICES ASSUME NEW U \in SUBSET T, Cardinality(U) = k + 1
                 PROVE  iter[U] = Total[U]
      OBVIOUS
    <3>1. U # {}
      <4>1. k + 1 # 0
        OBVIOUS
      <4> QED
        BY <4>1, FS_EmptySet
    <3>2. x(U) \in U
      BY <1>9, <3>1
    <3>3. IsFiniteSet(U)
      BY <1>3, FS_Subset
    <3>4. Cardinality(U \ {x(U)}) = k
      <4>1. Cardinality(U \ {x(U)}) = Cardinality(U) - 1
        BY <3>2, <3>3, FS_RemoveElement
      <4> QED
        BY <4>1
    <3>5. iter[U \ {x(U)}] = Total[U \ {x(U)}]
      BY <2>3, <3>4
    <3> QED
      BY <1>7, <2>1, <3>1, <3>2, <3>5
  <2>4. \A k \in Nat : k \in P
    <3> HIDE DEF P
    <3> QED
      BY <2>2, <2>3, AllNaturals
  <2> QED
    BY <1>3, <2>4, FS_Subset, FS_CardinalityType
<1>13. SumFunction(w) = iter[T]
  <2>1. DOMAIN w = T
    OBVIOUS
  <2> QED
    BY <2>1 DEF SumFunction, SumFunctionOnSet, FoldFunctionOnSet, MapThenFoldSet, iter, x
<1> DEFINE sums == [k \in 0..n |-> f[k][T]]
<1>14. sums \in [0..n -> Int]
  <2>1. \A k \in 0..n : f[k] \in [SUBSET T -> Int]
    BY <1>5
  <2> QED
    BY <2>1
<1>15. sums[0] = 0
  BY <1>3, <1>5
<1>16. \A i \in 1..n : sums[i] = sums[i - 1] + w[s[i]]
  <2> SUFFICES ASSUME NEW i \in 1..n
               PROVE  sums[i] = sums[i - 1] + w[s[i]]
    OBVIOUS
  <2>1. i - 1 \in 0..n /\ i \in 0..n /\ s[i] \in T
    BY <1>3
  <2>2. f[i][T] = f[i - 1][T] + w[s[i]]
    BY <1>5, <2>1
  <2> QED
    BY <2>1, <2>2
<1>17. SumFunction(w) = sums[n]
  BY <1>3, <1>12, <1>13 DEF Total
<1> HIDE DEF sums
<1> QED
  BY <1>14, <1>15, <1>16, <1>17

-----------------------------------------------------------------------------
(* The loops of ComputeAccountStats                                        *)

\* last_before_ts ends as the latest of times that are before current_ts.
LEMMA LastIsLatest ==
  ASSUME NEW R, NEW s \in Seq(R), s # <<>>, NEW now \in Nat,
         \A r \in R : r.times_tamp \in Nat \ {0} /\ r.times_tamp < now
  PROVE  /\ \E i \in DOMAIN s : LastOf(s, now) = s[i].times_tamp
         /\ \A i \in DOMAIN s : s[i].times_tamp <= LastOf(s, now)
<1> DEFINE n == Len(s)
           Step(i, last) == LastBefore(last, s[i].times_tamp, now)
           Loop(f) == [i \in 0..n |-> IF i = 0 THEN 0 ELSE Step(i, f[i - 1])]
           F == [i \in 1..n |-> [last \in Nat |-> Step(i, last)]]
           f == CHOOSE g : g = Loop(g)
<1>1. n \in Nat /\ n # 0 /\ DOMAIN s = 1..n /\ \A i \in 1..n : s[i] \in R
  BY LenProperties, ElementOfSeq, EmptySeq
<1>2. \A i \in 1..n : s[i].times_tamp \in Nat \ {0} /\ s[i].times_tamp < now
  BY <1>1
<1>3. \A i \in 1..n, last \in Nat :
        /\ Step(i, last) \in Nat
        /\ Step(i, last) = IF s[i].times_tamp > last THEN s[i].times_tamp ELSE last
  BY <1>2 DEF LastBefore
<1>4. PICK g \in [0..n -> Nat] :
        g[0] = 0 /\ \A i \in 1..n : g[i] = F[i][g[i - 1]]
  <2> DEFINE T == Nat
             start == 0
  <2>1. F \in [1..n -> [T -> T]] /\ start \in T /\ n \in Nat
    BY <1>1, <1>3
  <2> HIDE DEF F, n, T, start, Step, Loop, f
  <2>2. \E g : IsLoop(g, n, T, start, F)
    BY <2>1, LoopExists, Zenon
  <2> QED
    BY <2>2 DEF T, start, IsLoop
<1>5. g = Loop(g)
  <2>1. \A i \in 1..n : g[i] = Step(i, g[i - 1])
    <3> SUFFICES ASSUME NEW i \in 1..n
                 PROVE  g[i] = Step(i, g[i - 1])
      OBVIOUS
    <3>1. g[i - 1] \in Nat
      BY <1>1, <1>4
    <3>2. F[i][g[i - 1]] = Step(i, g[i - 1])
      BY <3>1
    <3> QED
      BY <1>4, <3>2
  <2> HIDE DEF Step
  <2> QED
    BY <1>1, <1>4, <2>1
<1>6. f = Loop(f)
  <2> HIDE DEF Loop
  <2> QED
    BY <1>5
<1>7. f[0] = 0 /\ \A i \in 1..n : f[i] = Step(i, f[i - 1])
  <2> HIDE DEF f, Step, n
  <2>1. f[0] = 0
    BY <1>1, <1>6
  <2>2. \A i \in 1..n : f[i] = Step(i, f[i - 1])
    BY <1>1, <1>6
  <2> QED
    BY <2>1, <2>2
<1>8. LastOf(s, now) = f[n]
  BY DEF LastOf
<1> DEFINE P == {k \in Nat : k <= n =>
                   /\ f[k] \in Nat
                   /\ k = 0 => f[k] = 0
                   /\ k # 0 => \E i \in 1..k : f[k] = s[i].times_tamp
                   /\ \A i \in 1..k : s[i].times_tamp <= f[k]}
<1> HIDE DEF f, Step
<1>9. 0 \in P
  BY <1>7
<1>10. ASSUME NEW k \in Nat, k \in P
       PROVE  k + 1 \in P
  <2> SUFFICES ASSUME k + 1 <= n
               PROVE  /\ f[k + 1] \in Nat
                      /\ \E i \in 1..(k + 1) : f[k + 1] = s[i].times_tamp
                      /\ \A i \in 1..(k + 1) : s[i].times_tamp <= f[k + 1]
    OBVIOUS
  <2> DEFINE x == s[k + 1].times_tamp
  <2>1. /\ f[k] \in Nat
        /\ k = 0 => f[k] = 0
        /\ k # 0 => \E i \in 1..k : f[k] = s[i].times_tamp
        /\ \A i \in 1..k : s[i].times_tamp <= f[k]
    BY <1>1, <1>10
  <2>2. k + 1 \in 1..n /\ (k + 1) - 1 = k /\ x \in Nat \ {0}
    BY <1>1, <1>2
  <2>3. f[k + 1] = IF x > f[k] THEN x ELSE f[k]
    BY <1>3, <1>7, <2>1, <2>2
  <2>4. \A i \in 1..(k + 1) : i = k + 1 \/ i \in 1..k
    OBVIOUS
  <2>5. f[k + 1] \in Nat /\ x <= f[k + 1] /\ f[k] <= f[k + 1]
    BY <2>1, <2>2, <2>3
  <2>6. \A i \in 1..(k + 1) : s[i].times_tamp <= f[k + 1]
    <3>1. \A i \in 1..k : s[i].times_tamp \in Nat
      BY <1>1, <1>2, <2>2
    <3> HIDE DEF P
    <3> QED
      BY <2>1, <2>4, <2>5, <3>1
  <2>7. \E i \in 1..(k + 1) : f[k + 1] = s[i].times_tamp
    <3>1. CASE x > f[k]
      BY <2>3, <3>1
    <3>2. CASE ~ (x > f[k])
      <4>1. k # 0
        BY <2>1, <2>2, <3>2
      <4> QED
        BY <2>1, <2>3, <3>2, <4>1
    <3> QED
      BY <3>1, <3>2
  <2> QED
    BY <2>5, <2>6, <2>7
<1>11. n \in P
  <2> HIDE DEF P
  <2> QED
    BY <1>1, <1>9, <1>10, AllNaturals
<1> HIDE DEF n
<1>12. /\ \E i \in 1..n : f[n] = s[i].times_tamp
       /\ \A i \in 1..n : s[i].times_tamp <= f[n]
  BY <1>1, <1>11
<1> HIDE DEF P
<1> QED
  BY <1>1, <1>8, <1>12

\* Numbers with the same multiple are the same.
LEMMA SameMultiple ==
  ASSUME NEW k \in Nat, k # 0, NEW x \in Int, NEW y \in Int, k * x = k * y
  PROVE  x = y
<1>1. k * (x - y) = 0
  OBVIOUS
<1>2. ASSUME NEW d \in Int, d # 0
      PROVE  k * d # 0
  BY <1>2, SMTT(30)
<1> QED
  BY <1>1, <1>2

Moment == [n : Nat, scale : Nat \ {0}, mean : Int, m2 : Nat]

\* Every step of Welford's gives moments: what it adds to m2 is never negative,
\* as it is a multiple of the square of delta.
LEMMA MomentsAreMoments ==
  ASSUME NEW m \in Moment, NEW a \in Nat
  PROVE  LET delta == (a * m.scale) - m.mean IN
         /\ Moments(m, a) \in Moment
         /\ Moments(m, a).m2 = ((m.m2 * (m.n + 1)) + (m.n * (delta * delta))) * (m.n + 1)
<1> DEFINE k == m.n
           sc == m.scale
           mu == m.mean
           q == m.m2
           n == k + 1
           delta == (a * sc) - mu
           mean == (mu * n) + delta
           c == sc * n
           m2 == ((q * n) + (delta * ((a * sc * n) - mean))) * n
<1>1. k \in Nat /\ sc \in Nat /\ sc # 0 /\ mu \in Int /\ q \in Nat
  BY DEF Moment
<1>2. Moments(m, a) = [n |-> n, scale |-> c, mean |-> mean, m2 |-> m2]
  BY DEF Moments
<1> HIDE DEF k, sc, mu, q
<1>3. n \in Nat /\ n # 0 /\ delta \in Int
  BY <1>1
<1>4. c \in Nat \ {0}
  BY <1>1, <1>3
<1>5. mean \in Int
  <2> HIDE DEF delta
  <2> QED
    BY <1>1, <1>3
<1>6. (a * sc * n) - mean = k * delta
  BY <1>1
<1> HIDE DEF mean, delta
<1>7. m2 = ((q * n) + (k * (delta * delta))) * n
  BY <1>1, <1>3, <1>6
<1>8. ((q * n) + (k * (delta * delta))) * n \in Nat
  <2> DEFINE d2 == delta * delta
  <2>1. d2 \in Nat
    BY <1>3
  <2> HIDE DEF d2, n
  <2>2. q * n \in Nat /\ k * d2 \in Nat
    BY <1>1, <1>3, <2>1
  <2>3. (q * n) + (k * d2) \in Nat
    BY <2>2
  <2>4. ((q * n) + (k * d2)) * n \in Nat
    BY <1>3, <2>3
  <2> QED
    BY <2>4 DEF d2
<1>9. m2 \in Nat
  BY <1>7, <1>8
<1> HIDE DEF c, m2, n
<1>10. Moments(m, a) \in Moment
  BY <1>2, <1>3, <1>4, <1>5, <1>9 DEF Moment
<1>11. Moments(m, a).m2 = m2
  BY <1>2
<1> QED
  BY <1>7, <1>10, <1>11 DEF delta, k, n, sc, mu, q

\* What Welford's step keeps exact: with s1 and s2 the sums of k amounts and of
\* their squares, the mean is s1 / k and m2 is s2 - s1^2 / k.
IsMoments(m, k, s1, s2) ==
  /\ m \in Moment
  /\ m.n = k
  /\ k = 0 => m.mean = 0 /\ m.m2 = 0
  /\ k * m.mean = s1 * m.scale
  /\ k * m.m2 = ((k * s2) - (s1 * s1)) * (m.scale * m.scale)

\* The step leads from moments of k amounts to moments of k + 1.
LEMMA MomentsStep ==
  ASSUME NEW m, NEW k \in Nat, NEW s1 \in Int, NEW s2 \in Int, NEW a \in Nat,
         IsMoments(m, k, s1, s2), k = 0 => s1 = 0 /\ s2 = 0
  PROVE  IsMoments(Moments(m, a), k + 1, s1 + a, s2 + (a * a))
<1> DEFINE sc == m.scale
           mu == m.mean
           q == m.m2
           n == k + 1
           delta == (a * sc) - mu
           mean == (mu * n) + delta
           c == sc * n
           m2 == ((q * n) + (delta * ((a * sc * n) - mean))) * n
           t1 == s1 + a
           t2 == s2 + (a * a)
<1>1. /\ m.n = k /\ sc \in Nat /\ sc # 0 /\ mu \in Int /\ q \in Nat
      /\ k = 0 => mu = 0 /\ q = 0
      /\ k * mu = s1 * sc
      /\ k * q = ((k * s2) - (s1 * s1)) * (sc * sc)
  BY DEF IsMoments, Moment
<1>2. Moments(m, a) = [n |-> n, scale |-> c, mean |-> mean, m2 |-> m2]
  BY <1>1 DEF Moments
<1> HIDE DEF sc, mu, q
<1>3. n \in Nat /\ n # 0 /\ delta \in Int
  BY <1>1
<1>4. c \in Nat \ {0}
  BY <1>1, <1>3
<1>5. mean = t1 * sc
  BY <1>1
<1>6. Moments(m, a) \in Moment /\ m2 = ((q * n) + (k * (delta * delta))) * n
  <2>1. m \in Moment
    BY DEF IsMoments
  <2>2. Moments(m, a) \in Moment /\ Moments(m, a).m2 = ((q * n) + (k * (delta * delta))) * n
    BY <1>1, <2>1, MomentsAreMoments DEF sc, mu, q
  <2>3. Moments(m, a).m2 = m2
    <3> HIDE DEF m2
    <3> QED
      BY <1>2
  <2> QED
    BY <2>2, <2>3
<1>7. n * mean = t1 * c
  BY <1>1, <1>3, <1>5
<1>8. (q * n) + (k * (delta * delta)) = ((n * t2) - (t1 * t1)) * (sc * sc)
  <2> DEFINE x == (q * n) + (k * (delta * delta))
             y == ((n * t2) - (t1 * t1)) * (sc * sc)
  <2>1. CASE k = 0
    <3>1. x = 0
      BY <1>1, <1>3, <2>1
    <3>2. (n * t2) - (t1 * t1) = 0
      BY <2>1
    <3>3. y = 0
      BY <1>1, <3>2
    <3> QED
      BY <3>1, <3>3
  <2>2. CASE k # 0
    <3>1. k * delta = ((k * a) - s1) * sc
      BY <1>1
    <3>2. (k * delta) * (k * delta) = (((k * a) - s1) * ((k * a) - s1)) * (sc * sc)
      <4> DEFINE u == (k * a) - s1
      <4>1. u \in Int
        OBVIOUS
      <4> HIDE DEF u
      <4>2. (u * sc) * (u * sc) = (u * u) * (sc * sc)
        BY <1>1, <4>1
      <4> QED
        BY <3>1, <4>2 DEF u
    <3>3. k * x = ((k * q) * n) + ((k * delta) * (k * delta))
      <4> HIDE DEF delta
      <4> QED
        BY <1>1, <1>3
    <3>4. k * x = (((k * s2) - (s1 * s1)) * n + (((k * a) - s1) * ((k * a) - s1))) * (sc * sc)
      <4> DEFINE e == (k * s2) - (s1 * s1)
                 z == ((k * a) - s1) * ((k * a) - s1)
                 w == sc * sc
      <4>1. e \in Int /\ z \in Int /\ w \in Int
        BY <1>1
      <4>2. k * x = (e * w) * n + z * w
        BY <1>1, <3>2, <3>3
      <4> HIDE DEF e, z, w
      <4>3. (e * w) * n + z * w = (e * n + z) * w
        BY <4>1
      <4> QED
        BY <4>2, <4>3 DEF e, z, w
    <3>5. ((k * s2) - (s1 * s1)) * n + (((k * a) - s1) * ((k * a) - s1)) = k * ((n * t2) - (t1 * t1))
      OBVIOUS
    <3>6. k * x = k * y
      <4> DEFINE v == (n * t2) - (t1 * t1)
                 w == sc * sc
      <4>1. v \in Int /\ w \in Int
        BY <1>1
      <4>2. k * x = (k * v) * w
        BY <3>4, <3>5
      <4> HIDE DEF v, w, x
      <4>3. (k * v) * w = k * (v * w)
        BY <4>1
      <4> QED
        BY <4>2, <4>3 DEF v, w
    <3>7. x \in Int /\ y \in Int
      <4>1. (n * t2) - (t1 * t1) \in Int /\ sc * sc \in Int
        BY <1>1
      <4> QED
        BY <1>1, <1>3, <4>1
    <3>8. x = y
      <4> HIDE DEF x, y
      <4> QED
        BY <2>2, <3>6, <3>7, SameMultiple
    <3> QED
      BY <3>8
  <2> QED
    BY <2>1, <2>2
<1>9. n * m2 = ((n * t2) - (t1 * t1)) * (c * c)
  <2> DEFINE v == (n * t2) - (t1 * t1)
             x == (q * n) + (k * (delta * delta))
  <2>1. v \in Int
    OBVIOUS
  <2>2. m2 = x * n /\ x = v * (sc * sc)
    BY <1>6, <1>8
  <2> HIDE DEF v, x, m2, n
  <2>3. n * ((v * (sc * sc)) * n) = v * ((sc * n) * (sc * n))
    BY <1>1, <1>3, <2>1
  <2> QED
    BY <2>2, <2>3 DEF v
<1> HIDE DEF c, mean, m2, delta, t1, t2
<1> QED
  BY <1>2, <1>3, <1>6, <1>7, <1>9 DEF IsMoments, t1, t2

\* The loop leaves the moments of the amounts of all rows, in whatever order
\* they are.
LEMMA MomentsOfAll ==
  ASSUME NEW T, NEW s \in Seq(T), IsInjective(s), ToSet(s) = T,
         \A r \in T : r.posted.amount \in Nat
  PROVE  LET sum == SumFunction([r \in T |-> r.posted.amount])
             squares == SumFunction([r \in T |-> r.posted.amount * r.posted.amount])
         IN /\ sum \in Int /\ squares \in Int
            /\ IsMoments(MomentsOf(s), Len(s), sum, squares)
<1> DEFINE n == Len(s)
           a(i) == s[i].posted.amount
           start == [n |-> 0, scale |-> 1, mean |-> 0, m2 |-> 0]
           Loop(f) == [i \in 0..n |-> IF i = 0 THEN start ELSE Moments(f[i - 1], a(i))]
           F == [i \in 1..n |-> [m \in Moment |-> Moments(m, a(i))]]
           f == CHOOSE g : g = Loop(g)
           w1 == [r \in T |-> r.posted.amount]
           w2 == [r \in T |-> r.posted.amount * r.posted.amount]
<1>1. n \in Nat /\ \A i \in 1..n : s[i] \in T /\ a(i) \in Nat
  BY LenProperties, ElementOfSeq
<1>2. w1 \in [T -> Int] /\ w2 \in [T -> Int]
  BY SMT
<1>3. /\ \A i \in 1..n : w1[s[i]] = a(i)
      /\ \A i \in 1..n : w2[s[i]] = a(i) * a(i)
  BY <1>1
<1>4. \A i \in 1..n, m \in Moment : Moments(m, a(i)) \in Moment
  BY <1>1, MomentsAreMoments
<1>5. start \in Moment
  BY DEF Moment
<1>6. MomentsOf(s) = f[n]
  BY DEF MomentsOf
<1> HIDE DEF n, a, w1, w2, start
<1>7. PICK g \in [0..n -> Moment] :
        g[0] = start /\ \A i \in 1..n : g[i] = F[i][g[i - 1]]
  <2>1. F \in [1..n -> [Moment -> Moment]]
    BY <1>4
  <2> HIDE DEF F, Loop, f
  <2>2. \E g : IsLoop(g, n, Moment, start, F)
    BY <1>1, <1>5, <2>1, LoopExists, Zenon
  <2> QED
    BY <2>2 DEF IsLoop
<1>8. g = Loop(g)
  <2>1. \A i \in 1..n : g[i] = Moments(g[i - 1], a(i))
    <3> SUFFICES ASSUME NEW i \in 1..n
                 PROVE  g[i] = Moments(g[i - 1], a(i))
      OBVIOUS
    <3>1. g[i - 1] \in Moment
      BY <1>1, <1>7
    <3>2. F[i][g[i - 1]] = Moments(g[i - 1], a(i))
      BY <3>1
    <3> HIDE DEF F
    <3> QED
      BY <1>7, <3>2
  <2> QED
    BY <1>1, <1>7, <2>1
<1>9. f = Loop(f)
  <2> HIDE DEF Loop
  <2> QED
    BY <1>8
<1>10. f[0] = start /\ \A i \in 1..n : f[i] = Moments(f[i - 1], a(i))
  <2> HIDE DEF f
  <2>1. f[0] = start
    BY <1>1, <1>9
  <2>2. \A i \in 1..n : f[i] = Moments(f[i - 1], a(i))
    BY <1>1, <1>9
  <2> QED
    BY <2>1, <2>2
<1> HIDE DEF f, Loop, F
<1>11. PICK s1 \in [0..n -> Int] : /\ s1[0] = 0
                                   /\ \A i \in 1..n : s1[i] = s1[i - 1] + w1[s[i]]
                                   /\ SumFunction(w1) = s1[n]
  BY <1>2, SumInOrder DEF n
<1>12. PICK s2 \in [0..n -> Int] : /\ s2[0] = 0
                                   /\ \A i \in 1..n : s2[i] = s2[i - 1] + w2[s[i]]
                                   /\ SumFunction(w2) = s2[n]
  BY <1>2, SumInOrder DEF n
<1> DEFINE P == {k \in Nat : k <= n => IsMoments(f[k], k, s1[k], s2[k])}
<1>13. 0 \in P
  <2>1. IsMoments(start, 0, 0, 0)
    BY <1>5 DEF IsMoments, start
  <2> QED
    BY <1>10, <1>11, <1>12, <2>1
<1>14. ASSUME NEW k \in Nat, k \in P
       PROVE  k + 1 \in P
  <2> SUFFICES ASSUME k + 1 <= n
               PROVE  IsMoments(f[k + 1], k + 1, s1[k + 1], s2[k + 1])
    OBVIOUS
  <2>1. IsMoments(f[k], k, s1[k], s2[k])
    BY <1>1, <1>14
  <2>2. k + 1 \in 1..n /\ (k + 1) - 1 = k /\ k \in 0..n
    BY <1>1
  <2>3. /\ s1[k] \in Int /\ s2[k] \in Int /\ a(k + 1) \in Nat
        /\ k = 0 => s1[k] = 0 /\ s2[k] = 0
    BY <1>1, <1>11, <1>12, <2>2
  <2>4. /\ f[k + 1] = Moments(f[k], a(k + 1))
        /\ s1[k + 1] = s1[k] + a(k + 1)
        /\ s2[k + 1] = s2[k] + (a(k + 1) * a(k + 1))
    BY <1>3, <1>10, <1>11, <1>12, <2>2
  <2>5. IsMoments(Moments(f[k], a(k + 1)), k + 1, s1[k] + a(k + 1), s2[k] + (a(k + 1) * a(k + 1)))
    BY <2>1, <2>3, MomentsStep, Zenon
  <2> QED
    BY <2>4, <2>5
<1>15. n \in P
  <2> HIDE DEF P
  <2> QED
    BY <1>1, <1>13, <1>14, AllNaturals
<1>16. IsMoments(f[n], n, s1[n], s2[n]) /\ s1[n] \in Int /\ s2[n] \in Int
  BY <1>1, <1>15
<1> QED
  BY <1>6, <1>11, <1>12, <1>16 DEF n, w1, w2

\* The score of the moments is the distance from the mean over the root of the
\* variance, and 0 where there is no variance.
LEMMA ScoreOfMoments ==
  ASSUME NEW m, NEW n \in Nat, n # 0, NEW s1 \in Int, NEW s2 \in Int, NEW a \in Nat,
         IsMoments(m, n, s1, s2)
  PROVE  LET deviation == (n * a) - s1
             variance == (n * s2) - (s1 * s1)
             score == IF m.m2 > 0 THEN <<(a * m.scale) - m.mean, m.m2, m.n>> ELSE <<0, 1, 1>>
         IN IF variance = 0 THEN score = <<0, 1, 1>>
            ELSE /\ score[2] > 0 /\ score[3] > 0
                 /\ score[1] * deviation >= 0
                 /\ score[1] * score[1] * score[3] * variance = deviation * deviation * score[2]
<1> DEFINE sc == m.scale
           q == m.m2
           mu == m.mean
           d == (n * a) - s1
           v == (n * s2) - (s1 * s1)
           x == (a * sc) - mu
           score == IF q > 0 THEN <<x, q, m.n>> ELSE <<0, 1, 1>>
<1>1. /\ sc \in Nat /\ sc # 0 /\ q \in Nat /\ mu \in Int /\ m.n = n
      /\ n * mu = s1 * sc
      /\ n * q = v * (sc * sc)
  BY DEF IsMoments, Moment
<1> HIDE DEF sc, q, mu
<1>2. x \in Int /\ d \in Int /\ v \in Int
  BY <1>1
<1>3. n * x = sc * d
  BY <1>1
<1> HIDE DEF x, d, v
<1>4. v = 0 => q = 0
  <2> SUFFICES ASSUME v = 0
               PROVE  q = 0
    OBVIOUS
  <2>1. n * q = n * 0
    BY <1>1
  <2> QED
    BY <1>1, <2>1, SameMultiple
<1>5. v # 0 => q > 0
  <2> SUFFICES ASSUME q = 0
               PROVE  v = 0
    BY <1>1
  <2>1. sc * (sc * v) = sc * 0
    BY <1>1, <1>2
  <2>2. sc * v = sc * 0
    BY <1>1, <1>2, <2>1, SameMultiple
  <2> QED
    BY <1>1, <1>2, <2>2, SameMultiple
<1>6. x * d >= 0
  <2> DEFINE y == x * d
             z == sc * (d * d)
  <2>1. y \in Int
    BY <1>2
  <2>2. n * y = (n * x) * d
    BY <1>2
  <2>3. (n * x) * d = z
    BY <1>1, <1>2, <1>3
  <2>4. z \in Nat
    <3>1. d * d \in Nat
      BY <1>2
    <3> QED
      BY <1>1, <3>1
  <2> HIDE DEF y, z
  <2>5. y < 0 => n * y < 0
    BY <2>1
  <2>6. y >= 0
    BY <2>1, <2>2, <2>3, <2>4, <2>5
  <2> QED
    BY <2>6 DEF y
<1>7. x * x * n * v = d * d * q
  <2>1. n * (x * x * n * v) = ((n * x) * (n * x)) * v
    BY <1>2
  <2>2. ((n * x) * (n * x)) * v = (d * d) * (v * (sc * sc))
    BY <1>1, <1>2, <1>3
  <2>3. (d * d) * (n * q) = n * (d * d * q)
    BY <1>1, <1>2
  <2>4. n * (x * x * n * v) = n * (d * d * q)
    BY <1>1, <2>1, <2>2, <2>3
  <2>5. x * x * n * v \in Int /\ d * d * q \in Int
    BY <1>1, <1>2
  <2> QED
    BY <2>4, <2>5, SameMultiple
<1>8. IF v = 0 THEN score = <<0, 1, 1>>
      ELSE /\ score[2] > 0 /\ score[3] > 0
           /\ score[1] * d >= 0
           /\ score[1] * score[1] * score[3] * v = d * d * score[2]
  <2>1. CASE v = 0
    BY <1>4, <2>1
  <2>2. CASE v # 0
    <3>1. score = <<x, q, n>>
      BY <1>1, <1>5, <2>2
    <3> HIDE DEF score
    <3>2. score[1] = x /\ score[2] = q /\ score[3] = n
      BY <3>1
    <3> QED
      BY <1>5, <1>6, <1>7, <2>2, <3>2
  <2> QED
    BY <2>1, <2>2
<1> QED
  BY <1>8 DEF d, v, x, sc, q, mu

\* The statistics of rows that are from before a transaction, in whatever order
\* they are, are what their names say.
LEMMA StatsOfPastRows ==
  ASSUME NEW s \in Seq(Row), IsInjective(s), NEW t \in Posted,
         \A r \in ToSet(s) : r.times_tamp # 0 /\ r.times_tamp < ParseTimestamp(t.timestamp)
  PROVE  AreStatsOf(ComputeAccountStats(s, t), ToSet(s), t)
<1> DEFINE past == ToSet(s)
           now == ParseTimestamp(t.timestamp)
           st == ComputeAccountStats(s, t)
           n == Len(s)
           sum == SumFunction([r \in past |-> r.posted.amount])
           squares == SumFunction([r \in past |-> r.posted.amount * r.posted.amount])
           m == MomentsOf(s)
           score == IF m.m2 > 0 THEN <<(t.amount * m.scale) - m.mean, m.m2, m.n>> ELSE <<0, 1, 1>>
           recent == {r \in past : now - r.times_tamp <= Day}
           elsewhere == {r \in past : r.posted.categories.location # t.categories.location}
<1>1. n \in Nat /\ DOMAIN s = 1..n /\ \A i \in 1..n : s[i] \in past
  BY LenProperties DEF ToSet
<1>2. now \in Nat /\ t.amount \in Nat
  BY PostedAssumption DEF ParseTimestamp
<1>3. past \subseteq Row
  BY LenProperties, ElementOfSeq DEF ToSet
<1>4. /\ \A r \in past : r.times_tamp \in Nat \ {0} /\ r.times_tamp < now
      /\ \A r \in past : r.posted.amount \in Nat
  BY <1>3, PostedAssumption DEF Row
<1>5. s \in Seq(past)
  BY <1>1, SeqDef
<1>6. CASE s = <<>>
  <2>1. past = {}
    BY <1>6 DEF ToSet
  <2> QED
    BY <1>6, <2>1 DEF ComputeAccountStats, AreStatsOf
<1>7. CASE s # <<>>
  <2>1. n # 0 /\ past # {}
    <3>1. n # 0
      BY <1>7, EmptySeq
    <3> QED
      BY <1>1, <3>1
  <2>2. /\ st.time_since_last_transaction = IF LastOf(s, now) > 0 THEN now - LastOf(s, now) ELSE 0
        /\ st.spending_deviation_score = score
        /\ st.velocity_score = Cardinality({i \in DOMAIN s : s[i].times_tamp >= now - Day /\ s[i].times_tamp < now})
        /\ st.geo_anomaly_score =
             <<Cardinality({i \in DOMAIN s : s[i].posted.categories.location # t.categories.location}), n>>
    BY <1>7 DEF ComputeAccountStats
  <2>3. \E r \in past : /\ st.time_since_last_transaction = now - r.times_tamp
                        /\ \A q \in past : q.times_tamp <= r.times_tamp
    <3> DEFINE last == LastOf(s, now)
    <3>1. /\ \E i \in DOMAIN s : last = s[i].times_tamp
          /\ \A i \in DOMAIN s : s[i].times_tamp <= last
      <4> HIDE DEF past, now
      <4> QED
        BY <1>2, <1>4, <1>5, <1>7, LastIsLatest
    <3>2. st.time_since_last_transaction = IF last > 0 THEN now - last ELSE 0
      BY <2>2
    <3> HIDE DEF last, st, now
    <3>3. PICK i \in DOMAIN s : last = s[i].times_tamp
      BY <3>1
    <3>4. s[i] \in past /\ last \in Nat \ {0}
      BY <1>1, <1>4, <3>3
    <3>5. \A q \in past : q.times_tamp <= last
      BY <3>1 DEF ToSet
    <3> QED
      BY <3>2, <3>3, <3>4, <3>5
  <2>4. IsFiniteSet(past) /\ Cardinality(past) = n
    BY <1>1, AsManyElements
  <2>5. LET deviation == (n * t.amount) - sum
            variance == (n * squares) - (sum * sum)
        IN IF variance = 0 THEN score = <<0, 1, 1>>
           ELSE /\ score[2] > 0 /\ score[3] > 0
                /\ score[1] * deviation >= 0
                /\ score[1] * score[1] * score[3] * variance = deviation * deviation * score[2]
    <3>1. sum \in Int /\ squares \in Int /\ IsMoments(m, n, sum, squares)
      <4> HIDE DEF past
      <4> QED
        BY <1>4, <1>5, MomentsOfAll DEF past
    <3> HIDE DEF sum, squares, m, n
    <3> QED
      BY <1>1, <1>2, <2>1, <3>1, ScoreOfMoments
  <2>6. Cardinality({i \in DOMAIN s : s[i].times_tamp >= now - Day /\ s[i].times_tamp < now})
          = Cardinality(recent)
    <3>1. {i \in DOMAIN s : s[i].times_tamp >= now - Day /\ s[i].times_tamp < now}
            = {i \in DOMAIN s : s[i] \in recent}
      BY <1>1, <1>2, <1>4, ClockAssumption
    <3>2. past \cap recent = recent
      OBVIOUS
    <3> HIDE DEF recent
    <3>3. Cardinality({i \in DOMAIN s : s[i] \in recent}) = Cardinality(past \cap recent)
      BY AsManyElements
    <3> QED
      BY <3>1, <3>2, <3>3
  <2>7. Cardinality({i \in DOMAIN s : s[i].posted.categories.location # t.categories.location})
          = Cardinality(elsewhere)
    <3>1. {i \in DOMAIN s : s[i].posted.categories.location # t.categories.location}
            = {i \in DOMAIN s : s[i] \in elsewhere}
      BY <1>1
    <3>2. past \cap elsewhere = elsewhere
      OBVIOUS
    <3> HIDE DEF elsewhere
    <3>3. Cardinality({i \in DOMAIN s : s[i] \in elsewhere}) = Cardinality(past \cap elsewhere)
      BY AsManyElements
    <3> QED
      BY <3>1, <3>2, <3>3
  <2> HIDE DEF st, n, m, sum, squares, score, past, recent, elsewhere
  <2>8. AreStatsOf(st, past, t)
    BY <2>1, <2>2, <2>3, <2>4, <2>5, <2>6, <2>7 DEF AreStatsOf, sum, squares, recent, elsewhere
  <2> QED
    BY <2>8 DEF st, past
<1> QED
  BY <1>6, <1>7

\* The statistics a model is fed with are those of rows that are among the
\* newest of the account and from before the transaction: however many requests
\* there were, whatever the limit and the amounts are, and in whatever order
\* the rows of one time came (GetAccountHistory, ComputeAccountStats).
THEOREM StatsFromNewest == Spec => []StatsOfNewestRows
<1>1. Inv => StatsOfNewestRows
  <2> SUFFICES ASSUME Inv, phase = "computed", answered
               PROVE  \E newest \in NewestSets(tx.account) :
                        AreStatsOf(stats, {r \in newest : r.times_tamp < ParseTimestamp(tx.timestamp)}, tx)
    BY DEF StatsOfNewestRows
  <2>1. PICK newest \in NewestSets(tx.account) :
          ToSet(history) = {r \in newest : r.times_tamp < ParseTimestamp(tx.timestamp)}
    BY DEF Inv, Selected
  <2>2. /\ history \in Seq(RowsOf(tx.account)) /\ IsInjective(history)
        /\ \A r \in ToSet(history) : r.times_tamp < ParseTimestamp(tx.timestamp)
        /\ stats = ComputeAccountStats(history, tx)
    BY DEF Inv, Selected
  <2>3. tx \in Posted /\ rows \subseteq Row /\ ToSet(history) \subseteq rows
    BY DEF Inv, TypeOK
  <2>4. history \in Seq(Row)
    <3>1. /\ Len(history) \in Nat /\ DOMAIN history = 1..Len(history)
          /\ history \in [1..Len(history) -> Row]
      BY <2>2, <2>3, LenProperties, ElementOfSeq DEF RowsOf
    <3> QED
      BY <3>1, SeqDef
  <2>5. \A r \in ToSet(history) : r.times_tamp # 0
    <3> SUFFICES ASSUME NEW r \in ToSet(history)
                 PROVE  r.times_tamp # 0
      OBVIOUS
    <3>1. r \in Row /\ r.times_tamp = Stoll(r.posted.timestamp)
      BY <2>3 DEF Inv, Stored
    <3>2. r.posted \in Posted
      BY <3>1 DEF Row
    <3> QED
      BY <3>1, <3>2, PostedAssumption, LimitAssumption, ClockAssumption DEF Stoll
  <2>6. AreStatsOf(stats, ToSet(history), tx)
    BY <2>2, <2>3, <2>4, <2>5, StatsOfPastRows
  <2> QED
    BY <2>1, <2>6
<1> QED
  BY <1>1, Invariance, PTL

=============================================================================
