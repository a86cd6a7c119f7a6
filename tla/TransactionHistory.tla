------------------------- MODULE TransactionHistory -------------------------
(***************************************************************************)
(* The table of transactions and what the models are told about an         *)
(* account: SaveTransaction and GetAccountHistory of                       *)
(* TransactionHistoryService, the filter of RedisHistoryProvider and       *)
(* MLFraudDetector::ComputeAccountStats.  Every request saves its          *)
(* transaction; one of an ML rule then asks for the statistics, and the    *)
(* vector of features is made of them and of the transaction.              *)
(*                                                                         *)
(* A timestamp is [format, wall, offset]: the instant wall - offset,       *)
(* written as an ISO text that shows wall (and perhaps the offset), or as  *)
(* a number of seconds.  Amounts are log1p of amounts.                     *)
(***************************************************************************)
EXTENDS FeatureVector, SequencesExt

CONSTANTS
  Posted,   \* the transactions, [id, account, timestamp, amount, categories]
  Columns,  \* the files of columns, one for each model
  Limit,    \* rows asked for: 1000 in the code
  Year,     \* the number that the ISO texts begin with
  NoTransaction

\* An epoch number has no offset, and a year is a small number of seconds.
ASSUME PostedAssumption ==
  \A t \in Posted :
    /\ t.timestamp.format \in {"iso", "epoch"}
    /\ t.timestamp.wall \in Nat /\ t.timestamp.offset \in Int
    /\ t.timestamp.format = "epoch" => t.timestamp.offset = 0
    /\ Year < t.timestamp.wall - Day
    /\ t.amount \in Nat
    /\ DOMAIN t.categories = Category
    /\ \A g \in DOMAIN Enumeration : t.categories[g] \in DOMAIN Enumeration[g]

ASSUME LimitAssumption == Limit \in Nat \ {0} /\ Year \in Nat \ {0}

ASSUME NoTransactionAssumption == NoTransaction \notin Posted

VARIABLES
  rows,      \* the table: [posted, times_tamp], posted the transaction that
             \* the other columns are from
  phase,     \* polling, saved, computed
  tx,        \* the transaction in work
  answered,  \* whether Postgres answered the query
  history,   \* what GetAccountHistory returned, a sequence of rows
  stats,     \* the AccountStats
  columns,   \* the columns of the model
  vector     \* what it is fed with

model == <<columns, vector>>
vars == <<rows, phase, tx, answered, history, stats, model>>

-----------------------------------------------------------------------------
(* The readings of a timestamp                                             *)

Instant(ts) == ts.wall - ts.offset

\* std::stoll stops at the hyphen after the year.
Stoll(ts) == IF ts.format = "iso" THEN Year ELSE ts.wall

\* An ISO text is read up to the seconds, as UTC; a number is read as it is.
ParseTimestamp(ts) == ts.wall

-----------------------------------------------------------------------------
(* The table                                                               *)

\* MUTANT: INSERT without ON CONFLICT and without the constraint.
InsertAlways(table, t) ==
  table \cup {[posted |-> t, times_tamp |-> Stoll(t.timestamp)]}

\* INSERT ... ON CONFLICT (transaction_id) DO NOTHING.
Insert(table, t) ==
  IF \E r \in table : r.posted.id = t.id THEN table
  ELSE table \cup {[posted |-> t, times_tamp |-> Stoll(t.timestamp)]}

RowsOf(account) == {r \in rows : r.posted.account = account}

\* What ORDER BY times_tamp DESC LIMIT can return: rows of one time in any order.
Newest(account) ==
  LET Sorted(s) == \A i, j \in DOMAIN s : i < j => s[i].times_tamp >= s[j].times_tamp
  IN {SubSeq(s, 1, Min({Limit, Len(s)})) : s \in {q \in SetToSeqs(RowsOf(account)) : Sorted(q)}}

\* A loop over s that keeps the elements that are in kept.
Filtered(s, kept) ==
  LET filtered[n \in 0..Len(s)] ==
        IF n = 0 THEN <<>>
        ELSE IF s[n] \in kept THEN Append(filtered[n - 1], s[n]) ELSE filtered[n - 1]
  IN filtered[Len(s)]

\* MUTANT: the transaction's own time is in its past.
EarlierOrNow(s, before_timestamp) ==
  Filtered(s, {r \in ToSet(s) : r.times_tamp <= before_timestamp})

\* The loop of RedisHistoryProvider::GetAccountHistory.
Earlier(s, before_timestamp) ==
  Filtered(s, {r \in ToSet(s) : r.times_tamp < before_timestamp})

-----------------------------------------------------------------------------
(* ComputeAccountStats.  A fraction is a pair; spending_deviation_score is *)
(* <<d, m, n>>, that is, d divided by the root of m / n.                   *)

NoStats == [time_since_last_transaction |-> 0, spending_deviation_score |-> <<0, 1, 1>>,
            velocity_score |-> 0, geo_anomaly_score |-> <<1, 1>>]

\* MUTANT: the mean moves before the distance from it is taken.
MomentsLate(m, amount) ==
  LET n == m.n + 1
      mean == (m.mean * n) + ((amount * m.scale) - m.mean)
      late == (amount * m.scale * n) - mean
  IN [n |-> n, scale |-> m.scale * n, mean |-> mean, m2 |-> (m.m2 * n * n) + (late * late)]

\* Mean and squared distance of the amounts so far (Welford), kept exact:
\* mean is a number of 1 / scale, m2 of 1 / scale^2, as delta is before the
\* division by n gives a new scale.
Moments(m, amount) ==
  LET n == m.n + 1
      delta == (amount * m.scale) - m.mean
      mean == (m.mean * n) + delta
  IN [n |-> n, scale |-> m.scale * n, mean |-> mean,
      m2 |-> ((m.m2 * n) + (delta * ((amount * m.scale * n) - mean))) * n]

LastBefore(last, times_tamp, current_ts) ==
  IF times_tamp < current_ts /\ times_tamp > last THEN times_tamp ELSE last

\* The loop over the history s, up to each of its rows.
MomentsOf(s) ==
  LET moments[i \in 0..Len(s)] ==
        IF i = 0 THEN [n |-> 0, scale |-> 1, mean |-> 0, m2 |-> 0]
        ELSE Moments(moments[i - 1], s[i].posted.amount)
  IN moments[Len(s)]

LastOf(s, current_ts) ==
  LET last_before[i \in 0..Len(s)] ==
        IF i = 0 THEN 0 ELSE LastBefore(last_before[i - 1], s[i].times_tamp, current_ts)
  IN last_before[Len(s)]

ComputeAccountStats(s, t) ==
  LET current_ts == ParseTimestamp(t.timestamp)
      m == MomentsOf(s)
      last == LastOf(s, current_ts)
      InWindow(r) == r.times_tamp >= current_ts - Day /\ r.times_tamp < current_ts
      Elsewhere(r) == r.posted.categories.location # t.categories.location
  IN IF s = <<>> THEN NoStats
     ELSE [time_since_last_transaction |-> IF last > 0 THEN current_ts - last ELSE 0,
           spending_deviation_score |->
             IF m.m2 > 0 THEN <<(t.amount * m.scale) - m.mean, m.m2, m.n>> ELSE <<0, 1, 1>>,
           velocity_score |-> Cardinality({i \in DOMAIN s : InWindow(s[i])}),
           geo_anomaly_score |-> <<Cardinality({i \in DOMAIN s : Elsewhere(s[i])}), Len(s)>>]

\* The numbers among the features, by the names of their columns.
Numeric(t, st) == [
  amount                      |-> t.amount,
  time_since_last_transaction |-> st.time_since_last_transaction,
  spending_deviation_score    |-> st.spending_deviation_score,
  velocity_score              |-> st.velocity_score,
  geo_anomaly_score           |-> st.geo_anomaly_score,
  hour_of_day                 |-> HourOfDay(ParseTimestamp(t.timestamp)),
  day_of_week                 |-> DayOfWeek(ParseTimestamp(t.timestamp))]

\* The columns of a file: the numbers, and the values of the categories.
ColumnNames ==
  (Category \X (STRING \ {NoText})) \cup
  ((DOMAIN NoStats \cup {"amount", "hour_of_day", "day_of_week"}) \X {NoText})

ASSUME ColumnsAssumption == \A c \in Columns : c \in Seq(ColumnNames)

-----------------------------------------------------------------------------
(* The requests, one after the other                                       *)

Init ==
  /\ rows = {}
  /\ phase = "polling"
  /\ tx = NoTransaction
  /\ answered = TRUE
  /\ history = <<>>
  /\ stats = NoStats
  /\ columns = <<>> /\ vector = <<>>

SaveSucceeds(t) ==
  /\ phase = "polling"
  /\ phase' = "saved"
  /\ tx' = t
  /\ rows' = Insert(rows, t)
  /\ UNCHANGED <<answered, history, stats, model>>

\* A failure is logged and forgotten.
SaveFails(t) ==
  /\ phase = "polling"
  /\ phase' = "saved"
  /\ tx' = t
  /\ UNCHANGED <<rows, answered, history, stats, model>>

\* PredictFraudProbability up to the call of the model, after GetAccountHistory
\* returned newest.
Predict(newest) ==
  /\ phase = "saved"
  /\ phase' = "computed"
  /\ LET past == Earlier(newest, ParseTimestamp(tx.timestamp)) IN
     history' = past /\ stats' = ComputeAccountStats(past, tx)
  /\ columns' \in Columns
  /\ vector' = CreateFeatureVector(columns', Forwarded(tx.categories), Numeric(tx, stats'))
  /\ UNCHANGED <<rows, tx>>

Compute ==
  /\ phase = "saved" /\ answered' = TRUE
  /\ \E newest \in Newest(tx.account) : Predict(newest)

\* A failed query is an empty history.
ComputeWithoutAnswer == answered' = FALSE /\ Predict(<<>>)

\* The result is sent; a rule of another kind has no statistics.
Finish ==
  /\ phase \in {"saved", "computed"}
  /\ phase' = "polling"
  /\ tx' = NoTransaction
  /\ answered' = TRUE
  /\ history' = <<>>
  /\ stats' = NoStats
  /\ columns' = <<>> /\ vector' = <<>>
  /\ UNCHANGED rows

Next ==
  \/ \E t \in Posted : SaveSucceeds(t) \/ SaveFails(t)
  \/ Compute
  \/ ComputeWithoutAnswer
  \/ Finish

Spec == Init /\ [][Next]_vars

-----------------------------------------------------------------------------
(* Properties                                                              *)

Row == [posted : Posted, times_tamp : Nat]

\* Every variable keeps its type, and the table has one row per transaction id.
TypeOK ==
  /\ rows \subseteq Row
  /\ \A q, r \in rows : q.posted.id = r.posted.id => q = r
  /\ phase \in {"polling", "saved", "computed"}
  /\ tx \in Posted \cup {NoTransaction} /\ (tx = NoTransaction <=> phase = "polling")
  /\ answered \in BOOLEAN
  /\ ToSet(history) \subseteq rows
  /\ DOMAIN stats = DOMAIN NoStats
  /\ DOMAIN vector = DOMAIN columns

\* The rows a query with the limit may choose: none left out is newer.
NewestSets(account) ==
  LET mine == RowsOf(account) IN
  {s \in kSubset(Min({Limit, Cardinality(mine)}), mine) :
     \A r \in s, q \in mine \ s : r.times_tamp >= q.times_tamp}

\* The statistics of transaction t after the rows past, by their definitions:
\* the distance to the latest row, the deviation from the mean over the root of
\* the variance (from the sum and the sum of squares: a fraction n / n is left
\* out of both), the rows of the last day, the share of other places.
AreStatsOf(st, past, t) ==
  LET now == ParseTimestamp(t.timestamp)
      n == Cardinality(past)
      sum == SumFunction([r \in past |-> r.posted.amount])
      squares == SumFunction([r \in past |-> r.posted.amount * r.posted.amount])
      deviation == (n * t.amount) - sum
      variance == (n * squares) - (sum * sum)
      score == st.spending_deviation_score
  IN IF past = {} THEN st = NoStats
     ELSE /\ \E r \in past : /\ st.time_since_last_transaction = now - r.times_tamp
                             /\ \A q \in past : q.times_tamp <= r.times_tamp
          /\ IF variance = 0 THEN score = <<0, 1, 1>>
             ELSE /\ score[2] > 0 /\ score[3] > 0
                  /\ score[1] * deviation >= 0
                  /\ score[1] * score[1] * score[3] * variance = deviation * deviation * score[2]
          /\ st.velocity_score = Cardinality({r \in past : now - r.times_tamp <= Day})
          /\ st.geo_anomaly_score =
               <<Cardinality({r \in past : r.posted.categories.location # t.categories.location}), n>>

\* Whatever order the rows came in, the statistics are those of rows that were
\* among the newest of the account, less those not stored as earlier than the
\* transaction (GetAccountHistory, ComputeAccountStats).
StatsOfNewestRows ==
  phase = "computed" /\ answered =>
    \E newest \in NewestSets(tx.account) :
      AreStatsOf(stats, {r \in newest : r.times_tamp < ParseTimestamp(tx.timestamp)}, tx)

\* The history of a transaction is from before it.
HistoryIsEarlier ==
  phase = "computed" =>
    \A r \in ToSet(history) : Instant(r.posted.timestamp) < Instant(tx.timestamp)

\* Where an account's times are numbers of seconds, it is; the row the request
\* itself saved a moment ago is not in it, and an outage or a second request
\* with the same id does not change that.
PlainHistoryIsEarlier ==
  phase = "computed" =>
    ((\A t \in {r.posted : r \in RowsOf(tx.account)} \cup {tx} :
        t.timestamp.format = "epoch") => HistoryIsEarlier)

\* Column number i is the one a value of its name goes to.
IsLast(i) == \A j \in DOMAIN columns : j > i => columns[j] # columns[i]

\* A model sees the transaction the client posted: the column named after each
\* category as it was posted is 1, the one for no value if there is none, every
\* other is 0; the hour and the day, counted from Monday, give the time back, and
\* each number is in the column of its name.  The names come from the gateway,
\* the message, the detector and the file, and nothing compares them.
FeaturesOfThePost ==
  phase = "computed" =>
    LET time == ParseTimestamp(tx.timestamp)
        Has(g, v) == <<g, v>> \in ToSet(columns)
        Means(g, v) ==
          IF v = "nan" THEN tx.categories[g] \in {NoText, "nan"} \/ ~ Has(g, tx.categories[g])
          ELSE tx.categories[g] = v
    IN
    \A i \in DOMAIN columns :
      LET g == columns[i][1]
          v == columns[i][2] IN
      CASE ~ IsLast(i) -> vector[i] = 0
        [] IsLast(i) /\ g \in Category -> vector[i] = (IF Means(g, v) THEN 1 ELSE 0)
        [] IsLast(i) /\ g \in DOMAIN stats -> vector[i] = stats[g]
        [] IsLast(i) /\ g = "amount" -> vector[i] = tx.amount
        [] IsLast(i) /\ g = "hour_of_day" ->
             \E midnight \in 0..time :
               midnight % Day = 0 /\ time - midnight \in (vector[i] * Hour)..((vector[i] + 1) * Hour - 1)
        [] IsLast(i) /\ g = "day_of_week" ->
             \* 1969-12-29 was a Monday.
             (time \div Day + 3) % 7 = vector[i]

=============================================================================
