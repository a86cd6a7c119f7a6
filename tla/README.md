# finrad++ — TLA+ models and proofs

finrad++ decides, transaction by transaction, whether a payment looks
fraudulent. An operator composes *profiles* of *rules* in the admin panel and
pushes them to the director; a client posts a transaction to the gateway; the
director puts one request per rule on a Kafka topic; the rules service
evaluates each request and puts one result on another topic, from where it
reaches a table, the panel and the alerts.

This directory holds the models of that system, the TLC configurations that
check them on small instances, and proofs, checked by TLAPS, of what matters
most for every instance.

## 1. Inventory

| Component (source) | State it keeps | Operations | Talks to |
|---|---|---|---|
| **Director** (`director_service/.../director_producer`, `profile_receiver`, `transaction_receiver`) | the set of profiles `_profiles`, the mutex `_u_mx`, one detached task per call with its copy of the set | `ProcessProfileStream`, `ProcessTransaction`, the task | gRPC in, Kafka `Request` out |
| **RuleRequestProducer** (same directory) | a counter per profile in dispatch | `operator()` | `Producer::Send` |
| **RuleProcessor** (`rules_service/.../rule_processor`, `rule_factory`, `rule_utils/kafka_result_producer`) | offsets, the batch in work, the pointers to history and detector | the consumer callback, `ProcessMessage`, `SendResult` | Kafka in and out, Postgres, XGBoost |
| **MLFraudDetector** (`rules_service/.../ml_model`, `ml_rule`) | one booster and one list of features for all models | `LoadModelByUuid`, `PredictFraudProbability` | files, XGBoost |
| **TransactionHistoryService** (`.../transaction_history`, `ml_model/redis_history_provider.cpp`) | the table `transactions` | `SaveTransaction`, `GetAccountHistory`, `ExecuteAggregateQuery` | Postgres |
| **Rules** (`threshold_rule`, `composite_rule`, `pattern_rule`, `rule_utils/expression_evaluator.hpp`) | none | `IsFraudTransaction` | history, for aggregates |
| **Expression language** (`AdminPanel/myapp/expression_parser.py`) | none | `Lexer.tokenize`, `Parser`, `RuleParser.parse` | the forms of the panel |
| **Push** (`AdminPanel/myapp/grpc_client.py`, `admin.py`) | the tables of the panel | `send_profiles_to_director` | gRPC to the director, timeout 30 s |
| **Gateway** (`ApiGateWay/main.py`) | none | `POST /transaction/` | gRPC to the director, 503 on any error |
| **Result storage and alerts** (`shared_data_model/src/migrations`, `grafana`, `webhook_service`) | the table `rule_results` | inserts by Kafka Connect (not in the repository), one alert query | |

What is hard in it:

* **concurrency**: the handlers of both gRPC services and the detached tasks
  interleave; one mutex protects the set, the tasks run without it;
* **failure**: `Send` fails in a way that may or may not have delivered, in the
  middle of a profile; Postgres and the loading of models fail and the failure
  is swallowed; processes die with everything in memory;
* **ordering**: pushes overlap, late deliveries land between requests of other
  calls, a commit of offsets runs ahead of the processing;
* **state that outlives a message**: the detector keeps the model of the rule
  before; the row of a transaction is there from the rule before.

What makes each component correct is stated in the sections below and, at the
line where it can go wrong, under `hazards` in `PROJECT.json`.

## 2. Modules

| Module | What it is |
|---|---|
| `FanOut` | abstract specification of the director: one current version of the set, calls bound to it at an instant, requests in order |
| `Director` | the director as it is: streams, mutex, the move and the copy of the set in steps, tasks, `Send` and its failures, restarts |
| `MCDirector` | instances of `Director` for TLC |
| `DirectorProofs` | types, mutual exclusion, `SnapshotInForce`, `ProfilesOfOnePush`; order and completeness of what is on the topic; `Director` implements `FanOut` |
| `RuleAnswers` | abstract specification of the rules service: requests done with one by one, in order, each answered or lost; what was said may land late, never, or once more |
| `RulesService` | the consumer, `ProcessMessage` branch by branch, history, detector, commits, results that land late, rebalances, restarts |
| `MCRulesService` | instances of `RulesService` for TLC |
| `RulesServiceProofs` | types and the safety of verdicts, order and completeness of the results; `RulesService` implements `RuleAnswers` |
| `FraudPipeline` | composes the gateway with `FanOut` and `RuleAnswers`: from a post to the results of its rules |
| `MCFraudPipeline` | instances of `FraudPipeline` for TLC |
| `FraudPipelineProofs` | types, where a result comes from, what is read is judged, one result per rule |
| `ProfilePush` | the push from the panel's tables, while they are edited, to what the director works with |
| `MCProfilePush` | instances of `ProfilePush` for TLC |
| `ProfilePushProofs` | types, what a success means: complete, counted rightly, in force |
| `FeatureVector` | the columns a model is fed with, from the texts a client posts |
| `TransactionHistory` | the table of transactions, the history of an account, `ComputeAccountStats`, and the feature vector made of them |
| `TransactionHistoryProofs` | types, `PlainHistoryIsEarlier`, `StatsOfNewestRows`, `FeaturesOfThePost`, with the loops they rest on |
| `MCTransactionHistory` | instances of `TransactionHistory` for TLC |
| `Induction` | induction and loops, as lemmas that the two proofs about data use |
| `ExpressionTree` | the nodes of an expression, as the panel stores them and rules_service receives them |
| `ExpressionParser` | kinds of tokens, the checks and the recursive descent of the panel's parser |
| `RuleEvaluation` | `IsFraudTransaction` of the threshold, composite and pattern rules, with exceptions |
| `LanguageOfRules` | the language by which both are judged, without a parser: where a text is cut, which texts are well formed, what they mean |
| `RuleLanguage` | composes the three: a text is written, accepted, stored, pushed, evaluated |
| `MCRuleLanguage` | instances of `RuleLanguage` for TLC |
| `LanguageOfRulesProofs` | facts about the language: how parentheses add up, where a part is cut, what it means by its pieces |
| `RuleLanguageProofs` | `AcceptsTheLanguage`, `VerdictByPrecedence`, with the soundness and the completeness of the parser |

### Director

A push `u` goes `idle → reading → locking → releasing → adopting → answered`:
`OpenStream`, one `ReadProfile` per message, `EndOfStream` (which is enabled
anywhere in the stream, for `reader.Read` answers `false` to a finished, a
broken and a cancelled stream alike), `LockForUpdate`, and the move assignment
of the `unordered_set` as two steps, `ReleaseOld` and `AdoptReceived`. The local
container is a set under the equality of `director.hpp`, that is, by uuid:
`Insert` keeps the profile that came first.

A call `c` goes `idle → locking → copying → running → finished`:
`ReceiveTransaction`, `LockForCopy`, one `CopyProfile` per node, `SpawnTask`
(the task is detached, the lock goes, the call is answered). Then the task:
`NextProfile` in any order (a hash table), `SendSucceeds` or one of the two
failures per rule, `EndProfile`, `FinishTask`. A failure ends the profile it
hit, logs it and lets the task go on with the next, which is what
`RuleRequestProducer::operator()` and the loop around it do together.

The topic is a sequence: `docker-compose.yml` gives it one partition, so the
key `transaction_id + profile.uuid` decides nothing. A request whose `Send` timed
out, or whose process died while it was in flight, waits in `limbo` and may land
at any later time. `enable_idempotence: true` is why a `Send` that succeeds puts
its request there once.

`Restart` keeps nothing: no profile, no handler, no task. `installs` (the
versions of the set so far) and `began` are history variables; no guard reads
them. Each request carries, besides the message, the call and the profile it
was made for; no guard reads those either.

### RulesService

One thread. `phase` says where `ProcessMessage` is: `polling` (between messages,
or before the parse of the first one of the batch), `saving`, `evaluating`,
`predicting`, `sending`. `Poll` hands the next messages over; `AutoCommit`
(`enable.auto.commit: true`) commits what was handed over, done or not;
`ParseFails`/`ParseSucceeds`, `SaveSucceeds`/`SaveFails`, then the ML branch
(`LoadModelFails`, `LoadModelSucceeds`, `Predict`) or the factory branch
(`ApplyRule`), then `SendResult`, `SendResultTwice` or `SendResultFails`. `Restart`
goes back to the committed offset, and Postgres may or may not answer the
constructor's ping, in which case the service runs without history
(`with_history = FALSE`). `Rebalance` takes the consumer back to that offset between
two batches, with the process, its detector and its history as they are. `runs`
counts both.

`model` is the part of `MLFraudDetector` that survives from one message to the
next: whose features and whose booster are loaded. `LoadModelFails` follows
`LoadModelByUuid`: both are dropped first, and the features stay if they were
read before the booster was missing or refused. `Disk` says which files exist.

What a rule answers is a choice between fraud, clean and an exception, except
where the code forces `ERROR`. The evaluation itself is the subject of
`RuleEvaluation`, the statistics a model is given that of `TransactionHistory`.

The producer of the results has no `enable_idempotence` (the director's has), and a
`delivery_timeout` of 5 s after which `Send` throws, whatever the broker has done or
will do with the message. So what an attempt to send may still put on the topic
waits in `limbo`, from where it lands at any later time, behind the results of later
requests too, or never (`LateDelivery`): the result whose `Send` threw
(`SendResultFails`), the first sending of one that was acknowledged only when it was
sent again (`SendResultTwice`), the result in flight when the process dies
(`Restart`). What was sent several times may land several times. The second landing
counts as one more failure, the first as none.

Batches, commits, rows, models and failures add up to `RuleAnswers`: `Cursor`, the
offset before the batch's first one, moves by one when a result is sent or given
up, an offset is `lost` when it was logged as not sent or passed over, only a
restart or a rebalance moves the cursor otherwise, and `limbo` is `late`: an answer
lands late only if it was given for its request. What that is worth to a reader of
the topic is `AnswersInOrder`: results that stand in the wrong order are copies of an
earlier one, or their `Send` had thrown, or a restart or rebalance lies between.

A result carries, besides the message, the offset it answers, the model, whether
there was history, and the run of the consumer it was made in; `unsaved`,
`unsent`, `passed` are history variables.

### FraudPipeline

The director and the rules service appear as what they were shown to promise:
`FanOut` and `RuleAnswers` are instantiated on one set of variables, and they meet
in the topic, which is `emitted` to the one and `requests` to the other. `Dispatch`
is a step of both (`Director!Emit /\ Rules!Ask`). The gateway is new: `Post`
validates and answers 422 or calls the director; `Accept` needs the director's
answer; `Unavailable` (503) needs nothing, for any `AioRpcError` becomes 503,
whether the director took the call or not. `Take` may therefore come after the
503. A client that posts again makes another call. `Fault` counts the deaths and
failures of both services together; `repeats` counts what may add a second
result: deaths and rebalances of the rules service, results its producer sends
twice (`Process`), and results that land a second time (`ResultLands`). `late` is the
set of what `RuleAnswers` lets land yet; as its members are only an offset and a
status, what two runs of the consumer sent and what says the same is one member of
it, which lands once, or again at the cost of a repetition.

### ProfilePush

The panel reads Postgres statement by statement, outside a transaction, in the
thread that feeds the stream, so operators edit between any two of its steps:
`FetchProfiles` (the first step of the `for` fills the queryset's cache),
`FetchRules` (`profile.rules.all()`), `ConvertRule` (`config.rule` is a query of its
own, and a generic reference that dangles is `None`, which makes a rule without
a body), `SendProfile`, `EndIteration`. A rule that does not parse ends the push, a
`Fail` can come at any point. On the other side `OpenStream` and `Install`: the
director cannot tell a finished stream from one that broke, and a stream may open
or end after the panel has given it up. The installation is one step, which
`Director!Implements` justifies. `before` and `alone` are history variables; the
second says that no other stream was or became open and the director did not die
since the push began.

The operators' edits are the panel's pages on the five tables: saving an
expression anew, deleting what a rule refers to, adding and deleting a rule,
deleting a profile with its rules.

### FeatureVector and TransactionHistory

A category of a transaction goes through four vocabularies: what the client
posts, the enumerations of the gateway (whose *names*, in capitals, are those of
the message), the detector's switches, and the names of the columns in a model's
file. `Forwarded`, `Suffix` and `CategoricalIndex` are those steps; a column is a pair
of group and value. The file of columns may name one twice: `FeatureIndex` is then
the later.

One request after the other: `SaveSucceeds` or `SaveFails`, then, for an ML rule,
`Compute` or `ComputeWithoutAnswer`, then `Finish`. A timestamp is what its text
shows (`wall`), in which format, and at which offset; the three readers are
operators: `Stoll` (the insert), `ParseTimestamp` (the statistics) and the column
(the filter). `Newest` is the set of answers `ORDER BY ... LIMIT` allows, for rows
of one time may come in any order. `ComputeAccountStats` is the code's loop over the
answer, with one recursive function for each of the values it carries along
(`MomentsOf`, `LastOf`); `AreStatsOf` says the same by sums and cardinalities.
Logarithms are left out (amounts stand for `log1p` of amounts) and nothing is
rounded: `Moments` keeps the mean and `m2` as numerators over `scale`, which grows
with each division of the code, and the score is a triple, whose root is not
drawn but compared by its square.

### Rules as text

`RuleLanguage` follows one rule. `phase` goes `typing → stored → pushed →
evaluated`, or to `rejected` (the form says no) or `refused` (`ParseDict` raises
and ends the push). `Write` adds a piece to the text, `Submit` is
`ExpressionModelForm.clean` and `save`, `Push` the conversion of the rule in
`profile_iterator`, `Evaluate` what `RuleProcessor` does with it on some
transaction, for some answers of Postgres.

A token is its text; `Kind` is the lexer's table and its order. A method of the
parser is an operator from a position to a node and a position, or `Failed`. The
methods call each other, but, other than those further down, only at positions
they have not reached yet; so `Parser` has a row of the results of all five for
each position, made from the last one backwards, and where the code calls a
method at a later position the operator looks it up (`later[pos + 1].expression`).
The `while` loops are `Rounds`: what there is after `n` rounds; a round takes two
tokens, so that `Len(ts)` rounds are enough (`ChainIs`).

The tree the methods build is the JSON of the database, and, where the schema has
all of it, the message. `ParseDict` counts the messages one in the other and
raises at 100, two for a node: a tree with more than `MaxDepth` nodes above one of
its nodes is refused. Up to that depth `EvaluateExpression` is computed from the
leaves up, generation by generation: `IsFraudTransaction` gives `true`, `false` or
`exception`.

What both are compared with (`LanguageOfRules`) shares no code with them:
`InLanguage` and `Meaning` cut the text at the last outermost `OR`, then `AND`, then at `NOT` and the
comparison, by counting parentheses. `Meaning` gives the set of truth values the
text can have; a comparison that cannot be made contributes both values to the
verdict (it must not matter) and none to the exception (it must).

## 3. Runs

All instances are exhaustive. Deadlock is checked in every run: `Quiescent` and
`Drained` are the only steps of a system that is done (`Director`, `RulesService`,
`FraudPipeline`, `ProfilePush`); the other two never are.

| Run | Properties | Bounds and why they are enough |
|---|---|---|
| `director_calls` | `TypeOK`, `RequestsInOrder`, `NothingMissingUnlogged`, `LockersServed`, `DispatchEnds` | `FairSpec`; 1 push of 2 profiles (2 rules, 1 rule), 2 calls with one transaction id, 1 failure, 1 restart: three contenders for the mutex; a failure of either kind in the middle of a profile, landing late, with the restart anywhere. Several failures are left to the proofs |
| `director_pushes` | `SnapshotInForce`, `ProfilesOfOnePush`, `RequestsFromSnapshot`, `Implements` | 2 pushes that overlap (an edited profile, a repeated uuid, a profile with no rules), 2 calls, 1 restart: a call can meet either half of either move; failures are left to the run above |
| `director_uuid` | `RequestsCarryProfileUuid` | **violated**, see 6 |
| `rules_service` | `TypeOK`, `VerdictFromOwnRule`, `VerdictFromOwnModel`, `VerdictAfterSave`, `NothingVanishes`, `AnswersInOrder`, `FirstRowStays`, `EveryRequestServed`, `Implements` | `FairSpec`; 2 messages out of 6 (a critical rule, a rule_type that disagrees with the oneof, three models of which one lacks its booster, one id with two contents, a message that does not parse), batches of up to 2, 1 failure or repeated result, 1 restart or rebalance: two models one after the other, a result that lands behind the next one, a message consumed again or passed over. More failures, restarts and messages are left to the proofs |
| `rules_critical` | `CriticalStopsProfile` | **violated**, see 6 |
| `pipeline` | `TypeOK`, `ResultsTraceable`, `OneResultPerRule`, `ReadMeansJudged`, `AcceptedIsJudged` | `FairSpec`; 3 posts, one of them invalid, 2 pushes of a profile and its edited form (1 rule that cannot be applied, 1 that can), 2 faults of any kind: a post bound before, between and after the pushes, a retry that overlaps the first try, two faults that meet, such as a failed `Send` whose result lands after a death, or twice. Profiles of several rules and more faults are left to the proofs, and profiles of several rules to `director_calls` |
| `panel_push` | `TypeOK`, `SuccessIsComplete`, `ReportedIsSent`, `LastSuccessStands`, `EveryPushEnds` | `FairSpec`; 2 pushes (of two profiles, of one of them) that may overlap, 2 rules of which one may be added, 1 edit of any kind, 1 death of the director: an edit between any two statements, a stream that outlives its push, an empty profile |
| `history` | `TypeOK`, `StatsOfNewestRows`, `PlainHistoryIsEarlier`, `FeaturesOfThePost` | 8 transactions (6 ids, 2 accounts) any number of times; no bound on the behaviour. `Limit` 3 of 5 rows, so that the limit bites; `Day` 4, with rows at both edges; ties; a second content for two ids; amounts from 0 to 5, whose means are fractions. Columns: two files, among them one without a column for a value that occurs, and one that names a column twice |
| `history_time` | `HistoryIsEarlier` | **violated**, see 6 |
| `language_rules` | `AcceptsTheLanguage`, `VerdictByPrecedence` | all texts of up to 6 pieces: composite rules from conditions (one true or false by transaction, one that throws, each three tokens), operators and parentheses, up to `(A OR B) AND C`; thresholds and patterns from 6 and 7 tokens, up to `COUNT(AMOUNT) > 5`; `MaxDepth` 6, which no text of 6 pieces exceeds; 2 transactions, 3 answers |
| `language_example`, `language_pattern` | `AcceptedIsPushed`, `PatternSeesHistory` | **violated**, see 6 |

Symmetry is not used: some runs check temporal properties, and the others are
small enough.

**Fairness.** `Director!FairSpec`: weak fairness of each handler from the moment
it waits for the lock, of each call's copy, of each task. The userver scheduler
runs every ready coroutine, its mutex wakes a waiter when it is let go, and
`Producer::Send` returns within `delivery_timeout`. There is no fairness on the
client of a stream, nor on a call's arrival. Weak fairness of a *lock* step is
weaker than the mutex's queue of waiters gives; it is enough here because every
holder comes once and the instance is finite. `RulesService!FairSpec`: weak
fairness of the one thread; no fairness on commits or restarts.
Late results need none: a `Send` that threw counts as an answer lost.
`EveryRequestServed` and `AcceptedIsJudged` have the form `<>[]` of a statement about
all requests, or posts, there are: there are finitely many, and one that is served
remains served, so it says of each that it is served in the end.
`FraudPipeline!FairSpec` assumes of the two services what these two runs show:
each profile of a call that was taken is dispatched completely or given up
(`DispatchEnds`), and the rules service goes on (`EveryRequestServed`); nothing of
gateway, clients or pushes. `ProfilePush!FairSpec`: the deadline of the call passes
(`Fail`, which is what `timeout=30` promises and the only thing that always ends a
push), and a handler whose stream is over installs.

**Mutants.** Before a definition there may be a variant marked `MUTANT`: the same
definition with a plausible bug (a dropped lock, a live reference for a copy, a
retry, a swapped order, an upsert). `PROJECT.json` pairs each property with the
mutant that breaks it; a property no mutant broke was dropped.

## 4. Proofs

The theorems are about `Spec` with any number of pushes, calls, profiles, rules,
messages, models, tables, edits, transactions and files of columns, any feed, any
bound, and with failures and restarts.
Assumptions are those the modules name: `Director!ProfileAssumption`
(profiles are records; the value `NoProfile` is none of them nor a set of them),
`ClientAssumption`, `HolderAssumption` (handlers are distinct from each other
and from `Free`), `BoundAssumption`; `RulesService!RequestAssumption`,
`DiskAssumption`, `EmptyUuidAssumption` and its `BoundAssumption`;
`FraudPipeline!PipelineAssumption` (bodies have an amount, rules of a profile are a
sequence); `ProfilePush!PushAssumption` (each rule belongs to one profile);
`FeatureVector!ClockAssumption` (a day is a number of hours);
`TransactionHistory!PostedAssumption` (what the gateway lets through: categories in
its enumerations, amounts not negative; and a time is more than a day past the
year's number of seconds, 34 minutes into 1970), `LimitAssumption`,
`NoTransactionAssumption` and `ColumnsAssumption` (the lines of a file of columns are
the seven numbers and pairs of a category and a value, as in
`stage2_xgb_final_columns.txt`; which, how many and how often is left open);
`ExpressionParser!TokenAssumption` (numerals and quoted texts are no words of the
language: the lexer tells them by their first letter), `NumberAssumption` and
`TextAssumption`; `ExpressionTree!DepthAssumption` (`MaxDepth` is a natural number);
`RuleLanguage!PieceAssumption` (what is typed is sequences of strings, in one of the
three forms), `LimitAssumption` and `TransactionAssumption` (amounts and enumerations
are integers).

**Versions** (`DirectorProofs`). `SnapshotInForce` is not inductive: it says
nothing of a copy in progress. `VersionInv` adds that the handler named by the
mutex is exactly the one between lock and unlock (`LockInv`), that `profiles` is
the last version except between the two halves of a move, that a copy in
progress is a part of the last version, and that `began` is not in the future.
`ProfilesOfOnePush` needs `StreamInv`: a handler has received the first version of
each uuid it has read, and each uuid read is among them (without which an insert
could not be told from a repetition).
`TypeCorrect` comes first, by itself. Since no two handlers are inside, a copy that
ends has all of the last version, and no move is half done.

**Dispatch** (`DirectorProofs`). `DispatchInv` says, for each request of
each call, where it can be: sent requests of the profile in dispatch are exactly
those below the counter; what is still to do has nothing on the topic or in
limbo; a request in limbo is the only one missing after those on the topic. The
three properties of the topic follow from it.

**Refinement** (`DirectorProofs`). `profiles` maps to the version in
force, except while an update is half done: then the current version is the one
being adopted (the effect is at `ReleaseOld`, as nobody else can look). A call is
bound at the step that spawns its task, the topic maps element by element.
`DirectorImplementsFanOut` uses `VersionInv` and `DispatchInv`.

**Rules service** (`RulesServiceProofs`). `TypeOK` first. `VerdictInv` ties the
detector and the status in work to the message in work: in `predicting` the
detector holds that message's model, in `sending` a status that is no error came
from it. With it `VerdictFromOwnModel` and `VerdictFromOwnRule` hold of every
result made, landed or in `limbo`. `ProgressInv` says that the batch is the
consecutive offsets that end at `position`, that the results of the present run, in
`limbo` or landed, are below it and one per offset, and that what is in `limbo` is on
the topic already or is of a `Send` that threw, except what was in flight when the
process died, whose run is over. So a result of this run that lands late is of an
earlier offset, and a new one of a later, which gives `AnswersInOrder`; with it goes
`NothingVanishes`. `SaveInv` says
of the message in work, when the service has history, that its transaction is
in the table unless its save failed; as rows are only ever added (`ON CONFLICT DO NOTHING`, `FirstRowStays`,
an action property, proved from the type invariant), it gives
`VerdictAfterSave` for every result on the topic.

**Rules service, refinement** (`RulesServiceProofs`). With `ProgressInv`
the batch's first offset is `Cursor + 1`; with `VerdictInv` the status sent is one
`RuleAnswers` allows for the message. So `SendResult` and `SendResultTwice` are
`Answer`, `SendResultFails` is `Lose`, `LateDelivery` is `Land`, `Restart` and
`Rebalance` are `Reseek`, `Publish` is `Ask`, and all else leaves the mapped variables
alone. That a rebalance is a `Reseek` needs `NothingVanishes`: with an empty batch all
up to the committed offset is answered or lost already.

**Pipeline** (`FraudPipelineProofs`). `TraceInv` strengthens `ResultsTraceable`: only
valid posts are ever forwarded, only forwarded ones are bound, every request on
the topic is of a bound post and a profile of its version, and a verdict is on
a request that can be judged. `ReadInv` says that every offset up to the cursor is
answered or lost; a death of the rules service keeps it because what it jumps
over becomes lost. `CountInv` is behind `OneResultPerRule`: no request is on the topic
twice, and an offset has at the most one answer per repetition, plus one if it is
behind the cursor, those that may still land counted with those that have. It
follows that a result that lands late adds nothing: it was counted when it was given.
These theorems are about `FanOut` and `RuleAnswers` as composed here; that the two
services implement them is the refinements above, each proved for its service by
itself.

**Push** (`ProfilePushProofs`). `PushInv`: the profiles loaded are, at each step, those to
come, the one in work and those sent, and no uuid is sent twice; so the count of
the cache is the count of the messages (`ReportedIsSent`). `Solo`: if a push is
`alone`, no other stream may still install, and a handler that has answered has
installed the whole stream; this is `LastSuccessStands` for answers the panel may
not have seen yet. `CompleteInv`: since a push began profiles and rules only went, or
came and went, and expressions only got newer; each rule of the profile in work
that stays is to do or converted, and each message sent has all of its own.

**History** (`TransactionHistoryProofs`). `Inv` adds to the types what no property says
and all need: each row's time is the one `Stoll` read (`Stored`); the history in work is
a sequence without repetition of rows of the account, all stored as earlier, whose
set is what one of `NewestSets` leaves after the filter, and the statistics are
computed from it (`Selected`); the vector is made of them (`Fed`). It is inductive
because nothing touches the table between the query and the result. That the
answer of the query is among `NewestSets` is `NewestAreNewest`, that the filter
filters `FilteredIsFiltered`.

What the loops then compute is an induction over the rows. The library's theorems on
induction take an operator as parameter, which the provers cannot instantiate; here
(`Induction`) induction is `AllNaturals`, about the members of a *set* of numbers, from the
well-foundedness of `<`. `LoopExists` makes a recursive function usable: the function
its definition chooses exists. With them, `LastIsLatest` (the latest time),
`MomentsOfAll` (after `k` rows with sums `s1` of amounts and `s2` of squares,
`k * mean = s1` and `k * m2 = k * s2 - s1 * s1`, up to `scale`: the step is
`MomentsStep`, an identity of polynomials) and `SumInOrder` (a sum over a set is the sum
along any sequence of its elements, so the order of rows of one time does not matter).
`ScoreOfMoments` compares the score with deviation and variance, and
`StatsFromNewest` puts them together. `VectorFromThePost` needs no induction: `OneHot`
follows a value through the four vocabularies, `SameTexts` being the step that
compares the gateway's with the detector's, and the lemmas about the clock give the
time back from quotient and rest.

**Language** (`LanguageOfRulesProofs`, `RuleLanguageProofs`). The inductive invariant,
`RuleOfText`, is small: the rule stored is the tree the parser made of the text that
still stands in the form, a rule pushed is one `ParseDict` converts, the verdict is
that of the rule. What remains is about data, for texts of any length:

* *The table.* `ParserIs`: each row of `Parser` is what the methods return with the
  rows behind it, and a method that does not fail moves forward, without which
  neither the table nor the bound on the rounds would do.
* *Soundness* (`ParserSound`, from the last position backwards). A result from `i` that
  ends before `j + 1` is a `Fact` of the part from `i` to `j`: its parentheses
  balance, and outside of them it has no operator that binds less than the method
  (`AtomSpan` to `TermSpan`), so that the text is cut where the method has cut it
  (`CutAtOr`, `CutAtAnd`, `CutAtNot`, `CutAtComparison`, `NotCut`); it is well formed; the
  node tells what the part looks like (`Shape`); and its outcome is right
  (`IsRight`): an exception only where what throws leaves the text no truth value, and
  `true` or `false` only where the text has no other value, whatever a comparison
  that throws would say.
* *Chains.* A chain of one operator is one node, and its left operand may have been
  a chain in parentheses: `OneOperandMore` and `ChainOutcome` show that one operand more
  at the end of a node is the same as a node of two, and `RightOutcomes` that the
  short circuit is right.
* *Completeness* (`ParserComplete`, by the width of a part). What the methods do with a
  part that is well formed: an atom is taken by `parse_atom`, a part with no `OR` and
  no `AND` outside its parentheses by `parse_logical_factor`, and the loops come to the
  end of the part after some number of rounds, so that they go on behind it.
  `TokensComplete` is the same for the two sides of a pattern.
* *Outcomes.* `EvaluatedInContext`: for a tree that `ParseDict` converts the table of
  `EvaluateExpression` has every operand of every node it has.

`TextsAccepted` puts soundness and completeness together for the three forms,
`VerdictIsRight` the facts and the outcomes; the two theorems follow. That a threshold
is a comparison, which `IsFraudTransaction` asks for, is `ThresholdCompares`: a text with
a sign of comparison and no word of logic that the parser takes is nothing else.

**Only model-checked**: `LockersServed`, `DispatchEnds`, `EveryRequestServed`,
`AcceptedIsJudged`, `EveryPushEnds`: liveness under fairness, for which TLAPS has no
ENABLED.

## 5. Plan

In this order:

1. *(done)* `FanOut`, `Director` and its proofs; `RulesService` and its proofs.
2. *(done)* `ExpressionParser`, `RuleEvaluation`, `RuleLanguage` and its proofs.
3. *(done)* `TransactionHistory`, with `FeatureVector`, and its proofs.
4. *(done)* `ProfilePush` and its proofs.
5. *(done)* `RuleAnswers` and the refinement, `FraudPipeline` and its proofs.

What could come next: a finer model of the broker (several partitions), and the
proofs of liveness, once the prover has them.

## 6. Findings

* `director_uuid`: the producer writes the profile's name into `profile_uuid`
  and its uuid into `profile_name` (`rule_request_producer.cpp:39-40`). The
  column it ends up in is `UUID NOT NULL`.
* `rules_critical`: the README calls criticality a means to stop the processing of
  a profile; neither service stops anything.
* `history_time`: of the ISO text that the gateway sends only the year is stored,
  as seconds of 1970 (`transaction_history_service.cpp:29`); every transaction is
  part of its own history, and windows of time are empty.
* `language_example`: `TIME`, a field of the form's own example, is not in the
  schema, and ends the push; `COUNT(*)` and numbers above int32 do the same.
* `language_pattern`: the statement of a pattern rule with `max_count` is refused
  by Postgres, and a failed statement counts 0.

Also seen, without a run: `TRANSACTION_TYPE`, `DEVICE_USED` and `PAYMENT_CHANNEL`
are integers for the evaluators, so a rule that compares one with a name always
ends in `ERROR`. `CRITICAL` is sent as a status, which the enumeration of the table
of results does not have (`002_create_result.sql:1`). Quoted texts are upper-cased by
the lexer and compared case-sensitively. The matrix handed to XGBoost is made with
0 as the missing value, so every feature that is 0 counts as not known. A push
that failed half way still installs what came through, over the profiles that
were there; the panel reports the failure, and nothing puts them back.

## 7. Not modelled

Start-up and configuration of the services, the logging, the CSV export and the
static pages of the panel, `grafana`, `webhook_service` (it prints what it is
sent), mock servers, generated `*_pb2*.py`, the splitting of a text into tokens,
the precision of floats. Protobuf's wire format appears as
"parses" or "does not parse". The score of XGBoost is a choice; the
LightGBM stage, which a build may have, computes a score that is only logged. The order in which
userver destroys components at shutdown is not modelled: a process may die at
any step instead.
