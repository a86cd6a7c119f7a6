---------------------------- MODULE RulesService ----------------------------
(***************************************************************************)
(* rules_service: one consumer of the request topic that, message by       *)
(* message, records the transaction in Postgres, evaluates the rule and    *)
(* sends the result to the response topic.                                 *)
(*                                                                         *)
(* RuleProcessor's batch callback is sequential, so the steps below belong *)
(* to one thread; what comes in between is the broker (new requests, the   *)
(* automatic commit of offsets, a rebalance of the group, results that     *)
(* land late), failures of Postgres and of the producer, and the death of  *)
(* the process at any point.  What a rule says of a transaction is a       *)
(* choice between fraud, clean and an exception.                           *)
(***************************************************************************)
EXTENDS Integers, Sequences

CONSTANTS
  Request,      \* the well-formed requests, records (RequestAssumption)
  Garbage,      \* a message ParseFromString refuses
  Transaction,  \* transaction ids
  Content,      \* versions of the other fields of a transaction
  ModelUuid,    \* the model_uuid values of rules
  Disk,         \* Disk[u]: which files of model u are in model_configs
  NoRow,        \* no row with that transaction id
  NoModel,      \* nothing loaded
  MaxMessages,  \* bound on the requests published
  MaxBatch,     \* bound on the messages of one batch
  MaxFailures,  \* bound on the failures of Postgres and of the producer
  MaxRuns       \* bound on the restarts of the service and the rebalances

RuleType == {"THRESHOLD", "PATTERN", "ML", "COMPOSITE"}
Status == {"ERROR", "NOT_FRAUD", "FRAUD", "CRITICAL"}

\* rule_type and the rule in the oneof are two fields: they may disagree, and
\* the oneof may be empty.
ASSUME RequestAssumption ==
  /\ Request \subseteq
       [transaction : Transaction, content : Content, profile : STRING,
        number : Nat, rule_type : RuleType, body : RuleType \cup {"NONE"},
        model_uuid : ModelUuid, is_critical : BOOLEAN]
  /\ Garbage \notin Request
  /\ NoRow \notin Content
  /\ NoModel \notin ModelUuid

ASSUME DiskAssumption == Disk \in [ModelUuid -> SUBSET {"columns", "xgb"}]

\* Without an ml_rule in the oneof model_uuid is empty, and no file is called
\* after an empty uuid.
ASSUME EmptyUuidAssumption ==
  \A m \in Request :
    m.rule_type = "ML" /\ m.body # "ML" => Disk[m.model_uuid] = {}

ASSUME BoundAssumption ==
  /\ MaxMessages \in Nat /\ MaxBatch \in Nat
  /\ MaxFailures \in Nat /\ MaxRuns \in Nat

VARIABLES
  topic,        \* the request topic
  committed,    \* the committed offset of the consumer group
  position,     \* offsets up to position have been handed to the callback
  batch,        \* offsets of the batch that are not done, the current one first
  phase,        \* where ProcessMessage is
  status,       \* the status in the RuleResult being built
  with_history, \* history_service_ and history_provider_ are not null
  history,      \* the table transactions: history[t] is the row of id t
  model,        \* MLFraudDetector: features and booster, by model_uuid
  responses,    \* the response topic
  limbo,        \* results that an attempt to send may still put there
  failures,
  runs          \* times the consumer went back to the committed offset

\* History variables: offsets whose save failed, results whose Send threw,
\* offsets a restart passed over because they were already committed.
VARIABLES unsaved, unsent, passed

kafkaVars == <<topic, committed, position, batch>>
processVars == <<phase, status, with_history, model>>
resultVars == <<responses, limbo>>
ghostVars == <<unsaved, unsent, passed>>

vars == <<topic, committed, position, batch, phase, status, with_history,
          history, model, responses, limbo, failures, runs, unsaved, unsent,
          passed>>

-----------------------------------------------------------------------------

Offset == batch[1]
Message == topic[Offset]

Unloaded == [features |-> NoModel, xgb |-> NoModel]

\* A response, with the offset, the model and the run of the consumer it was
\* made in: those are not in the message.
Response(o, s) ==
  [offset |-> o, status |-> s, model |-> model, with_history |-> with_history,
   run |-> runs]

Result == Response(Offset, status)

Answered(o) == \E i \in DOMAIN responses : responses[i].offset = o

Unsent(o) == \E r \in unsent : r.offset = o

Init ==
  /\ topic = <<>>
  /\ committed = 0 /\ position = 0
  /\ batch = <<>>
  /\ phase = "polling"
  /\ status = "ERROR"
  /\ with_history \in BOOLEAN
  /\ history = [t \in Transaction |-> NoRow]
  /\ model = Unloaded
  /\ responses = <<>> /\ limbo = {}
  /\ failures = 0 /\ runs = 0
  /\ unsaved = {} /\ unsent = {} /\ passed = {}

-----------------------------------------------------------------------------
(* The broker                                                              *)

\* A producer puts a request, or something else, on the topic.
Publish ==
  /\ Len(topic) < MaxMessages
  /\ \E m \in Request \cup {Garbage} : topic' = Append(topic, m)
  /\ UNCHANGED <<committed, position, batch, processVars, history, resultVars,
                 failures, runs, ghostVars>>

\* MUTANT: the last message of the topic is not polled.
CanPollShort(n) == position + n < Len(topic)

CanPoll(n) == position + n <= Len(topic)

\* The callback gets the next batch.
Poll ==
  /\ phase = "polling" /\ batch = <<>>
  /\ \E n \in 1..MaxBatch :
       /\ CanPoll(n)
       /\ batch' = [i \in 1..n |-> position + i]
       /\ position' = position + n
  /\ UNCHANGED <<topic, committed, processVars, history, resultVars, failures,
                 runs, ghostVars>>

\* MUTANT: one more is committed.
CommitPointNext == position + 1

\* enable.auto.commit: what has been handed over is committed, done or not.
CommitPoint == position

AutoCommit ==
  /\ committed < position
  /\ committed' = CommitPoint
  /\ UNCHANGED <<topic, position, batch, processVars, history, resultVars,
                 failures, runs, ghostVars>>

-----------------------------------------------------------------------------
(* RuleProcessor::ProcessMessage                                           *)

\* ParseFromString fails: an error result with empty ids is sent.
ParseFails ==
  /\ phase = "polling" /\ batch # <<>>
  /\ Message = Garbage
  /\ status' = "ERROR"
  /\ phase' = "sending"
  /\ UNCHANGED <<kafkaVars, with_history, model, history, resultVars, failures,
                 runs, ghostVars>>

\* MUTANT: only the transactions of pattern rules are recorded.
AfterParseSparing ==
  IF with_history /\ Message.rule_type = "PATTERN" THEN "saving" ELSE "evaluating"

AfterParse == IF with_history THEN "saving" ELSE "evaluating"

ParseSucceeds ==
  /\ phase = "polling" /\ batch # <<>>
  /\ Message \in Request
  /\ phase' = AfterParse
  /\ UNCHANGED <<kafkaVars, status, with_history, model, history, resultVars,
                 failures, runs, ghostVars>>

\* MUTANT: ON CONFLICT DO UPDATE.
InsertedOver(row, content) == content

\* INSERT ... ON CONFLICT (transaction_id) DO NOTHING.
Inserted(row, content) == IF row = NoRow THEN content ELSE row

SaveSucceeds ==
  /\ phase = "saving"
  /\ history' = [history EXCEPT ![Message.transaction] =
                   Inserted(@, Message.content)]
  /\ phase' = "evaluating"
  /\ UNCHANGED <<kafkaVars, status, with_history, model, resultVars, failures,
                 runs, ghostVars>>

\* SaveTransaction catches every exception (stoll of the timestamp, Postgres)
\* and the rule is evaluated all the same.
SaveFails ==
  /\ phase = "saving"
  /\ failures < MaxFailures
  /\ failures' = failures + 1
  /\ unsaved' = unsaved \cup {Offset}
  /\ phase' = "evaluating"
  /\ UNCHANGED <<kafkaVars, status, with_history, model, history, resultVars,
                 runs, unsent, passed>>

\* The branch of rule_type ML; ml_detector_ is never null.
TakesMLBranch == phase = "evaluating" /\ Message.rule_type = "ML" /\ with_history

\* LoadModelByUuid returns false: features and booster are cleared first, and
\* the features stay if they were read before the booster was found missing
\* or refused by XGBoost.
LoadModelFails ==
  /\ TakesMLBranch
  /\ \/ Disk[Message.model_uuid] # {"columns", "xgb"}
     \/ failures < MaxFailures
  /\ failures' = IF Disk[Message.model_uuid] # {"columns", "xgb"}
                 THEN failures ELSE failures + 1
  /\ model' = [features |-> IF "columns" \in Disk[Message.model_uuid]
                            THEN Message.model_uuid ELSE NoModel,
               xgb |-> NoModel]
  /\ status' = "ERROR"
  /\ phase' = "sending"
  /\ UNCHANGED <<kafkaVars, with_history, history, resultVars, runs,
                 ghostVars>>

\* MUTANT: a booster that is loaded is not loaded again.
LoadedOnce ==
  IF model.xgb # NoModel THEN model
  ELSE [features |-> Message.model_uuid, xgb |-> Message.model_uuid]

Loaded == [features |-> Message.model_uuid, xgb |-> Message.model_uuid]

LoadModelSucceeds ==
  /\ TakesMLBranch
  /\ Disk[Message.model_uuid] = {"columns", "xgb"}
  /\ model' = Loaded
  /\ phase' = "predicting"
  /\ UNCHANGED <<kafkaVars, status, with_history, history, resultVars,
                 failures, runs, ghostVars>>

\* What the status is when the rule says fraud or clean.
StatusOf(is_fraud) ==
  IF ~ is_fraud THEN "NOT_FRAUD"
  ELSE IF Message.is_critical THEN "CRITICAL" ELSE "FRAUD"

\* PredictFraudProbability answers, or throws (no booster, XGBoost).
Predict ==
  /\ phase = "predicting"
  /\ status' \in {"ERROR"} \cup
       (IF model.xgb = NoModel THEN {} ELSE {StatusOf(TRUE), StatusOf(FALSE)})
  /\ phase' = "sending"
  /\ UNCHANGED <<kafkaVars, with_history, model, history, resultVars, failures,
                 runs, ghostVars>>

\* MUTANT: the factory does not look whether the oneof holds the rule; the
\* analyzers then answer false.
CreatesRuleUnchecked == Message.rule_type \in {"PATTERN", "ML"} => with_history

\* RuleFactory::CreateRuleByType makes a rule and does not throw.
CreatesRule ==
  /\ Message.body = Message.rule_type
  /\ Message.rule_type \in {"PATTERN", "ML"} => with_history

\* The other branch: the factory throws, or the rule does, or it answers.
ApplyRule ==
  /\ phase = "evaluating" /\ ~ TakesMLBranch
  /\ status' \in {"ERROR"} \cup
       (IF CreatesRule THEN {StatusOf(TRUE), StatusOf(FALSE)} ELSE {})
  /\ phase' = "sending"
  /\ UNCHANGED <<kafkaVars, with_history, model, history, resultVars, failures,
                 runs, ghostVars>>

\* SendResultToService, and the callback goes to the next message.
SendResult ==
  /\ phase = "sending"
  /\ responses' = Append(responses, Result)
  /\ batch' = Tail(batch)
  /\ phase' = "polling"
  /\ UNCHANGED <<topic, committed, position, status, with_history, history,
                 model, limbo, failures, runs, ghostVars>>

\* The producer is not idempotent.  When the acknowledgement does not come,
\* librdkafka sends the result once more: Send returns, and what was sent
\* before may reach the topic yet.
SendResultTwice ==
  /\ phase = "sending"
  /\ failures < MaxFailures
  /\ failures' = failures + 1
  /\ responses' = Append(responses, Result)
  /\ limbo' = limbo \cup {Result}
  /\ batch' = Tail(batch)
  /\ phase' = "polling"
  /\ UNCHANGED <<topic, committed, position, status, with_history, history,
                 model, runs, ghostVars>>

\* MUTANT: what was not sent, or perhaps was, is evaluated and sent again.
AfterFailedSendRetried == batch

\* MUTANT: the exception ends the batch.
AfterFailedSendAborted == <<>>

AfterFailedSend == Tail(batch)

\* Send throws and the result is only logged.  When delivery_timeout was over
\* the result may be on its way, and land at any later time, or never.
SendResultFails ==
  /\ phase = "sending"
  /\ failures < MaxFailures
  /\ failures' = failures + 1
  /\ limbo' = limbo \cup {Result}
  /\ unsent' = unsent \cup {Result}
  /\ batch' = AfterFailedSend
  /\ phase' = "polling"
  /\ UNCHANGED <<topic, committed, position, status, with_history, history,
                 model, responses, runs, unsaved, passed>>

-----------------------------------------------------------------------------
(* The response topic, the group and the process                           *)

\* A result on its way reaches the topic; one that was sent several times may
\* come again.
LateDelivery ==
  /\ \E r \in limbo :
       /\ responses' = Append(responses, r)
       /\ \/ limbo' = limbo \ {r} /\ UNCHANGED failures
          \/ /\ failures < MaxFailures
             /\ failures' = failures + 1
             /\ UNCHANGED limbo
  /\ UNCHANGED <<kafkaVars, processVars, history, runs, ghostVars>>

\* The group coordinator takes the partition away and gives it back: between
\* two batches the consumer goes back to the committed offset.
Rebalance ==
  /\ phase = "polling" /\ batch = <<>>
  /\ runs < MaxRuns
  /\ runs' = runs + 1
  /\ position' = committed
  /\ UNCHANGED <<topic, committed, batch, processVars, history, resultVars,
                 failures, ghostVars>>

\* The process dies and starts again from the committed offset; Postgres may
\* or may not answer the ping of the constructor.  A result that was being
\* sent is on its way.
Restart ==
  /\ runs < MaxRuns
  /\ runs' = runs + 1
  /\ passed' = passed \cup {o \in 1..committed : ~ Answered(o) /\ ~ Unsent(o)}
  /\ limbo' = limbo \cup (IF phase = "sending" THEN {Result} ELSE {})
  /\ position' = committed
  /\ batch' = <<>>
  /\ phase' = "polling"
  /\ status' = "ERROR"
  /\ with_history' \in BOOLEAN
  /\ model' = Unloaded
  /\ UNCHANGED <<topic, committed, history, responses, failures, unsaved,
                 unsent>>

\* Everything published is done with and committed.
Drained ==
  /\ Len(topic) = MaxMessages /\ committed = MaxMessages
  /\ phase = "polling" /\ batch = <<>>
  /\ UNCHANGED vars

ProcessStep ==
  \/ Poll \/ ParseFails \/ ParseSucceeds \/ SaveSucceeds \/ SaveFails
  \/ LoadModelFails \/ LoadModelSucceeds \/ Predict \/ ApplyRule
  \/ SendResult \/ SendResultTwice \/ SendResultFails

Next ==
  \/ Publish \/ AutoCommit \/ ProcessStep
  \/ LateDelivery \/ Rebalance \/ Restart \/ Drained

Spec == Init /\ [][Next]_vars

\* The consumer polls as long as it runs, the callback always goes on, and
\* every call it makes (Postgres, XGBoost, Send) returns or throws.
FairSpec == Spec /\ WF_vars(ProcessStep)

-----------------------------------------------------------------------------
(* Properties                                                              *)

\* What can be loaded, and the responses there can be with n requests.
Model == [features : ModelUuid \cup {NoModel}, xgb : ModelUuid \cup {NoModel}]

ResponseTo(n) ==
  [offset : 1..n, status : Status, model : Model, with_history : BOOLEAN,
   run : Nat]

\* Every variable keeps its type.
TypeOK ==
  /\ topic \in Seq(Request \cup {Garbage})
  /\ committed \in 0..position
  /\ position \in 0..Len(topic)
  /\ batch \in Seq(1..position)
  /\ phase \in {"polling", "saving", "evaluating", "predicting", "sending"}
  /\ phase # "polling" => batch # <<>>
  /\ status \in Status
  /\ with_history \in BOOLEAN
  /\ history \in [Transaction -> Content \cup {NoRow}]
  /\ model \in Model
  /\ responses \in Seq(ResponseTo(Len(topic)))
  /\ limbo \in SUBSET ResponseTo(Len(topic))
  /\ failures \in Nat /\ runs \in Nat
  /\ unsaved \in SUBSET (1..Len(topic))
  /\ unsent \in SUBSET ResponseTo(Len(topic))
  /\ passed \in SUBSET (1..Len(topic))

IsVerdict(r) == r.status # "ERROR"

\* A verdict of an ML rule comes from the features and the booster of that
\* rule's model, whatever was loaded, half loaded or refused before it
\* (MLFraudDetector::LoadModelByUuid keeps its state between messages).
VerdictFromOwnModel ==
  \A i \in DOMAIN responses :
    LET r == responses[i] IN
    IsVerdict(r) /\ topic[r.offset].rule_type = "ML" =>
      r.model = [features |-> topic[r.offset].model_uuid,
                 xgb |-> topic[r.offset].model_uuid]

\* A message gets a verdict only if it parses, its rule_type names the rule it
\* carries, and a rule that needs the history of transactions has one: every
\* other message gets ERROR, never a silent NOT_FRAUD (the branch of
\* ProcessMessage, which checks less than the factory, and RuleFactory).
VerdictFromOwnRule ==
  \A i \in DOMAIN responses :
    LET r == responses[i]
        m == topic[r.offset] IN
    IsVerdict(r) =>
      /\ m \in Request
      /\ m.body = m.rule_type
      /\ m.rule_type \in {"PATTERN", "ML"} => r.with_history

\* A rule is judged with its own transaction already in the history, unless
\* the save failed: rules that count transactions count this one too.
VerdictAfterSave ==
  \A i \in DOMAIN responses :
    LET r == responses[i] IN
    IsVerdict(r) /\ r.with_history =>
      \/ history[topic[r.offset].transaction] # NoRow
      \/ r.offset \in unsaved

\* The row of a transaction id, once there, never changes: neither the other
\* rules of the same transaction, nor a request that is consumed again, nor a
\* client that sends other data under the same id replaces it.
FirstRowStays ==
  [][\A t \in Transaction : history[t] # NoRow => history'[t] = history[t]]_vars

\* Between two restarts or rebalances the service judges each request at most
\* once, and results that differ are of different requests.  They are on the
\* topic in the order of the requests, however late an attempt to send one of
\* them lands: what comes behind the result of a later request was there before
\* it, or its Send had thrown (the callback and SendResult, without
\* enable_idempotence).
AnswersInOrder ==
  \A j \in DOMAIN responses : \A i \in 1..(j - 1) :
    LET r == responses[i]
        s == responses[j] IN
    r.run = s.run /\ r # s =>
      \/ r.offset < s.offset
      \/ /\ s.offset < r.offset
         /\ s \in unsent \/ \E k \in 1..(i - 1) : responses[k] = s

\* Every request handed to the callback is being processed, answered, logged
\* as not sent, or was committed before a restart got it answered: no failure
\* of a rule, of Postgres or of parsing makes one disappear.
NothingVanishes ==
  \A o \in 1..position :
    \/ \E i \in DOMAIN batch : batch[i] = o
    \/ Answered(o)
    \/ Unsent(o) \/ o \in passed

\* In the end every request on the topic is answered for good, unless its result
\* could not be sent or a restart passed it over (the requests are as many as
\* MaxMessages at the most).
EveryRequestServed ==
  <>[](\A o \in 1..Len(topic) :
         Answered(o) \/ Unsent(o) \/ o \in passed)

\* After a CRITICAL result, no further rule of that profile is evaluated for
\* that transaction.
CriticalStopsProfile ==
  \A j \in DOMAIN responses : \A i \in 1..(j - 1) :
    LET m == topic[responses[i].offset]
        n == topic[responses[j].offset] IN
    ~ /\ responses[i].status = "CRITICAL"
      /\ n \in Request
      /\ m.transaction = n.transaction /\ m.profile = n.profile
      /\ m.number < n.number
      /\ IsVerdict(responses[j])

-----------------------------------------------------------------------------
(* The rules service implements RuleAnswers                                *)

\* An offset is done with when it leaves the batch.
Cursor == position - Len(batch)

\* What a result is to RuleAnswers.
AnswerOf(r) == [offset |-> r.offset, status |-> r.status]

Answers == [i \in DOMAIN responses |-> AnswerOf(responses[i])]

Late == {AnswerOf(r) : r \in limbo}

\* Logged as not sent, or passed over.
Lost == {r.offset : r \in unsent} \cup passed

Abstract == INSTANCE RuleAnswers WITH
  Request   <- Request \cup {Garbage},
  Judgeable <- {m \in Request : m.body = m.rule_type},
  Verdict   <- Status \ {"ERROR"},
  requests  <- topic,
  cursor    <- Cursor,
  answers   <- Answers,
  late      <- Late,
  lost      <- Lost

\* Batches, commits ahead of the work, rows, models and failures amount to
\* this: requests are done with one by one, in order, each answered or lost; an
\* answer that lands late is one that was given, and only a restart or a
\* rebalance jumps (the callback, ProcessMessage, enable.auto.commit,
\* SendResult).
Implements == Abstract!RuleAnswersSpec

=============================================================================
