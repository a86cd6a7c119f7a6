------------------------- MODULE RulesServiceProofs -------------------------
(***************************************************************************)
(* Proofs about module RulesService, for any requests, models, files and   *)
(* batches, any number of failures, restarts, rebalances and results that  *)
(* land late: the types, where a verdict comes from, that the first row of *)
(* a transaction stays, that no request disappears or is judged out of     *)
(* order, and that the service implements module RuleAnswers.              *)
(***************************************************************************)
EXTENDS RulesService, TLAPS

-----------------------------------------------------------------------------
(* Sequences                                                               *)

\* A sequence over a set is one over any larger set.
LEMMA SeqMonotone ==
  ASSUME NEW S, NEW T, S \subseteq T, NEW s \in Seq(S)
  PROVE  s \in Seq(T)
OBVIOUS

\* What Append leaves in place and what it adds.
LEMMA AppendAt ==
  ASSUME NEW S, NEW s \in Seq(S), NEW x \in S
  PROVE  /\ Append(s, x) \in Seq(S)
         /\ DOMAIN Append(s, x) = DOMAIN s \cup {Len(s) + 1}
         /\ Len(s) + 1 \notin DOMAIN s
         /\ \A i \in DOMAIN s : Append(s, x)[i] = s[i]
         /\ Append(s, x)[Len(s) + 1] = x
OBVIOUS

\* What Tail leaves, and where.
LEMMA TailAt ==
  ASSUME NEW S, NEW s \in Seq(S), s # <<>>
  PROVE  /\ s[1] \in S
         /\ Tail(s) \in Seq(S)
         /\ Len(Tail(s)) = Len(s) - 1
         /\ \A i \in 1..Len(Tail(s)) : Tail(s)[i] = s[i + 1]
OBVIOUS

-----------------------------------------------------------------------------
(* Types                                                                   *)

\* While a request is saved or evaluated, the message in work is a request.
ParsedInv ==
  phase \in {"saving", "evaluating", "predicting"} => Message \in Request

TypeInv == TypeOK /\ ParsedInv

\* The message in work is one of the topic.
LEMMA OffsetType ==
  ASSUME TypeOK, batch # <<>>
  PROVE  /\ Offset \in 1..position
         /\ Offset \in DOMAIN topic
         /\ Message \in Request \cup {Garbage}
<1>1. Offset \in 1..position
  BY TailAt DEF TypeOK, Offset
<1>2. position \in 0..Len(topic) /\ Len(topic) \in Nat
  BY DEF TypeOK
<1>3. Offset \in DOMAIN topic
  BY <1>1, <1>2 DEF TypeOK
<1> QED
  BY <1>1, <1>3 DEF TypeOK, Message

\* A verdict is a status.
LEMMA VerdictType == ASSUME NEW b \in BOOLEAN PROVE StatusOf(b) \in Status
BY DEF StatusOf, Status

\* A result of the message in work is well typed.
LEMMA ResultType ==
  ASSUME TypeOK, phase # "polling"
  PROVE  /\ Result \in ResponseTo(Len(topic))
         /\ Result.offset = Offset /\ Result.status = status /\ Result.run = runs
         /\ Result.model = model /\ Result.with_history = with_history
<1>1. Offset \in 1..position /\ position \in 0..Len(topic) /\ Len(topic) \in Nat
  BY OffsetType DEF TypeOK
<1> QED
  BY <1>1 DEF TypeOK, Result, Response, ResponseTo

\* A message that is published does not change those there are.
LEMMA TopicGrows ==
  ASSUME TypeOK, Publish
  PROVE  /\ topic' \in Seq(Request \cup {Garbage})
         /\ Len(topic) \in Nat /\ Len(topic') = Len(topic) + 1
         /\ \A o \in 1..Len(topic) : topic'[o] = topic[o]
<1>1. PICK m \in Request \cup {Garbage} : topic' = Append(topic, m)
  BY DEF Publish
<1> QED
  BY <1>1 DEF TypeOK

LEMMA TypeInit == Init => TypeInv
BY BoundAssumption DEF Init, TypeInv, TypeOK, ParsedInv, Unloaded, Status, Model

\* What a result that lands late adds.
LEMMA LandingAt ==
  ASSUME TypeOK, LateDelivery
  PROVE  /\ UNCHANGED <<kafkaVars, processVars, history, runs, ghostVars>>
         /\ failures' \in Nat
         /\ \E r \in limbo : /\ responses' = Append(responses, r)
                             /\ limbo' \in {limbo, limbo \ {r}}
         /\ responses' \in Seq(ResponseTo(Len(topic)))
<1>1. PICK r \in limbo : /\ responses' = Append(responses, r)
                         /\ limbo' \in {limbo, limbo \ {r}}
                         /\ failures' \in {failures, failures + 1}
  BY DEF LateDelivery
<1>2. responses \in Seq(ResponseTo(Len(topic))) /\ r \in ResponseTo(Len(topic))
  BY DEF TypeOK
<1>3. responses' \in Seq(ResponseTo(Len(topic)))
  BY <1>1, <1>2, AppendAt
<1> QED
  BY <1>1, <1>3 DEF LateDelivery, TypeOK

\* The steps of the broker, of the group and of a restart keep the types.
LEMMA TypeBroker ==
  ASSUME TypeOK,
         Publish \/ AutoCommit \/ Restart \/ Rebalance \/ Poll \/ LateDelivery
  PROVE  TypeOK'
<1> USE DEF kafkaVars, processVars, ghostVars, CanPoll, CommitPoint,
              AfterParse, Inserted, Loaded, AfterFailedSend
<1>1. CASE Publish
  <2>1. ResponseTo(Len(topic)) \subseteq ResponseTo(Len(topic'))
    BY <1>1, TopicGrows DEF ResponseTo
  <2>2. responses \in Seq(ResponseTo(Len(topic')))
    BY <2>1, SeqMonotone DEF TypeOK
  <2>3. /\ limbo \in SUBSET ResponseTo(Len(topic'))
        /\ unsent \in SUBSET ResponseTo(Len(topic'))
    BY <2>1 DEF TypeOK
  <2> QED
    BY <1>1, <2>2, <2>3, TopicGrows DEF Publish, TypeOK, resultVars
<1>2. CASE AutoCommit
  BY <1>2 DEF AutoCommit, TypeOK, resultVars
<1>3. CASE Restart
  <2>1. committed \in 0..position /\ position \in 0..Len(topic) /\ Len(topic) \in Nat
    BY DEF TypeOK
  <2>2. 1..committed \subseteq 1..Len(topic)
    BY <2>1
  <2>3. passed' \in SUBSET (1..Len(topic))
    BY <1>3, <2>2 DEF Restart, TypeOK
  <2>4. committed \in 0..committed /\ committed \in 0..Len(topic)
    BY <2>1
  <2>5. limbo' \in SUBSET ResponseTo(Len(topic))
    BY <1>3, ResultType DEF Restart, TypeOK
  <2>6. runs' \in Nat
    BY <1>3 DEF Restart, TypeOK
  <2> QED
    BY <1>3, <2>3, <2>4, <2>5, <2>6 DEF Restart, TypeOK, Unloaded, Status, Model
<1>4. CASE Poll
  <2>1. PICK n \in 1..MaxBatch :
          /\ position + n <= Len(topic)
          /\ batch' = [i \in 1..n |-> position + i]
          /\ position' = position + n
    BY <1>4 DEF Poll
  <2>2. position \in Nat /\ n \in Nat /\ Len(topic) \in Nat
    BY BoundAssumption DEF TypeOK
  <2>3. batch' \in Seq(1..position')
    BY <2>1, <2>2
  <2>4. committed \in 0..position' /\ position' \in 0..Len(topic)
    BY <2>1, <2>2 DEF TypeOK
  <2> QED
    BY <1>4, <2>3, <2>4 DEF Poll, TypeOK, resultVars
<1>5. CASE LateDelivery
  BY <1>5, LandingAt DEF TypeOK
<1>6. CASE Rebalance
  <2>1. committed \in 0..committed /\ committed \in 0..Len(topic) /\ runs' \in Nat
    BY <1>6 DEF Rebalance, TypeOK
  <2>2. batch = <<>> /\ batch' = <<>>
    BY <1>6 DEF Rebalance
  <2> QED
    BY <1>6, <2>1, <2>2 DEF Rebalance, TypeOK, resultVars
<1> QED
  BY <1>1, <1>2, <1>3, <1>4, <1>5, <1>6

\* The steps of ProcessMessage keep the types.
LEMMA TypeProcess ==
  ASSUME TypeInv, ProcessStep
  PROVE  TypeOK'
<1> USE DEF TypeInv, kafkaVars, processVars, resultVars, ghostVars, CanPoll,
              CommitPoint, AfterParse, Inserted, Loaded, AfterFailedSend
<1>1. CASE Poll
  BY <1>1, TypeBroker
<1>2. CASE ParseFails
  BY <1>2 DEF ParseFails, TypeOK, Status
<1>3. CASE ParseSucceeds
  BY <1>3 DEF ParseSucceeds, TypeOK
<1>4. CASE SaveSucceeds
  <2>1. Message.content \in Content
    BY <1>4, RequestAssumption DEF SaveSucceeds, ParsedInv
  <2> QED
    BY <1>4, <2>1 DEF SaveSucceeds, TypeOK
<1>5. CASE SaveFails
  <2>1. Offset \in 1..Len(topic)
    BY <1>5, OffsetType DEF SaveFails, TypeOK
  <2> QED
    BY <1>5, <2>1 DEF SaveFails, TypeOK
<1>6. CASE LoadModelFails \/ LoadModelSucceeds
  <2>1. Message.model_uuid \in ModelUuid
    BY <1>6, RequestAssumption
       DEF LoadModelFails, LoadModelSucceeds, TakesMLBranch, ParsedInv
  <2>2. model' \in Model
    BY <1>6, <2>1 DEF LoadModelFails, LoadModelSucceeds, Model
  <2>3. failures' \in Nat
    BY <1>6 DEF LoadModelFails, LoadModelSucceeds, TypeOK
  <2>4. /\ status' \in Status /\ phase' \in {"sending", "predicting"}
        /\ phase = "evaluating"
        /\ UNCHANGED <<kafkaVars, with_history, history, resultVars, runs, ghostVars>>
    BY <1>6 DEF LoadModelFails, LoadModelSucceeds, TakesMLBranch, TypeOK, Status
  <2> QED
    BY <2>2, <2>3, <2>4 DEF TypeOK
<1>7. CASE Predict \/ ApplyRule
  <2>1. status' \in {"ERROR", StatusOf(TRUE), StatusOf(FALSE)}
    BY <1>7 DEF Predict, ApplyRule
  <2>2. status' \in Status
    BY <2>1 DEF StatusOf, Status
  <2> QED
    BY <1>7, <2>2 DEF Predict, ApplyRule, TypeOK
<1>8. CASE SendResult \/ SendResultTwice \/ SendResultFails
  <2>1. phase # "polling" /\ batch # <<>>
    BY <1>8 DEF SendResult, SendResultTwice, SendResultFails, TypeOK
  <2>2. /\ Tail(batch) \in Seq(1..position)
        /\ Result \in ResponseTo(Len(topic))
        /\ Append(responses, Result) \in Seq(ResponseTo(Len(topic)))
    BY <2>1, TailAt, ResultType, AppendAt DEF TypeOK
  <2>3. /\ responses' \in {responses, Append(responses, Result)}
        /\ limbo' \in {limbo, limbo \cup {Result}}
        /\ unsent' \in {unsent, unsent \cup {Result}}
        /\ failures' \in {failures, failures + 1}
    BY <1>8 DEF SendResult, SendResultTwice, SendResultFails
  <2>4. responses' \in Seq(ResponseTo(Len(topic)))
    BY <2>2, <2>3 DEF TypeOK
  <2>5. /\ unsent' \in SUBSET ResponseTo(Len(topic))
        /\ limbo' \in SUBSET ResponseTo(Len(topic))
    BY <2>2, <2>3 DEF TypeOK
  <2>6. failures' \in Nat
    BY <2>3 DEF TypeOK
  <2>7. /\ batch' \in Seq(1..position) /\ phase' = "polling"
        /\ UNCHANGED <<topic, committed, position, status, with_history,
                       history, model, runs, unsaved, passed>>
    BY <1>8, <2>2 DEF SendResult, SendResultTwice, SendResultFails
  <2> QED
    BY <2>4, <2>5, <2>6, <2>7 DEF TypeOK
<1> QED
  BY <1>1, <1>2, <1>3, <1>4, <1>5, <1>6, <1>7, <1>8 DEF ProcessStep

\* What is parsed stays so: the topic only grows, and the batch moves on only
\* when the phase goes back.
LEMMA ParsedNext ==
  ASSUME TypeInv, Next
  PROVE  ParsedInv'
<1> USE DEF TypeInv, ParsedInv, kafkaVars, processVars, ghostVars, Message, Offset
<1>1. CASE Publish
  <2>1. phase # "polling" => batch # <<>>
    BY DEF TypeOK
  <2>2. phase # "polling" => batch[1] \in 1..Len(topic)
    BY <2>1, OffsetType DEF TypeOK
  <2>3. phase # "polling" => topic'[batch[1]] = topic[batch[1]]
    BY <1>1, <2>2, TopicGrows
  <2> QED
    BY <1>1, <2>3 DEF Publish
<1>2. CASE AutoCommit \/ Restart \/ Rebalance \/ Drained \/ Poll \/ LateDelivery
  BY <1>2 DEF AutoCommit, Restart, Rebalance, Drained, Poll, LateDelivery, vars
<1>3. CASE ProcessStep
  <2>1. CASE ParseFails \/ ParseSucceeds
    BY <2>1 DEF ParseFails, ParseSucceeds
  <2>2. CASE SaveSucceeds \/ SaveFails
    BY <2>2 DEF SaveSucceeds, SaveFails
  <2>3. CASE LoadModelFails \/ LoadModelSucceeds \/ Predict \/ ApplyRule
    BY <2>3 DEF LoadModelFails, LoadModelSucceeds, TakesMLBranch, Predict, ApplyRule
  <2>4. CASE SendResult \/ SendResultTwice \/ SendResultFails
    BY <2>4 DEF SendResult, SendResultTwice, SendResultFails
  <2> QED
    BY <1>2, <1>3, <2>1, <2>2, <2>3, <2>4 DEF ProcessStep
<1> QED
  BY <1>1, <1>2, <1>3 DEF Next

LEMMA TypeNext == TypeInv /\ [Next]_vars => TypeInv'
<1> SUFFICES ASSUME TypeInv, [Next]_vars PROVE TypeInv'
  OBVIOUS
<1>1. CASE Next
  <2>1. CASE Drained
    BY <2>1 DEF Drained, TypeInv, TypeOK, ParsedInv, vars, Message, Offset
  <2>2. TypeOK'
    BY <1>1, <2>1, TypeBroker, TypeProcess DEF Next, TypeInv
  <2> QED
    BY <1>1, <2>2, ParsedNext DEF TypeInv
<1>2. CASE UNCHANGED vars
  BY <1>2 DEF TypeInv, TypeOK, ParsedInv, vars, Message, Offset
<1> QED
  BY <1>1, <1>2

\* Every reachable state of the rules service is well typed, whatever the
\* requests, the models and the failures.
THEOREM TypeCorrect == Spec => []TypeOK
<1>1. Spec => []TypeInv
  BY TypeInit, TypeNext, PTL DEF Spec
<1>2. TypeInv => TypeOK
  BY DEF TypeInv
<1> QED
  BY <1>1, <1>2, PTL

-----------------------------------------------------------------------------
(* What a step leaves in place                                             *)

\* The topic only grows.
LEMMA TopicStays ==
  ASSUME TypeOK, [Next]_vars
  PROVE  /\ topic' \in Seq(Request \cup {Garbage})
         /\ Len(topic) \in Nat /\ Len(topic') \in Nat /\ Len(topic) <= Len(topic')
         /\ \A o \in 1..Len(topic) : topic'[o] = topic[o]
<1>1. CASE Publish
  BY <1>1, TopicGrows
<1>2. CASE ~ Publish
  <2>1. topic' = topic
    BY <1>2 DEF Next, ProcessStep, AutoCommit, LateDelivery, Rebalance, Restart,
         Drained, Poll, ParseFails, ParseSucceeds, SaveSucceeds, SaveFails,
         LoadModelFails, LoadModelSucceeds, Predict, ApplyRule, SendResult,
         SendResultTwice, SendResultFails, kafkaVars, vars
  <2> QED
    BY <2>1 DEF TypeOK
<1> QED
  BY <1>1, <1>2

\* The results that are on the topic or may still land there.
Landed == {responses[i] : i \in DOMAIN responses}
Results == Landed \cup limbo

LEMMA ResultsType ==
  ASSUME TypeOK, NEW r \in Results
  PROVE  /\ r \in ResponseTo(Len(topic))
         /\ r.offset \in 1..Len(topic) /\ r.offset \in Nat /\ r.run \in Nat
<1>1. r \in ResponseTo(Len(topic))
  BY DEF TypeOK, Results, Landed
<1>2. Len(topic) \in Nat
  BY DEF TypeOK
<1> QED
  BY <1>1, <1>2 DEF ResponseTo

\* What an appended result does to those that have landed.
LEMMA LandedGrows ==
  ASSUME TypeOK, NEW r \in ResponseTo(Len(topic)), responses' = Append(responses, r)
  PROVE  /\ DOMAIN responses = 1..Len(responses) /\ Len(responses) \in Nat
         /\ DOMAIN responses' = 1..(Len(responses) + 1)
         /\ \A i \in 1..Len(responses) : responses'[i] = responses[i]
         /\ responses'[Len(responses) + 1] = r
         /\ Landed' = Landed \cup {r}
<1>1. /\ DOMAIN responses = 1..Len(responses) /\ Len(responses) \in Nat
      /\ DOMAIN responses' = 1..(Len(responses) + 1)
      /\ \A i \in 1..Len(responses) : responses'[i] = responses[i]
      /\ responses'[Len(responses) + 1] = r
  BY AppendAt DEF TypeOK
<1>2. 1..(Len(responses) + 1) = 1..Len(responses) \cup {Len(responses) + 1}
  BY <1>1
<1>3. Landed' = Landed \cup {r}
  BY <1>1, <1>2 DEF Landed
<1> QED
  BY <1>1, <1>3

\* A result appears, on the topic or on its way there, only when it is sent, or
\* when the process dies while it is.
LEMMA ResultsGrow ==
  ASSUME TypeOK, [Next]_vars
  PROVE  Results' \subseteq Results \cup (IF phase = "sending" THEN {Result} ELSE {})
<1>1. CASE SendResult \/ SendResultTwice \/ SendResultFails
  <2>1. /\ phase = "sending"
        /\ limbo' \in {limbo, limbo \cup {Result}}
        /\ responses' = responses \/ responses' = Append(responses, Result)
    BY <1>1 DEF SendResult, SendResultTwice, SendResultFails
  <2>2. Result \in ResponseTo(Len(topic))
    BY <2>1, ResultType
  <2>3. Landed' \subseteq Landed \cup {Result}
    BY <2>1, <2>2, LandedGrows DEF Landed
  <2> QED
    BY <2>1, <2>3 DEF Results
<1>2. CASE LateDelivery
  <2>1. PICK r \in limbo : /\ responses' = Append(responses, r)
                           /\ limbo' \in {limbo, limbo \ {r}}
    BY <1>2, LandingAt
  <2>2. r \in ResponseTo(Len(topic))
    BY DEF TypeOK
  <2>3. Landed' = Landed \cup {r}
    BY <2>1, <2>2, LandedGrows
  <2> QED
    BY <2>1, <2>3 DEF Results
<1>3. CASE Restart
  BY <1>3 DEF Restart, Results, Landed
<1>4. CASE UNCHANGED resultVars
  BY <1>4 DEF resultVars, Results, Landed
<1>5. CASE ~ \/ SendResult \/ SendResultTwice \/ SendResultFails
             \/ LateDelivery \/ Restart
  <2>1. UNCHANGED resultVars
    BY <1>5 DEF Next, ProcessStep, Publish, AutoCommit, Rebalance, Drained, Poll,
         ParseFails, ParseSucceeds, SaveSucceeds, SaveFails, LoadModelFails,
         LoadModelSucceeds, Predict, ApplyRule, resultVars, vars
  <2> QED
    BY <1>4, <2>1
<1> QED
  BY <1>1, <1>2, <1>3, <1>5

\* A step that keeps the batch keeps the message in work.
LEMMA MessageStays ==
  ASSUME TypeOK, [Next]_vars, batch' = batch, batch # <<>>
  PROVE  Offset' = Offset /\ Message' = Message
<1>1. Offset \in 1..Len(topic)
  BY OffsetType DEF TypeOK
<1>2. Offset' = Offset
  BY DEF Offset
<1>3. topic'[Offset] = topic[Offset]
  BY <1>1, TopicStays
<1> QED
  BY <1>2, <1>3 DEF Message

-----------------------------------------------------------------------------
(* Where a verdict comes from                                              *)

OwnModel(m) == [features |-> m.model_uuid, xgb |-> m.model_uuid]

\* What entitles the service to a verdict on message m.
Justified(m, has_history, loaded) ==
  /\ m \in Request
  /\ m.body = m.rule_type
  /\ m.rule_type \in {"PATTERN", "ML"} => has_history
  /\ m.rule_type = "ML" => loaded = OwnModel(m)

VerdictInv ==
  /\ phase = "predicting" => Justified(Message, with_history, model)
  /\ phase = "sending" /\ status # "ERROR" =>
       Justified(Message, with_history, model)
  /\ \A r \in Results :
       IsVerdict(r) => Justified(topic[r.offset], r.with_history, r.model)

LEMMA VerdictInit == Init => VerdictInv
BY DEF Init, VerdictInv, Results, Landed

\* The two conjuncts about the message in work.
LEMMA VerdictInWork ==
  ASSUME TypeInv, VerdictInv, [Next]_vars
  PROVE  /\ (phase = "predicting" => Justified(Message, with_history, model))'
         /\ (phase = "sending" /\ status # "ERROR" =>
               Justified(Message, with_history, model))'
<1> USE DEF TypeInv, kafkaVars, processVars, ghostVars, CanPoll, CommitPoint,
              AfterParse, Inserted, Loaded, AfterFailedSend
<1>1. CASE \/ Publish \/ AutoCommit \/ LateDelivery \/ Rebalance
           \/ UNCHANGED vars \/ Drained
  <2>1. UNCHANGED <<batch, processVars, status>>
    BY <1>1 DEF Publish, AutoCommit, LateDelivery, Rebalance, Drained, vars
  <2>2. phase # "polling" => Message' = Message
    BY <2>1, MessageStays DEF TypeOK
  <2> QED
    BY <2>1, <2>2 DEF VerdictInv
<1>2. CASE Restart \/ Poll \/ SendResult \/ SendResultTwice \/ SendResultFails
  BY <1>2 DEF Restart, Poll, SendResult, SendResultTwice, SendResultFails
<1>3. CASE ParseFails \/ ParseSucceeds \/ SaveSucceeds \/ SaveFails
  BY <1>3 DEF ParseFails, ParseSucceeds, SaveSucceeds, SaveFails
<1>4. CASE LoadModelFails
  BY <1>4 DEF LoadModelFails
<1>5. CASE LoadModelSucceeds
  <2>1. /\ Message \in Request
        /\ Message.rule_type = "ML" /\ with_history
        /\ Disk[Message.model_uuid] # {}
        /\ model' = OwnModel(Message)
        /\ UNCHANGED <<batch, with_history>> /\ phase' = "predicting"
    BY <1>5 DEF LoadModelSucceeds, TakesMLBranch, ParsedInv, OwnModel
  <2>2. Message.body = "ML"
    BY <2>1, EmptyUuidAssumption
  <2>3. Message' = Message
    BY <1>5, <2>1, MessageStays DEF LoadModelSucceeds, TakesMLBranch, TypeOK
  <2> QED
    BY <2>1, <2>2, <2>3 DEF Justified
<1>6. CASE Predict
  <2>1. /\ Justified(Message, with_history, model)
        /\ UNCHANGED <<batch, with_history, model>> /\ phase' = "sending"
    BY <1>6 DEF Predict, VerdictInv
  <2>2. Message' = Message
    BY <1>6, <2>1, MessageStays DEF Predict, TypeOK
  <2> QED
    BY <2>1, <2>2
<1>7. CASE ApplyRule
  <2>1. /\ Message \in Request
        /\ status' # "ERROR" => CreatesRule
        /\ ~ (Message.rule_type = "ML" /\ with_history)
        /\ UNCHANGED <<batch, with_history, model>> /\ phase' = "sending"
    BY <1>7 DEF ApplyRule, TakesMLBranch, ParsedInv
  <2>2. Message' = Message
    BY <1>7, <2>1, MessageStays DEF ApplyRule, TypeOK
  <2> QED
    BY <2>1, <2>2 DEF CreatesRule, Justified
<1> QED
  BY <1>1, <1>2, <1>3, <1>4, <1>5, <1>6, <1>7 DEF Next, ProcessStep

LEMMA VerdictNext ==
  ASSUME TypeInv, VerdictInv, [Next]_vars
  PROVE  VerdictInv'
<1>1. ASSUME NEW r \in Results', IsVerdict(r)
      PROVE  Justified(topic'[r.offset], r.with_history, r.model)
  <2>1. CASE r \in Results
    <3>1. topic'[r.offset] = topic[r.offset]
      BY <2>1, ResultsType, TopicStays DEF TypeInv
    <3> QED
      BY <1>1, <2>1, <3>1 DEF VerdictInv
  <2>2. CASE phase = "sending" /\ r = Result
    <3>1. /\ r.offset = Offset /\ r.status = status
          /\ r.with_history = with_history /\ r.model = model
      BY <2>2, ResultType DEF TypeInv
    <3>2. Justified(topic[Offset], with_history, model)
      BY <1>1, <2>2, <3>1 DEF VerdictInv, IsVerdict, Message
    <3>3. topic'[Offset] = topic[Offset]
      BY <2>2, OffsetType, TopicStays DEF TypeInv, TypeOK
    <3> QED
      BY <3>1, <3>2, <3>3
  <2> QED
    BY <1>1, <2>1, <2>2, ResultsGrow DEF TypeInv
<1> QED
  BY <1>1, VerdictInWork DEF VerdictInv, IsVerdict

\* The inductive invariant: a verdict in work or sent is justified by its own
\* message, and the detector in use holds that message's model.
THEOREM VerdictInvariant == Spec => [](TypeInv /\ VerdictInv)
BY TypeInit, TypeNext, VerdictInit, VerdictNext, PTL DEF Spec

\* Every verdict of an ML rule comes from the features and the booster of that
\* rule's own model, whatever the detector went through before.
THEOREM VerdictsFromOwnModel == Spec => []VerdictFromOwnModel
<1>1. VerdictInv => VerdictFromOwnModel
  BY DEF VerdictInv, VerdictFromOwnModel, Justified, OwnModel, Results, Landed
<1> QED
  BY <1>1, VerdictInvariant, PTL

\* Only a message that parses, carries the rule its rule_type names and finds
\* the history it needs gets a verdict.
THEOREM VerdictsFromOwnRule == Spec => []VerdictFromOwnRule
<1>1. VerdictInv => VerdictFromOwnRule
  BY DEF VerdictInv, VerdictFromOwnRule, Justified, Results, Landed
<1> QED
  BY <1>1, VerdictInvariant, PTL

-----------------------------------------------------------------------------
(* The history of transactions                                             *)

\* A row that is there is there after the step, as it was.
LEMMA RowStays ==
  ASSUME TypeInv, [Next]_vars, NEW t \in Transaction, history[t] # NoRow
  PROVE  history'[t] = history[t]
<1>1. CASE SaveSucceeds
  BY <1>1 DEF SaveSucceeds, Inserted, TypeInv, TypeOK
<1>2. CASE ~ SaveSucceeds
  BY <1>2 DEF Next, ProcessStep, Publish, AutoCommit, Restart, Rebalance,
       Drained, Poll, ParseFails, ParseSucceeds, SaveFails, LoadModelFails,
       LoadModelSucceeds, Predict, ApplyRule, SendResult, SendResultTwice,
       SendResultFails, LateDelivery, kafkaVars, vars
<1> QED
  BY <1>1, <1>2

\* The first row of a transaction id stays, through every later request, every
\* repetition after a restart and every client that sends other data.
THEOREM FirstRowsStay == Spec => FirstRowStays
<1>1. TypeInv /\ [Next]_vars =>
        [\A t \in Transaction : history[t] # NoRow => history'[t] = history[t]]_vars
  BY RowStays
<1>2. Spec => []TypeInv
  BY TypeInit, TypeNext, PTL DEF Spec
<1> QED
  BY <1>1, <1>2, PTL DEF Spec, FirstRowStays

\* The request at offset o is in the history, or its save failed.
Recorded(o) ==
  /\ topic[o] \in Request
  /\ history[topic[o].transaction] # NoRow \/ o \in unsaved

SaveInv ==
  /\ phase \in {"evaluating", "predicting"} /\ with_history => Recorded(Offset)
  /\ phase = "sending" /\ status # "ERROR" /\ with_history => Recorded(Offset)
  /\ \A r \in Results : IsVerdict(r) /\ r.with_history => Recorded(r.offset)

LEMMA SaveInit == Init => SaveInv
BY DEF Init, SaveInv, Results, Landed

\* What is recorded stays recorded.
LEMMA RecordedStays ==
  ASSUME TypeInv, [Next]_vars, NEW o \in 1..Len(topic), Recorded(o)
  PROVE  /\ topic'[o] \in Request
         /\ history'[topic'[o].transaction] # NoRow \/ o \in unsaved'
<1>1. topic'[o] = topic[o]
  BY TopicStays DEF TypeInv
<1>2. topic[o].transaction \in Transaction
  BY RequestAssumption DEF Recorded
<1>3. unsaved \subseteq unsaved'
  BY DEF Next, ProcessStep, Publish, AutoCommit, Restart, Rebalance, Drained,
       Poll, ParseFails, ParseSucceeds, SaveSucceeds, SaveFails, LoadModelFails,
       LoadModelSucceeds, Predict, ApplyRule, SendResult, SendResultTwice,
       SendResultFails, LateDelivery, ghostVars, vars
<1>4. history[topic[o].transaction] # NoRow =>
        history'[topic[o].transaction] # NoRow
  BY <1>2, RowStays
<1> QED
  BY <1>1, <1>3, <1>4 DEF Recorded

\* The two conjuncts about the message in work.
LEMMA SaveInWork ==
  ASSUME TypeInv, SaveInv, [Next]_vars
  PROVE  /\ (phase \in {"evaluating", "predicting"} /\ with_history => Recorded(Offset))'
         /\ (phase = "sending" /\ status # "ERROR" /\ with_history => Recorded(Offset))'
<1> USE DEF TypeInv, kafkaVars, processVars, ghostVars, CanPoll, CommitPoint,
              AfterParse, Inserted, Loaded, AfterFailedSend
<1>1. ASSUME UNCHANGED batch, batch # <<>>, Recorded(Offset)
      PROVE  (Recorded(Offset))'
  <2>1. Offset \in 1..Len(topic) /\ Offset' = Offset
    BY <1>1, OffsetType, MessageStays DEF TypeOK
  <2> QED
    BY <1>1, <2>1, RecordedStays DEF Recorded
<1>2. CASE \/ Publish \/ AutoCommit \/ LateDelivery \/ Rebalance
           \/ UNCHANGED vars \/ Drained
  <2>1. UNCHANGED <<batch, processVars, status>>
    BY <1>2 DEF Publish, AutoCommit, LateDelivery, Rebalance, Drained, vars
  <2> QED
    BY <1>1, <2>1 DEF SaveInv, TypeOK
<1>3. CASE \/ Restart \/ Poll \/ ParseFails
           \/ SendResult \/ SendResultTwice \/ SendResultFails
  BY <1>3 DEF Restart, Poll, ParseFails, SendResult, SendResultTwice,
     SendResultFails
<1>4. CASE ParseSucceeds
  BY <1>4 DEF ParseSucceeds
<1>5. CASE SaveSucceeds
  <2>1. Message \in Request /\ Message' = Message /\ Offset' = Offset
    BY <1>5, MessageStays DEF SaveSucceeds, ParsedInv, TypeOK
  <2>2. Message.transaction \in Transaction /\ Message.content \in Content
    BY <2>1, RequestAssumption
  <2>3. history'[Message.transaction] # NoRow
    BY <1>5, <2>2, RequestAssumption DEF SaveSucceeds, TypeOK
  <2>4. (Recorded(Offset))'
    BY <2>1, <2>3 DEF Recorded, Message
  <2> QED
    BY <1>5, <2>4 DEF SaveSucceeds
<1>6. CASE SaveFails
  <2>1. Message \in Request /\ Message' = Message /\ Offset' = Offset
    BY <1>6, MessageStays DEF SaveFails, ParsedInv, TypeOK
  <2>2. (Recorded(Offset))'
    BY <1>6, <2>1 DEF Recorded, Message, SaveFails
  <2> QED
    BY <1>6, <2>2 DEF SaveFails
<1>7. CASE LoadModelFails \/ LoadModelSucceeds \/ Predict \/ ApplyRule
  <2>1. /\ phase \in {"evaluating", "predicting"}
        /\ UNCHANGED <<batch, with_history>>
    BY <1>7 DEF LoadModelFails, LoadModelSucceeds, TakesMLBranch, Predict, ApplyRule
  <2> QED
    BY <1>1, <2>1 DEF SaveInv, TypeOK
<1> QED
  BY <1>2, <1>3, <1>4, <1>5, <1>6, <1>7 DEF Next, ProcessStep

LEMMA SaveNext ==
  ASSUME TypeInv, SaveInv, [Next]_vars
  PROVE  SaveInv'
<1>1. ASSUME NEW r \in Results', IsVerdict(r), r.with_history
      PROVE  /\ topic'[r.offset] \in Request
             /\ \/ history'[topic'[r.offset].transaction] # NoRow
                \/ r.offset \in unsaved'
  <2>1. Recorded(r.offset) /\ r.offset \in 1..Len(topic)
    <3>1. CASE r \in Results
      BY <1>1, <3>1, ResultsType DEF SaveInv, TypeInv
    <3>2. CASE phase = "sending" /\ r = Result
      <4>1. /\ r.offset = Offset /\ r.status = status
            /\ r.with_history = with_history
        BY <3>2, ResultType DEF TypeInv
      <4>2. Offset \in 1..Len(topic)
        BY <3>2, OffsetType DEF TypeInv, TypeOK
      <4> QED
        BY <1>1, <3>2, <4>1, <4>2 DEF SaveInv, IsVerdict
    <3> QED
      BY <1>1, <3>1, <3>2, ResultsGrow DEF TypeInv
  <2> QED
    BY <2>1, RecordedStays
<1> QED
  BY <1>1, SaveInWork DEF SaveInv, Recorded, IsVerdict

\* Every verdict was given with the transaction in the history, unless Postgres
\* failed to take it.
THEOREM VerdictsAfterSave == Spec => []VerdictAfterSave
<1>1. Spec => [](TypeInv /\ SaveInv)
  BY TypeInit, TypeNext, SaveInit, SaveNext, PTL DEF Spec
<1>2. SaveInv => VerdictAfterSave
  BY DEF SaveInv, VerdictAfterSave, Recorded, Results, Landed
<1> QED
  BY <1>1, <1>2, PTL

-----------------------------------------------------------------------------
(* Order and completeness                                                  *)

\* The batch is the run of offsets that ends at position.
BatchRuns == \A k \in DOMAIN batch : batch[k] + Len(batch) = position + k

\* The results of the present run are below the batch.
BelowBatch ==
  \A r \in Results :
    /\ r.run <= runs
    /\ r.run = runs => r.offset + Len(batch) <= position

\* A run judges no request twice.
JudgedOnce ==
  \A r, s \in Results : r.run = s.run /\ r.offset = s.offset => r = s

\* The process died while it sent r.
LastOfRun(r) ==
  /\ r.run < runs
  /\ \A s \in Results : s.run = r.run /\ s # r => s.offset < r.offset

\* Why a result may still land.
LimboKnown == \A r \in limbo : r \in unsent \/ r \in Landed \/ LastOfRun(r)

ProgressInv ==
  BatchRuns /\ BelowBatch /\ JudgedOnce /\ LimboKnown /\ AnswersInOrder

\* What the invariants say of a step depends on which of these it is.
LEMMA StepKinds ==
  ASSUME [Next]_vars
  PROVE  \/ UNCHANGED <<position, batch, responses, limbo, runs, unsent, passed>>
         \/ Poll
         \/ SendResult \/ SendResultTwice \/ SendResultFails
         \/ LateDelivery \/ Rebalance \/ Restart
<1> USE DEF kafkaVars, resultVars, ghostVars
<1>1. CASE Publish \/ AutoCommit \/ Drained \/ UNCHANGED vars
  BY <1>1 DEF Publish, AutoCommit, Drained, vars
<1>2. CASE ParseFails \/ ParseSucceeds \/ SaveSucceeds \/ SaveFails
  BY <1>2 DEF ParseFails, ParseSucceeds, SaveSucceeds, SaveFails
<1>3. CASE LoadModelFails \/ LoadModelSucceeds \/ Predict \/ ApplyRule
  BY <1>3 DEF LoadModelFails, LoadModelSucceeds, Predict, ApplyRule
<1> QED
  BY <1>1, <1>2, <1>3 DEF Next, ProcessStep

\* What sending, successful or not, does to the topic of the results.
LEMMA SendKinds ==
  ASSUME TypeInv, SendResult \/ SendResultTwice \/ SendResultFails
  PROVE  /\ batch # <<>> /\ batch' = Tail(batch) /\ phase = "sending"
         /\ UNCHANGED <<topic, position, runs, passed>>
         /\ \/ /\ responses' = Append(responses, Result)
               /\ limbo' \in {limbo, limbo \cup {Result}}
               /\ unsent' = unsent
            \/ /\ responses' = responses
               /\ limbo' = limbo \cup {Result}
               /\ unsent' = unsent \cup {Result}
         /\ Result \in ResponseTo(Len(topic))
<1>1. phase = "sending" /\ batch # <<>>
  BY DEF SendResult, SendResultTwice, SendResultFails, TypeInv, TypeOK
<1>2. Result \in ResponseTo(Len(topic))
  BY <1>1, ResultType DEF TypeInv
<1> QED
  BY <1>1, <1>2
  DEF SendResult, SendResultTwice, SendResultFails, AfterFailedSend, ghostVars

\* No result leaves the topic, and none that was not sent is forgotten.
LEMMA ResultsStay ==
  ASSUME TypeInv, [Next]_vars
  PROVE  Landed \subseteq Landed' /\ unsent \subseteq unsent' /\ runs' \in {runs, runs + 1}
<1>1. CASE UNCHANGED <<position, batch, responses, limbo, runs, unsent, passed>>
  BY <1>1 DEF Landed
<1>2. CASE Poll \/ Rebalance \/ Restart
  BY <1>2 DEF Poll, Rebalance, Restart, resultVars, ghostVars, Landed
<1>3. CASE SendResult \/ SendResultTwice \/ SendResultFails
  <2>1. ASSUME NEW r, r = Result, responses' = Append(responses, r)
        PROVE  Landed \subseteq Landed'
    BY <1>3, <2>1, SendKinds, LandedGrows DEF TypeInv
  <2>2. responses' = responses => Landed' = Landed
    BY DEF Landed
  <2>3. unsent \subseteq unsent' /\ runs' = runs
    BY <1>3, SendKinds
  <2> QED
    BY <1>3, <2>1, <2>2, <2>3, SendKinds
<1>4. CASE LateDelivery
  <2>1. PICK r \in limbo : responses' = Append(responses, r)
    BY <1>4, LandingAt DEF TypeInv
  <2>2. r \in ResponseTo(Len(topic))
    BY DEF TypeInv, TypeOK
  <2>3. Landed' = Landed \cup {r}
    BY <2>1, <2>2, LandedGrows DEF TypeInv
  <2> QED
    BY <1>4, <2>3, LandingAt DEF TypeInv, ghostVars
<1> QED
  BY <1>1, <1>2, <1>3, <1>4, StepKinds

\* The message in work is the one behind all results of the present run.
LEMMA InWorkIsNew ==
  ASSUME TypeInv, BatchRuns, BelowBatch, batch # <<>>
  PROVE  /\ Offset \in Nat /\ Offset + Len(batch) = position + 1
         /\ \A r \in Results : r.run = runs => r.offset < Offset
<1>1. /\ batch \in Seq(1..position) /\ position \in Nat /\ Len(batch) \in Nat
      /\ 1 \in DOMAIN batch
  BY DEF TypeInv, TypeOK
<1>2. Offset \in Nat /\ Offset + Len(batch) = position + 1
  <2>1. batch[1] \in 1..position /\ batch[1] + Len(batch) = position + 1
    BY <1>1 DEF BatchRuns
  <2> QED
    BY <1>1, <2>1 DEF Offset
<1>3. ASSUME NEW r \in Results, r.run = runs PROVE r.offset < Offset
  <2>1. r.offset \in Nat
    BY ResultsType DEF TypeInv
  <2>2. r.offset + Len(batch) <= position
    BY <1>3 DEF BelowBatch
  <2> QED
    BY <1>1, <1>2, <2>1, <2>2
<1> QED
  BY <1>2, <1>3

LEMMA BatchNext ==
  ASSUME TypeInv, BatchRuns, [Next]_vars
  PROVE  BatchRuns'
<1>1. position \in Nat /\ batch \in Seq(1..position)
  BY DEF TypeInv, TypeOK
<1>2. CASE UNCHANGED <<position, batch>>
  BY <1>2 DEF BatchRuns
<1>3. CASE Poll
  <2>1. PICK n \in 1..MaxBatch : /\ batch' = [i \in 1..n |-> position + i]
                                 /\ position' = position + n
    BY <1>3 DEF Poll
  <2>2. n \in Nat /\ Len(batch') = n /\ DOMAIN batch' = 1..n
    BY <2>1, BoundAssumption
  <2> QED
    BY <1>1, <2>1, <2>2 DEF BatchRuns
<1>4. CASE SendResult \/ SendResultTwice \/ SendResultFails
  <2>1. batch # <<>> /\ batch' = Tail(batch) /\ position' = position
    BY <1>4, SendKinds
  <2>2. /\ Len(batch) \in Nat /\ Len(batch') \in Nat
        /\ Len(batch') + 1 = Len(batch)
        /\ DOMAIN batch = 1..Len(batch) /\ DOMAIN batch' = 1..Len(batch')
        /\ \A k \in DOMAIN batch' : batch'[k] = batch[k + 1]
    BY <1>1, <2>1, TailAt
  <2>3. \A k \in DOMAIN batch :
          batch[k] \in Nat /\ batch[k] + Len(batch) = position + k
    BY <1>1 DEF BatchRuns
  <2> SUFFICES ASSUME NEW k \in DOMAIN batch'
               PROVE  batch'[k] + Len(batch') = position + k
    BY <2>1 DEF BatchRuns
  <2>4. k \in Nat /\ k + 1 \in DOMAIN batch /\ batch'[k] = batch[k + 1]
    BY <2>2
  <2>5. batch[k + 1] \in Nat /\ batch[k + 1] + Len(batch) = position + (k + 1)
    BY <2>3, <2>4
  <2>6. batch'[k] \in Nat /\ batch'[k] + Len(batch) = position + (k + 1)
    BY <2>4, <2>5
  <2> DEFINE b == batch'[k]
             long == Len(batch)
             short == Len(batch')
  <2>7. /\ b \in Nat /\ long \in Nat /\ short \in Nat /\ position \in Nat /\ k \in Nat
        /\ short + 1 = long /\ b + long = position + (k + 1)
    BY <1>1, <2>2, <2>4, <2>6
  <2> HIDE DEF b, long, short
  <2>8. b + short = position + k
    BY <2>7
  <2> QED
    BY <2>8 DEF b, short
<1>5. CASE LateDelivery \/ Rebalance \/ Restart
  BY <1>5 DEF LateDelivery, Rebalance, Restart, BatchRuns, kafkaVars
<1> QED
  BY <1>2, <1>3, <1>4, <1>5, StepKinds

LEMMA BelowNext ==
  ASSUME TypeInv, BatchRuns, BelowBatch, [Next]_vars
  PROVE  BelowBatch'
<1>1. position \in Nat /\ runs \in Nat /\ batch \in Seq(1..position)
  BY DEF TypeInv, TypeOK
<1>2. ASSUME NEW r \in Results
      PROVE  /\ r.run \in Nat /\ r.offset \in Nat /\ r.run <= runs
             /\ r.run = runs => r.offset + Len(batch) <= position
  BY <1>2, ResultsType DEF BelowBatch, TypeInv
<1>3. CASE UNCHANGED <<position, batch, responses, limbo, runs, unsent, passed>>
  BY <1>3 DEF BelowBatch, Results, Landed
<1>4. CASE Poll
  <2>1. /\ batch = <<>> /\ UNCHANGED <<responses, limbo, runs>>
        /\ \E n \in 1..MaxBatch : /\ batch' = [i \in 1..n |-> position + i]
                                  /\ position' = position + n
    BY <1>4 DEF Poll, resultVars
  <2>2. PICK n \in 1..MaxBatch : /\ batch' = [i \in 1..n |-> position + i]
                                 /\ position' = position + n
    BY <2>1
  <2>3. n \in Nat /\ Len(batch) = 0 /\ Len(batch') = n
    BY <2>1, <2>2, BoundAssumption
  <2>4. \A r \in Results : r.run = runs => r.offset + n <= position + n
    BY <1>1, <1>2, <2>3
  <2>5. Results' = Results
    BY <2>1 DEF Results, Landed
  <2> QED
    BY <1>2, <2>1, <2>2, <2>3, <2>4, <2>5 DEF BelowBatch
<1>5. CASE SendResult \/ SendResultTwice \/ SendResultFails
  <2>1. /\ batch # <<>> /\ batch' = Tail(batch) /\ phase = "sending"
        /\ UNCHANGED <<position, runs>>
    BY <1>5, SendKinds
  <2>2. Len(batch) \in Nat /\ Len(batch') \in Nat /\ Len(batch') + 1 = Len(batch)
    BY <1>1, <2>1, TailAt
  <2>3. Result.offset = Offset /\ Result.run = runs
    BY <2>1, ResultType DEF TypeInv
  <2>4. Offset \in Nat /\ Offset + Len(batch) = position + 1
    BY <2>1, InWorkIsNew
  <2>5. Offset + Len(batch') <= position
    BY <1>1, <2>2, <2>4
  <2>6. \A r \in Results :
          r.run <= runs /\ (r.run = runs => r.offset + Len(batch') <= position)
    BY <1>1, <1>2, <2>2
  <2>7. \A r \in Results' : r \in Results \/ r = Result
    BY <2>1, ResultsGrow DEF TypeInv
  <2> QED
    BY <1>1, <2>1, <2>3, <2>5, <2>6, <2>7 DEF BelowBatch
<1>6. CASE LateDelivery
  <2>1. UNCHANGED <<position, batch, runs>>
    BY <1>6 DEF LateDelivery, kafkaVars
  <2>2. Results' \subseteq Results
    <3>1. PICK r \in limbo : /\ responses' = Append(responses, r)
                             /\ limbo' \in {limbo, limbo \ {r}}
      BY <1>6, LandingAt DEF TypeInv
    <3>2. Landed' = Landed \cup {r}
      BY <3>1, LandedGrows DEF TypeInv, TypeOK
    <3> QED
      BY <3>1, <3>2 DEF Results
  <2> QED
    BY <2>1, <2>2 DEF BelowBatch
<1>7. CASE Rebalance \/ Restart
  <2>1. runs' = runs + 1
    BY <1>7 DEF Rebalance, Restart
  <2>2. \A r \in Results : r.run <= runs' /\ r.run # runs'
    BY <1>1, <1>2, <2>1
  <2>3. phase = "sending" => Result.run <= runs' /\ Result.run # runs'
    BY <1>1, <2>1, ResultType DEF TypeInv
  <2>4. \A r \in Results' : r.run <= runs' /\ r.run # runs'
    BY <2>2, <2>3, ResultsGrow DEF TypeInv
  <2> QED
    BY <2>4 DEF BelowBatch
<1> QED
  BY <1>3, <1>4, <1>5, <1>6, <1>7, StepKinds

LEMMA JudgedOnceNext ==
  ASSUME TypeInv, BatchRuns, BelowBatch, JudgedOnce, [Next]_vars
  PROVE  JudgedOnce'
<1> SUFFICES ASSUME NEW r \in Results', NEW s \in Results',
                    r.run = s.run, r.offset = s.offset
             PROVE  r = s
  BY DEF JudgedOnce
<1>1. phase = "sending" =>
        /\ Result.offset = Offset /\ Result.run = runs /\ Offset \in Nat
        /\ \A q \in Results : q.run = runs => q.offset < Offset
  BY ResultType, InWorkIsNew DEF TypeInv, TypeOK
<1>2. \A q \in Results' : q \in Results \/ (phase = "sending" /\ q = Result)
  BY ResultsGrow DEF TypeInv
<1>3. \A q \in Results : q.offset \in Nat
  BY ResultsType DEF TypeInv
<1>4. CASE r \in Results /\ s \in Results
  BY <1>4 DEF JudgedOnce
<1>5. CASE phase = "sending" /\ r = Result /\ s \in Results
  BY <1>1, <1>3, <1>5
<1>6. CASE phase = "sending" /\ s = Result /\ r \in Results
  BY <1>1, <1>3, <1>6
<1> QED
  BY <1>2, <1>4, <1>5, <1>6

LEMMA LimboNext ==
  ASSUME TypeInv, BatchRuns, BelowBatch, LimboKnown, [Next]_vars
  PROVE  LimboKnown'
<1>1. runs \in Nat
  BY DEF TypeInv, TypeOK
<1>2. ASSUME NEW r \in limbo
      PROVE  r \in unsent' \/ r \in Landed' \/ LastOfRun(r)'
  <2>1. CASE r \in unsent \/ r \in Landed
    BY <2>1, ResultsStay
  <2>2. CASE LastOfRun(r)
    <3>1. r.run \in Nat /\ r.run < runs'
      BY <1>1, <2>2, ResultsStay, ResultsType DEF LastOfRun, Results, TypeInv
    <3>2. ASSUME NEW s \in Results', s.run = r.run, s # r
          PROVE  s.offset < r.offset
      <4>1. phase = "sending" => Result.run = runs
        BY ResultType DEF TypeInv
      <4>2. r.run # runs
        BY <1>1, <2>2, <3>1 DEF LastOfRun
      <4>3. s \in Results
        BY <3>2, <4>1, <4>2, ResultsGrow DEF TypeInv
      <4> QED
        BY <2>2, <3>2, <4>3 DEF LastOfRun
    <3> QED
      BY <3>1, <3>2 DEF LastOfRun
  <2> QED
    BY <2>1, <2>2 DEF LimboKnown
<1>3. CASE limbo' \subseteq limbo
  BY <1>2, <1>3 DEF LimboKnown
<1>4. CASE SendResult \/ SendResultTwice \/ SendResultFails
  <2>1. Result \in Landed' \/ Result \in unsent'
    <3>1. CASE responses' = Append(responses, Result)
      BY <1>4, <3>1, SendKinds, LandedGrows DEF TypeInv
    <3>2. CASE unsent' = unsent \cup {Result}
      BY <3>2
    <3> QED
      BY <1>4, <3>1, <3>2, SendKinds
  <2>2. limbo' \subseteq limbo \cup {Result}
    BY <1>4, SendKinds
  <2> QED
    BY <1>2, <2>1, <2>2 DEF LimboKnown
<1>5. CASE Restart /\ phase = "sending"
  <2>1. limbo' = limbo \cup {Result} /\ runs' = runs + 1
    BY <1>5 DEF Restart
  <2>2. Result.offset = Offset /\ Result.run = runs
    BY <1>5, ResultType DEF TypeInv
  <2>3. \A s \in Results : s.run = runs => s.offset < Offset
    BY <1>5, InWorkIsNew DEF TypeInv, TypeOK
  <2>4. \A s \in Results' : s \in Results \/ s = Result
    BY <1>5, ResultsGrow DEF TypeInv
  <2>5. ASSUME NEW r, r = Result
        PROVE  LastOfRun(r)'
    <3>1. r.offset = Offset /\ r.run = runs
      BY <2>2, <2>5
    <3>2. \A s \in Results' : s.run = r.run /\ s # r => s.offset < r.offset
      BY <2>3, <2>4, <2>5, <3>1
    <3>3. r.run < runs'
      BY <1>1, <2>1, <3>1
    <3> QED
      BY <3>2, <3>3 DEF LastOfRun
  <2>6. \A r \in limbo' : r \in limbo \/ LastOfRun(r)'
    BY <2>1, <2>5
  <2> QED
    BY <1>2, <2>6 DEF LimboKnown
<1>6. CASE Restart /\ phase # "sending"
  BY <1>3, <1>6 DEF Restart
<1>7. CASE Poll \/ Rebalance
  BY <1>3, <1>7 DEF Poll, Rebalance, resultVars
<1>8. CASE LateDelivery
  BY <1>3, <1>8, LandingAt DEF TypeInv
<1> QED
  BY <1>3, <1>4, <1>5, <1>6, <1>7, <1>8, StepKinds

\* The i-th result of the topic is in order to s, which lands behind it.
Ordered(i, s) ==
  responses[i].run = s.run /\ responses[i] # s =>
    \/ responses[i].offset < s.offset
    \/ /\ s.offset < responses[i].offset
       /\ s \in unsent \/ \E k \in 1..(i - 1) : responses[k] = s

\* A result that is appended is in order if it is to every one that landed.
LEMMA OrderAppend ==
  ASSUME TypeInv, AnswersInOrder, NEW x \in ResponseTo(Len(topic)),
         responses' = Append(responses, x), unsent \subseteq unsent',
         \A i \in DOMAIN responses : Ordered(i, x)
  PROVE  AnswersInOrder'
<1>1. /\ DOMAIN responses = 1..Len(responses) /\ Len(responses) \in Nat
      /\ DOMAIN responses' = 1..(Len(responses) + 1)
      /\ \A i \in 1..Len(responses) : responses'[i] = responses[i]
      /\ responses'[Len(responses) + 1] = x
  BY LandedGrows DEF TypeInv
<1> SUFFICES ASSUME NEW j \in DOMAIN responses', NEW i \in 1..(j - 1)
             PROVE  Ordered(i, responses[j])'
  BY DEF AnswersInOrder, Ordered
<1>2. i \in 1..Len(responses) /\ \A k \in 1..(i - 1) : k \in 1..Len(responses)
  BY <1>1
<1>3. Ordered(i, responses'[j])
  <2>1. CASE j \in 1..Len(responses)
    BY <1>1, <2>1 DEF AnswersInOrder, Ordered
  <2>2. CASE j = Len(responses) + 1
    BY <1>1, <1>2, <2>2
  <2> QED
    BY <1>1, <2>1, <2>2
<1> QED
  BY <1>1, <1>2, <1>3 DEF Ordered

LEMMA OrderNext ==
  ASSUME TypeInv, ProgressInv, [Next]_vars
  PROVE  AnswersInOrder'
<1>1. CASE responses' = responses
  BY <1>1, ResultsStay DEF ProgressInv, AnswersInOrder
<1>2. CASE /\ SendResult \/ SendResultTwice \/ SendResultFails
           /\ responses' = Append(responses, Result)
  <2>1. \A i \in DOMAIN responses : Ordered(i, Result)
    <3>1. Result.offset = Offset /\ Result.run = runs
      BY <1>2, SendKinds, ResultType DEF TypeInv
    <3>2. \A r \in Results : r.run = runs => r.offset < Offset
      BY <1>2, SendKinds, InWorkIsNew DEF ProgressInv
    <3> QED
      BY <3>1, <3>2 DEF Ordered, Results, Landed
  <2> QED
    BY <1>2, <2>1, SendKinds, ResultsStay, OrderAppend DEF ProgressInv
<1>3. CASE LateDelivery
  <2>1. PICK s \in limbo : responses' = Append(responses, s)
    BY <1>3, LandingAt DEF TypeInv
  <2>2. s \in ResponseTo(Len(topic)) /\ s \in Results
    BY DEF TypeInv, TypeOK, Results
  <2>3. ASSUME NEW i \in DOMAIN responses,
               responses[i].run = s.run, responses[i] # s
        PROVE  \/ responses[i].offset < s.offset
               \/ /\ s.offset < responses[i].offset
                  /\ s \in unsent \/ \E k \in 1..(i - 1) : responses[k] = s
    <3>1. responses[i] \in Results
      BY DEF Results, Landed
    <3>2. responses[i].offset # s.offset
      BY <2>2, <2>3, <3>1 DEF ProgressInv, JudgedOnce
    <3>3. /\ responses[i].offset \in Nat /\ s.offset \in Nat
          /\ DOMAIN responses = 1..Len(responses) /\ Len(responses) \in Nat
      BY <2>1, <2>2, <3>1, ResultsType, LandedGrows DEF TypeInv
    <3>4. CASE s \in unsent
      BY <3>2, <3>3, <3>4
    <3>5. CASE LastOfRun(s)
      BY <2>3, <3>1, <3>5 DEF LastOfRun
    <3>6. CASE s \in Landed
      <4>1. PICK k \in DOMAIN responses : responses[k] = s
        BY <3>6 DEF Landed
      <4>2. CASE k < i
        BY <3>2, <3>3, <4>1, <4>2
      <4>3. CASE i < k
        <5>1. i \in 1..(k - 1)
          BY <3>3, <4>3
        <5> QED
          BY <2>3, <4>1, <5>1 DEF ProgressInv, AnswersInOrder
      <4> QED
        BY <2>3, <3>3, <4>1, <4>2, <4>3
    <3> QED
      BY <3>4, <3>5, <3>6 DEF ProgressInv, LimboKnown
  <2>4. \A i \in DOMAIN responses : Ordered(i, s)
    BY <2>3 DEF Ordered
  <2> QED
    BY <2>1, <2>2, <2>4, ResultsStay, OrderAppend DEF ProgressInv
<1>4. CASE Poll \/ Rebalance \/ Restart
  BY <1>1, <1>4 DEF Poll, Rebalance, Restart, resultVars
<1> QED
  BY <1>1, <1>2, <1>3, <1>4, StepKinds, SendKinds

LEMMA ProgressInit == Init => ProgressInv
BY DEF Init, ProgressInv, BatchRuns, BelowBatch, JudgedOnce, LimboKnown,
   AnswersInOrder, Results, Landed

LEMMA ProgressNext ==
  ASSUME TypeInv, ProgressInv, [Next]_vars
  PROVE  ProgressInv'
BY BatchNext, BelowNext, JudgedOnceNext, LimboNext, OrderNext DEF ProgressInv

\* Between two restarts or rebalances each request is judged at most once, and
\* the results are in the order of the requests, save for those whose Send threw
\* or that had been there before.
THEOREM AnswersOrdered == Spec => []AnswersInOrder
<1>1. Spec => [](TypeInv /\ ProgressInv)
  BY TypeInit, TypeNext, ProgressInit, ProgressNext, PTL DEF Spec
<1>2. ProgressInv => AnswersInOrder
  BY DEF ProgressInv
<1> QED
  BY <1>1, <1>2, PTL

LEMMA VanishInit == Init => NothingVanishes
BY DEF Init, NothingVanishes

\* What is answered, or could not be sent, stays so.
LEMMA DoneStays ==
  ASSUME TypeInv, [Next]_vars, NEW o
  PROVE  /\ Answered(o) => Answered(o)'
         /\ Unsent(o) => Unsent(o)'
<1>1. Answered(o) <=> \E r \in Landed : r.offset = o
  BY DEF Answered, Landed
<1>2. Answered(o)' <=> \E r \in Landed' : r.offset = o
  BY DEF Answered, Landed
<1> QED
  BY <1>1, <1>2, ResultsStay DEF Unsent

LEMMA VanishNext ==
  ASSUME TypeInv, NothingVanishes, [Next]_vars
  PROVE  NothingVanishes'
<1>1. /\ position \in Nat /\ batch \in Seq(1..position)
      /\ committed \in 0..position
  BY DEF TypeInv, TypeOK
<1>2. CASE UNCHANGED <<position, batch, responses, limbo, runs, unsent, passed>>
  BY <1>2, DoneStays DEF NothingVanishes
<1>3. CASE Poll
  <2>1. /\ batch = <<>> /\ UNCHANGED <<unsent, passed>>
        /\ \E n \in 1..MaxBatch : /\ batch' = [i \in 1..n |-> position + i]
                                  /\ position' = position + n
    BY <1>3 DEF Poll, ghostVars
  <2>2. PICK n \in 1..MaxBatch : /\ batch' = [i \in 1..n |-> position + i]
                                 /\ position' = position + n
    BY <2>1
  <2> SUFFICES ASSUME NEW o \in 1..position'
               PROVE  \/ \E i \in DOMAIN batch' : batch'[i] = o
                      \/ Answered(o)'
                      \/ Unsent(o)' \/ o \in passed'
    BY DEF NothingVanishes
  <2>3. CASE o <= position
    <3>1. o \in 1..position
      BY <1>1, <2>3, <2>2
    <3> QED
      BY <2>1, <3>1, DoneStays DEF NothingVanishes
  <2>4. CASE ~ (o <= position)
    <3>1. PICK k \in 1..n : o = position + k
      <4>1. o - position \in 1..n /\ o = position + (o - position)
        BY <1>1, <2>2, <2>4, BoundAssumption
      <4> QED
        BY <4>1
    <3> QED
      BY <2>2, <3>1
  <2> QED
    BY <2>3, <2>4
<1>4. CASE SendResult \/ SendResultTwice \/ SendResultFails
  <2>1. /\ batch # <<>> /\ batch' = Tail(batch) /\ phase = "sending"
        /\ UNCHANGED <<position, passed>>
    BY <1>4, SendKinds
  <2>2. \A o : o = Offset => Answered(o)' \/ Unsent(o)'
    <3>1. Result.offset = Offset /\ Result \in ResponseTo(Len(topic))
      BY <2>1, ResultType DEF TypeInv
    <3>2. CASE responses' = Append(responses, Result)
      <4>1. /\ Len(responses) + 1 \in DOMAIN responses'
            /\ responses'[Len(responses) + 1] = Result
        BY <3>1, <3>2, LandedGrows DEF TypeInv
      <4> QED
        BY <3>1, <4>1 DEF Answered
    <3>3. CASE unsent' = unsent \cup {Result}
      BY <3>1, <3>3 DEF Unsent
    <3> QED
      BY <1>4, <3>2, <3>3, SendKinds
  <2> SUFFICES ASSUME NEW o \in 1..position
               PROVE  \/ \E i \in DOMAIN batch' : batch'[i] = o
                      \/ Answered(o)'
                      \/ Unsent(o)' \/ o \in passed'
    BY <2>1 DEF NothingVanishes
  <2>3. CASE \E i \in DOMAIN batch : batch[i] = o
    <3>1. PICK i \in DOMAIN batch : batch[i] = o
      BY <2>3
    <3>2. CASE i = 1
      BY <2>2, <3>1, <3>2 DEF Offset
    <3>3. CASE i # 1
      <4>1. /\ DOMAIN batch = 1..Len(batch) /\ Len(batch) \in Nat
            /\ Len(batch') = Len(batch) - 1 /\ DOMAIN batch' = 1..Len(batch')
            /\ \A k \in 1..Len(batch') : batch'[k] = batch[k + 1]
        BY <1>1, <2>1, TailAt
      <4>2. i - 1 \in DOMAIN batch' /\ batch'[i - 1] = batch[i]
        BY <3>3, <4>1
      <4> QED
        BY <3>1, <4>2
    <3> QED
      BY <3>2, <3>3
  <2> QED
    BY <2>1, <2>3, DoneStays DEF NothingVanishes
<1>5. CASE Restart \/ Rebalance
  <2>1. /\ position' = committed /\ passed \subseteq passed'
        /\ batch' = <<>> /\ 1..committed \subseteq 1..position
    BY <1>1, <1>5 DEF Restart, Rebalance, ghostVars
  <2>2. CASE Restart
    <3>1. passed' = passed \cup {o \in 1..committed : ~ Answered(o) /\ ~ Unsent(o)}
      BY <2>2 DEF Restart
    <3> QED
      BY <2>1, <3>1, DoneStays DEF NothingVanishes
  <2>3. CASE Rebalance
    <3>1. DOMAIN batch = {}
      BY <2>3 DEF Rebalance
    <3> QED
      BY <2>1, <3>1, DoneStays DEF NothingVanishes
  <2> QED
    BY <1>5, <2>2, <2>3
<1>6. CASE LateDelivery
  <2>1. UNCHANGED <<position, batch, passed>>
    BY <1>6 DEF LateDelivery, kafkaVars, ghostVars
  <2> QED
    BY <2>1, DoneStays DEF NothingVanishes
<1> QED
  BY <1>2, <1>3, <1>4, <1>5, <1>6, StepKinds

\* No request that was handed to the callback is lost without a trace.
THEOREM NothingLost == Spec => []NothingVanishes
<1>1. Spec => [](TypeInv /\ NothingVanishes)
  BY TypeInit, TypeNext, VanishInit, VanishNext, PTL DEF Spec
<1> QED
  BY <1>1, PTL

-----------------------------------------------------------------------------
(***************************************************************************)
(* RulesService implements RuleAnswers: every step of the consumer, of the *)
(* broker, of a rebalance and of a restart is a step of RuleAnswers or     *)
(* leaves its variables alone.                                             *)
(***************************************************************************)
-----------------------------------------------------------------------------
(* The variables of RuleAnswers                                            *)

\* The invariants the refinement needs.
RefinementInv == TypeInv /\ VerdictInv /\ ProgressInv /\ NothingVanishes

LEMMA AbstractUnchanged ==
  ASSUME UNCHANGED <<position, batch, responses, limbo, unsent, passed>>
  PROVE  UNCHANGED <<Cursor, Answers, Late, Lost>>
BY DEF Cursor, Answers, Late, Lost

\* The place in the topic, as long as the invariants hold.
LEMMA CursorPlace ==
  ASSUME RefinementInv
  PROVE  /\ Cursor \in Nat
         /\ batch # <<>> => Offset = Cursor + 1 /\ Cursor < Len(topic)
<1>1. /\ batch \in Seq(1..position) /\ position \in 0..Len(topic)
      /\ Len(topic) \in Nat
      /\ \A k \in DOMAIN batch : batch[k] + Len(batch) = position + k
  BY DEF RefinementInv, TypeInv, TypeOK, ProgressInv, BatchRuns
<1>2. CASE batch = <<>>
  BY <1>1, <1>2 DEF Cursor
<1>3. CASE batch # <<>>
  <2>1. /\ 1 \in DOMAIN batch /\ Len(batch) \in Nat /\ position \in Nat
        /\ batch[1] \in 1..position
    BY <1>1, <1>3
  <2>2. batch[1] + Len(batch) = position + 1
    BY <1>1, <2>1
  <2> QED
    BY <1>1, <2>1, <2>2 DEF Cursor, Offset
<1> QED
  BY <1>2, <1>3

\* The same offsets are answered in both.
LEMMA AnsweredIffAnswered ==
  ASSUME NEW o
  PROVE  Abstract!IsAnswered(o) <=> Answered(o)
BY DEF Abstract!IsAnswered, Answered, Answers, AnswerOf

\* The answers, one for each response.
LEMMA AnswersType ==
  ASSUME TypeInv
  PROVE  /\ Answers \in Seq([offset : Nat, status : Status])
         /\ Len(responses) \in Nat /\ DOMAIN responses = 1..Len(responses)
         /\ Len(Answers) = Len(responses)
<1>1. responses \in Seq(ResponseTo(Len(topic))) /\ Len(topic) \in Nat
  BY DEF TypeInv, TypeOK
<1>2. Len(responses) \in Nat /\ DOMAIN responses = 1..Len(responses)
  BY <1>1
<1>3. \A i \in 1..Len(responses) :
        responses[i].offset \in Nat /\ responses[i].status \in Status
  <2> SUFFICES ASSUME NEW i \in 1..Len(responses)
               PROVE  responses[i].offset \in Nat /\ responses[i].status \in Status
    OBVIOUS
  <2>1. responses[i] \in ResponseTo(Len(topic))
    BY <1>1, <1>2
  <2> QED
    BY <2>1 DEF ResponseTo
<1>4. Answers \in [1..Len(responses) -> [offset : Nat, status : Status]]
  BY <1>2, <1>3 DEF Answers, AnswerOf
<1>5. \A S : \A n \in Nat : \A f \in [1..n -> S] : f \in Seq(S) /\ Len(f) = n
  OBVIOUS
<1> QED
  BY <1>2, <1>4, <1>5

\* Append, as a function.
LEMMA AppendFunction ==
  ASSUME NEW S, NEW s \in Seq(S), NEW x \in S
  PROVE  Append(s, x) = [i \in 1..(Len(s) + 1) |-> IF i \in 1..Len(s) THEN s[i] ELSE x]
<1>1. /\ Append(s, x) \in Seq(S) /\ Len(Append(s, x)) = Len(s) + 1
      /\ Len(s) \in Nat
  OBVIOUS
<1>2. ASSUME NEW i \in 1..(Len(s) + 1)
      PROVE  Append(s, x)[i] = IF i \in 1..Len(s) THEN s[i] ELSE x
  <2>1. CASE i \in 1..Len(s)
    BY <2>1
  <2>2. CASE i = Len(s) + 1
    BY <1>1, <2>2
  <2> QED
    BY <1>1, <2>1, <2>2
<1>3. \A q \in Seq(S) : q = [i \in 1..Len(q) |-> q[i]]
  OBVIOUS
<1>4. Append(s, x) = [i \in 1..(Len(s) + 1) |-> Append(s, x)[i]]
  BY <1>1, <1>3
<1> QED
  BY <1>2, <1>4

\* What a result adds to the answers.
LEMMA AnswersAppend ==
  ASSUME TypeInv, NEW r \in ResponseTo(Len(topic)), responses' = Append(responses, r)
  PROVE  Answers' = Append(Answers, AnswerOf(r))
<1>1. /\ DOMAIN responses' = 1..(Len(responses) + 1)
      /\ \A i \in 1..Len(responses) : responses'[i] = responses[i]
      /\ responses'[Len(responses) + 1] = r
  BY LandedGrows DEF TypeInv
<1>2. AnswerOf(r) \in [offset : Nat, status : Status]
  <2>1. Len(topic) \in Nat
    BY DEF TypeInv, TypeOK
  <2> QED
    BY <2>1 DEF AnswerOf, ResponseTo
<1>3. Answers' = [i \in 1..(Len(responses) + 1) |-> AnswerOf(responses'[i])]
  BY <1>1 DEF Answers, AnswerOf
<1>4. Append(Answers, AnswerOf(r)) = [i \in 1..(Len(responses) + 1) |->
        IF i \in 1..Len(responses) THEN Answers[i] ELSE AnswerOf(r)]
  <2> DEFINE S == [offset : Nat, status : Status]
             n == Len(Answers)
  <2>1. Answers \in Seq(S) /\ AnswerOf(r) \in S /\ n = Len(responses)
    BY <1>2, AnswersType
  <2> HIDE DEF S
  <2>2. Append(Answers, AnswerOf(r)) = [i \in 1..(n + 1) |->
          IF i \in 1..n THEN Answers[i] ELSE AnswerOf(r)]
    BY <2>1, AppendFunction
  <2> HIDE DEF n
  <2> QED
    BY <2>1, <2>2, Zenon
<1>5. \A i \in 1..(Len(responses) + 1) :
        AnswerOf(responses'[i]) =
          IF i \in 1..Len(responses) THEN Answers[i] ELSE AnswerOf(r)
  <2>1. Len(responses) \in Nat /\ DOMAIN responses = 1..Len(responses)
    BY AnswersType
  <2>2. \A i \in 1..Len(responses) : Answers[i] = AnswerOf(responses[i])
    BY <2>1 DEF Answers
  <2>3. \A i \in 1..(Len(responses) + 1) :
          i \in 1..Len(responses) \/ i = Len(responses) + 1
    BY <2>1
  <2> QED
    BY <1>1, <2>1, <2>2, <2>3
<1> QED
  BY <1>3, <1>4, <1>5

-----------------------------------------------------------------------------
(* Steps                                                                   *)

LEMMA AnswersInit == Init => Abstract!RuleAnswersInit
<1> SUFFICES ASSUME Init PROVE Abstract!RuleAnswersInit
  OBVIOUS
<1>1. topic = <<>> /\ Cursor = 0 /\ Late = {} /\ Lost = {}
  <2>1. /\ topic = <<>> /\ position = 0 /\ batch = <<>>
        /\ limbo = {} /\ unsent = {} /\ passed = {}
    BY DEF Init
  <2>2. Len(batch) = 0
    BY <2>1
  <2>3. Cursor = 0
    <3>1. position \in Int /\ Len(batch) \in Int /\ position = Len(batch)
      BY <2>1, <2>2
    <3> QED
      BY <3>1 DEF Cursor
  <2>4. Late = {} /\ Lost = {}
    BY <2>1 DEF Late, Lost
  <2> QED
    BY <2>1, <2>3, <2>4
<1>2. Answers = <<>>
  <2>1. Answers \in Seq([offset : Nat, status : Status]) /\ Len(Answers) = Len(responses)
    BY TypeInit, AnswersType
  <2>2. responses = <<>>
    BY DEF Init
  <2>3. Len(Answers) = 0
    BY <2>1, <2>2
  <2> QED
    BY <2>1, <2>3
<1> QED
  BY <1>1, <1>2 DEF Abstract!RuleAnswersInit

\* The result of the message in work is one of the judgements it may get.
LEMMA ResultJudges ==
  ASSUME RefinementInv, phase = "sending"
  PROVE  /\ AnswerOf(Result) = [offset |-> Cursor + 1, status |-> status]
         /\ AnswerOf(Result) \in Abstract!Judgements
         /\ Offset = Cursor + 1 /\ Cursor < Len(topic) /\ Cursor \in Nat
<1>1. batch # <<>> /\ status \in Status
  BY DEF RefinementInv, TypeInv, TypeOK
<1>2. Offset = Cursor + 1 /\ Cursor < Len(topic) /\ Cursor \in Nat
  BY <1>1, CursorPlace
<1>3. AnswerOf(Result) = [offset |-> Cursor + 1, status |-> status]
  BY <1>2, ResultType DEF AnswerOf, RefinementInv, TypeInv
<1>4. status # "ERROR" => topic[Cursor + 1] \in {m \in Request : m.body = m.rule_type}
  BY <1>2 DEF RefinementInv, VerdictInv, Justified, Message
<1>5. status \in {"ERROR"} \cup
        (IF topic[Cursor + 1] \in {m \in Request : m.body = m.rule_type}
         THEN Status \ {"ERROR"} ELSE {})
  BY <1>1, <1>4
<1> QED
  BY <1>2, <1>3, <1>5 DEF Abstract!Judgements

\* What a new result on its way adds to the late answers.
LEMMA LateGrows ==
  ASSUME NEW r, limbo' = limbo \cup {r}
  PROVE  Late' = Late \cup {AnswerOf(r)}
BY DEF Late, AnswerOf

\* A result that is sent, or not sent, moves the place on by one.
LEMMA RefineSend ==
  ASSUME RefinementInv, SendResult \/ SendResultTwice \/ SendResultFails
  PROVE  Abstract!Answer \/ Abstract!Lose
<1>1. /\ batch # <<>> /\ batch' = Tail(batch) /\ phase = "sending"
      /\ UNCHANGED <<topic, position, passed>>
      /\ Result \in ResponseTo(Len(topic))
  BY SendKinds DEF RefinementInv
<1>2. /\ AnswerOf(Result) \in Abstract!Judgements
      /\ Offset = Cursor + 1 /\ Cursor < Len(topic)
      /\ Result.offset = Offset
  BY <1>1, ResultJudges, ResultType DEF RefinementInv, TypeInv
<1>3. Cursor' = Cursor + 1
  <2>1. batch \in Seq(1..position) /\ position \in Nat /\ Len(batch) \in Nat
    BY DEF RefinementInv, TypeInv, TypeOK
  <2>2. Len(batch') = Len(batch) - 1
    BY <1>1, <2>1, TailAt
  <2> QED
    BY <1>1, <2>1, <2>2 DEF Cursor
<1>4. CASE /\ responses' = Append(responses, Result)
           /\ limbo' \in {limbo, limbo \cup {Result}}
           /\ unsent' = unsent
  <2>1. Answers' = Append(Answers, AnswerOf(Result))
    BY <1>1, <1>4, AnswersAppend DEF RefinementInv
  <2>2. Late' \in {Late, Late \cup {AnswerOf(Result)}}
    <3>1. limbo' = limbo => Late' = Late
      BY DEF Late, AnswerOf
    <3> QED
      BY <1>4, <3>1, LateGrows
  <2>3. Lost' = Lost
    BY <1>1, <1>4 DEF Lost
  <2> QED
    BY <1>1, <1>2, <1>3, <2>1, <2>2, <2>3 DEF Abstract!Answer
<1>5. CASE /\ responses' = responses
           /\ limbo' = limbo \cup {Result}
           /\ unsent' = unsent \cup {Result}
  <2>1. Answers' = Answers
    BY <1>5 DEF Answers, AnswerOf
  <2>2. Late' = Late \cup {AnswerOf(Result)}
    BY <1>5, LateGrows
  <2>3. Lost' = Lost \cup {Cursor + 1}
    BY <1>1, <1>2, <1>5 DEF Lost
  <2> QED
    BY <1>1, <1>2, <1>3, <2>1, <2>2, <2>3 DEF Abstract!Lose
<1> QED
  BY <1>4, <1>5, SendKinds DEF RefinementInv

\* A result that lands is an answer that does.
LEMMA RefineLanding ==
  ASSUME RefinementInv, LateDelivery
  PROVE  Abstract!Land
<1>1. PICK r \in limbo : /\ responses' = Append(responses, r)
                         /\ limbo' \in {limbo, limbo \ {r}}
  BY LandingAt DEF RefinementInv, TypeInv
<1>2. r \in ResponseTo(Len(topic)) /\ AnswerOf(r) \in Late
  BY DEF RefinementInv, TypeInv, TypeOK, Late
<1>3. Answers' = Append(Answers, AnswerOf(r))
  BY <1>1, <1>2, AnswersAppend DEF RefinementInv
<1>4. Late' \in {Late, Late \ {AnswerOf(r)}}
  <2>1. Late' \subseteq Late /\ Late \ {AnswerOf(r)} \subseteq Late'
    BY <1>1 DEF Late
  <2> QED
    BY <2>1
<1>5. topic' = topic /\ Cursor' = Cursor /\ Lost' = Lost
  BY DEF LateDelivery, kafkaVars, ghostVars, Cursor, Lost
<1> QED
  BY <1>2, <1>3, <1>4, <1>5 DEF Abstract!Land

\* A restart goes on from the committed offset, and leaves the result it was
\* sending on its way.
LEMMA RefineRestart ==
  ASSUME RefinementInv, Restart
  PROVE  Abstract!Reseek
<1>1. /\ position' = committed /\ batch' = <<>>
      /\ UNCHANGED <<topic, responses, unsent>>
      /\ passed' = passed \cup {o \in 1..committed : ~ Answered(o) /\ ~ Unsent(o)}
  BY DEF Restart
<1>2. committed \in 0..Len(topic)
  BY DEF RefinementInv, TypeInv, TypeOK
<1>3. Cursor' = committed
  BY <1>1, <1>2 DEF Cursor
<1>4. Lost' = Lost \cup {o \in 1..committed : ~ Abstract!IsAnswered(o)}
  BY <1>1, AnsweredIffAnswered DEF Lost, Unsent
<1>5. Answers' = Answers
  BY <1>1 DEF Answers, AnswerOf
<1>6. \/ Late' = Late
      \/ /\ Cursor < Len(topic)
         /\ \E a \in Abstract!Judgements : Late' = Late \cup {a}
  <2>1. CASE phase = "sending"
    BY <2>1, ResultJudges, LateGrows DEF Restart
  <2>2. CASE phase # "sending"
    BY <2>2 DEF Restart, Late, AnswerOf
  <2> QED
    BY <2>1, <2>2
<1> QED
  BY <1>1, <1>2, <1>3, <1>4, <1>5, <1>6 DEF Abstract!Reseek

\* So does a rebalance, which passes over nothing: between two batches every
\* request that was handed over is answered or lost.
LEMMA RefineRebalance ==
  ASSUME RefinementInv, Rebalance
  PROVE  Abstract!Reseek
<1>1. /\ position' = committed /\ batch = <<>> /\ batch' = <<>>
      /\ UNCHANGED <<topic, responses, limbo, unsent, passed>>
  BY DEF Rebalance, resultVars, ghostVars
<1>2. /\ committed \in 0..Len(topic) /\ committed \in 0..position
      /\ position \in Nat
  BY DEF RefinementInv, TypeInv, TypeOK
<1>3. Cursor' = committed
  BY <1>1, <1>2 DEF Cursor
<1>4. {o \in 1..committed : ~ Abstract!IsAnswered(o)} \subseteq Lost
  <2> SUFFICES ASSUME NEW o \in 1..committed, ~ Answered(o) PROVE o \in Lost
    BY AnsweredIffAnswered
  <2>1. o \in 1..position /\ DOMAIN batch = {}
    BY <1>1, <1>2
  <2> QED
    BY <2>1 DEF RefinementInv, NothingVanishes, Unsent, Lost
<1>5. UNCHANGED <<Answers, Late, Lost>>
  BY <1>1 DEF Answers, Late, Lost, AnswerOf
<1>6. Lost' = Lost \cup {o \in 1..committed : ~ Abstract!IsAnswered(o)}
  BY <1>4, <1>5
<1> QED
  BY <1>1, <1>2, <1>3, <1>5, <1>6 DEF Abstract!Reseek

\* A batch handed over leaves the place where it was.
LEMMA RefinePoll ==
  ASSUME RefinementInv, Poll
  PROVE  UNCHANGED Abstract!ruleAnswersVars
<1>1. /\ batch = <<>> /\ UNCHANGED <<topic, responses, limbo, unsent, passed>>
      /\ \E n \in 1..MaxBatch : /\ batch' = [i \in 1..n |-> position + i]
                                /\ position' = position + n
  BY DEF Poll, resultVars, ghostVars
<1>2. PICK n \in 1..MaxBatch : /\ batch' = [i \in 1..n |-> position + i]
                               /\ position' = position + n
  BY <1>1
<1>3. Len(batch') = n /\ n \in Nat /\ position \in Nat /\ Len(batch) = 0
  BY <1>1, <1>2, BoundAssumption DEF RefinementInv, TypeInv, TypeOK
<1>4. Cursor' = Cursor
  BY <1>2, <1>3 DEF Cursor
<1> QED
  BY <1>1, <1>4 DEF Abstract!ruleAnswersVars, Answers, AnswerOf, Late, Lost

\* Every step maps to a step of RuleAnswers or to none.
LEMMA RefineNext ==
  ASSUME RefinementInv, [Next]_vars
  PROVE  [Abstract!RuleAnswersNext]_Abstract!ruleAnswersVars
<1>1. CASE Publish
  <2>1. UNCHANGED <<position, batch, responses, limbo, unsent, passed>>
    BY <1>1 DEF Publish, resultVars, ghostVars
  <2>2. Abstract!Ask
    BY <1>1, <2>1, AbstractUnchanged DEF Publish, Abstract!Ask
  <2> QED
    BY <2>2 DEF Abstract!RuleAnswersNext
<1>2. CASE SendResult \/ SendResultTwice \/ SendResultFails
  BY <1>2, RefineSend DEF Abstract!RuleAnswersNext
<1>3. CASE Restart \/ Rebalance
  BY <1>3, RefineRestart, RefineRebalance DEF Abstract!RuleAnswersNext
<1>4. CASE Poll
  BY <1>4, RefinePoll
<1>5. CASE LateDelivery
  BY <1>5, RefineLanding DEF Abstract!RuleAnswersNext
<1>6. CASE ~ \/ Publish \/ SendResult \/ SendResultTwice \/ SendResultFails
             \/ Restart \/ Rebalance \/ Poll \/ LateDelivery
  <2>1. topic' = topic
    BY <1>6 DEF Next, ProcessStep, AutoCommit, Drained, ParseFails,
         ParseSucceeds, SaveSucceeds, SaveFails, LoadModelFails,
         LoadModelSucceeds, Predict, ApplyRule, kafkaVars, vars
  <2>2. UNCHANGED <<position, batch, responses, limbo, unsent, passed>>
    BY <1>6, StepKinds
  <2> QED
    BY <2>1, <2>2, AbstractUnchanged DEF Abstract!ruleAnswersVars
<1> QED
  BY <1>1, <1>2, <1>3, <1>4, <1>5, <1>6

\* The consumer, with its batches, its commits ahead of the work, its swallowed
\* failures, its rebalances and its restarts, and with results that land late or
\* twice, does no more than RuleAnswers allows: requests are done with one by one,
\* in order, and what lands late is an answer that was given.
THEOREM RulesServiceImplementsRuleAnswers == Spec => Implements
<1>1. Spec => []RefinementInv
  <2>1. Init => RefinementInv
    BY TypeInit, VerdictInit, ProgressInit, VanishInit DEF RefinementInv
  <2>2. RefinementInv /\ [Next]_vars => RefinementInv'
    BY TypeNext, VerdictNext, ProgressNext, VanishNext DEF RefinementInv
  <2> QED
    BY <2>1, <2>2, PTL DEF Spec
<1> QED
  BY <1>1, AnswersInit, RefineNext, PTL
  DEF Spec, Implements, Abstract!RuleAnswersSpec

=============================================================================
