---------------------------- MODULE FraudPipeline ----------------------------
(***************************************************************************)
(* From a POST at the gateway to the results of its rules: the gateway     *)
(* (ApiGateWay/main.py), the director as FanOut promises it, the request   *)
(* topic, and the rules service as RuleAnswers promises it.                *)
(*                                                                         *)
(* Each post is a call of its own: a client that posts a transaction again *)
(* after a 503 makes another call.                                         *)
(***************************************************************************)
EXTENDS Integers, Sequences, FiniteSets

CONSTANTS
  Call,       \* the posts
  Body,       \* Body[c]: the amount, and whether the other fields parse
  Profile,    \* the profiles; their rules say whether they can be applied
  Version,    \* the sets of profiles that are pushed
  Verdict,    \* what a rule can say
  NoView,     \* a call the director has not taken
  MaxPushes,  \* bound on the pushes
  MaxFaults   \* bound on the deaths and failures of both services together

ASSUME PipelineAssumption ==
  /\ Body \in [Call -> [amount : Int, well_formed : BOOLEAN]]
  /\ \A p \in Profile : p.rules \in Seq([sound : BOOLEAN])
  /\ Version \subseteq SUBSET Profile
  /\ \A version \in SUBSET Profile : version # NoView
  /\ "ERROR" \notin Verdict
  /\ MaxPushes \in Nat /\ MaxFaults \in Nat

VARIABLES
  http,                                \* what the client of each post has
  current, view, given_up, emitted,    \* FanOut
  cursor, answers, late, lost,         \* RuleAnswers, on the topic emitted
  pushes, faults,
  repeats         \* deaths and rebalances of the rules service, and results
                  \* that may reach their topic twice

fanOut == <<current, view, given_up>>
ruleAnswers == <<cursor, answers, late, lost>>
vars == <<http, fanOut, emitted, ruleAnswers, pushes, faults, repeats>>

RuleOf(p) == 0..(Len(p.rules) - 1)

Asked == UNION {{<<c, p, n>> : n \in RuleOf(p)} : c \in Call, p \in Profile}

\* The requests a rule can be applied to.
Judgeable == {r \in Asked : r[2].rules[r[3] + 1].sound}

Director == INSTANCE FanOut
Rules == INSTANCE RuleAnswers WITH
  requests <- emitted, Request <- Asked

Init ==
  /\ http = [c \in Call |-> "idle"]
  /\ Director!FanOutInit /\ Rules!RuleAnswersInit
  /\ pushes = 0 /\ faults = 0 /\ repeats = 0

Fault == faults < MaxFaults /\ faults' = faults + 1

\* A fault after which a request may be judged, or a result come, once more.
Again == Fault /\ repeats' = repeats + 1

-----------------------------------------------------------------------------
(* The gateway                                                             *)

\* MUTANT: an amount of zero passes.
ValidatedZero(c) == Body[c].amount >= 0 /\ Body[c].well_formed

\* TransactionModel: the enumerations, the timestamp, amount_must_be_positive.
Validated(c) == Body[c].amount > 0 /\ Body[c].well_formed

\* 422, or the call to the director; there is no deadline.
Post(c) ==
  /\ http[c] = "idle"
  /\ http' = [http EXCEPT ![c] = IF Validated(c) THEN "forwarded" ELSE "rejected"]
  /\ UNCHANGED <<fanOut, emitted, ruleAnswers, pushes, faults, repeats>>

\* MUTANT: the call is not awaited.
HasAnsweredAlways(c) == TRUE

HasAnswered(c) == view[c] # NoView

\* The director answers, and the client gets 200.
Accept(c) ==
  /\ http[c] = "forwarded" /\ HasAnswered(c)
  /\ http' = [http EXCEPT ![c] = "accepted"]
  /\ UNCHANGED <<fanOut, emitted, ruleAnswers, pushes, faults, repeats>>

\* Any error of the call is 503, whether the director took it or not.
Unavailable(c) ==
  /\ http[c] = "forwarded"
  /\ http' = [http EXCEPT ![c] = "unavailable"]
  /\ UNCHANGED <<fanOut, emitted, ruleAnswers, pushes, faults, repeats>>

-----------------------------------------------------------------------------
(* The director                                                            *)

Push ==
  /\ pushes < MaxPushes
  /\ pushes' = pushes + 1
  /\ Director!Replace /\ current' \in Version
  /\ UNCHANGED <<http, ruleAnswers, faults, repeats>>

\* The call is taken; it may arrive after the gateway has given it up.
Take(c) ==
  /\ http[c] \in {"forwarded", "unavailable"}
  /\ Director!Bind(c)
  /\ UNCHANGED <<http, ruleAnswers, pushes, faults, repeats>>

\* MUTANT: a request is put on the topic again.
DispatchAgain(c, p) ==
  /\ Director!InView(c, p)
  /\ \E n \in RuleOf(p) : emitted' = Append(emitted, <<c, p, n>>)
  /\ UNCHANGED <<http, fanOut, ruleAnswers, pushes, faults, repeats>>

\* A request of the director is a request of the rules service.
Dispatch(c, p) ==
  /\ Director!Emit(c, p) /\ Rules!Ask
  /\ UNCHANGED <<http, pushes, faults, repeats>>

GiveUp(c, p) ==
  /\ Fault
  /\ Director!GiveUp(c, p)
  /\ UNCHANGED <<http, ruleAnswers, pushes, repeats>>

DirectorDies ==
  /\ Fault
  /\ Director!Crash
  /\ UNCHANGED <<http, ruleAnswers, pushes, repeats>>

-----------------------------------------------------------------------------
(* The rules service                                                       *)

\* MUTANT: a result that could not be made is skipped in silence.
ProcessSkipping ==
  /\ cursor < Len(emitted)
  /\ Rules!Answer \/ UNCHANGED answers
  /\ cursor' = cursor + 1
  /\ UNCHANGED <<http, fanOut, emitted, late, lost, pushes, faults, repeats>>

\* A result is sent once, or twice because nothing acknowledged it, or its Send
\* throws.
Process ==
  /\ \/ Rules!Answer /\ UNCHANGED <<late, faults, repeats>>
     \/ Rules!Answer /\ Again
     \/ Rules!Lose /\ Fault /\ UNCHANGED repeats
  /\ UNCHANGED <<http, fanOut, pushes>>

\* MUTANT: the service goes on behind the end of the topic.
RulesServiceDiesAhead ==
  /\ Again
  /\ cursor' = Len(emitted) + 1
  /\ UNCHANGED <<http, fanOut, emitted, answers, late, lost, pushes>>

\* The process dies, or its group is rebalanced.
RulesServiceDies ==
  /\ Again
  /\ Rules!Reseek
  /\ UNCHANGED <<http, fanOut, pushes>>

\* A result whose Send was not acknowledged reaches its topic, and may do so
\* again.
ResultLands ==
  /\ Rules!Land
  /\ \/ late' # late /\ UNCHANGED <<faults, repeats>>
     \/ late' = late /\ Again
  /\ UNCHANGED <<http, fanOut, pushes>>

\* Every post is answered and every request is done with.
Quiescent ==
  /\ \A c \in Call : http[c] \in {"rejected", "accepted", "unavailable"}
  /\ cursor = Len(emitted)
  /\ UNCHANGED vars

Next ==
  \/ \E c \in Call : Post(c) \/ Accept(c) \/ Unavailable(c) \/ Take(c)
  \/ \E c \in Call, p \in Profile : Dispatch(c, p) \/ GiveUp(c, p)
  \/ Push \/ Process \/ DirectorDies \/ RulesServiceDies \/ ResultLands
  \/ Quiescent

Spec == Init /\ [][Next]_vars

\* A profile goes on being dispatched until it is complete or given up.
Dispatching(c, p) == p \notin given_up[c] /\ (Dispatch(c, p) \/ GiveUp(c, p))

\* What the two services were shown to do: Director!DispatchEnds and
\* RulesService!EveryRequestServed.  Nothing is assumed of gateway and clients.
FairSpec ==
  /\ Spec
  /\ \A c \in Call, p \in Profile : WF_vars(Dispatching(c, p))
  /\ WF_vars(Process)

-----------------------------------------------------------------------------
(* Properties                                                              *)

\* Every variable keeps its type.
TypeOK ==
  /\ http \in [Call -> {"idle", "rejected", "forwarded", "accepted", "unavailable"}]
  /\ current \in SUBSET Profile
  /\ view \in [Call -> {NoView} \cup SUBSET Profile]
  /\ given_up \in [Call -> SUBSET Profile]
  /\ emitted \in Seq(Asked)
  /\ cursor \in 0..Len(emitted)
  /\ answers \in Seq([offset : 1..Len(emitted), status : {"ERROR"} \cup Verdict])
  /\ late \in SUBSET [offset : 1..Len(emitted), status : {"ERROR"} \cup Verdict]
  /\ lost \in SUBSET (1..Len(emitted))
  /\ pushes \in Nat /\ faults \in Nat /\ repeats \in Nat

\* Every result belongs to a post that was valid and was forwarded, and to a
\* rule of the version that post was bound to, whatever was pushed in between;
\* if it is a verdict, the rule could be applied.
ResultsTraceable ==
  \A i \in DOMAIN answers :
    LET request == emitted[answers[i].offset]
        c == request[1]
        p == request[2]
        n == request[3] IN
    /\ Body[c].amount > 0 /\ Body[c].well_formed
    /\ http[c] \in {"forwarded", "accepted", "unavailable"}
    /\ Director!InView(c, p) /\ n \in RuleOf(p)
    /\ answers[i].status # "ERROR" => p.rules[n + 1].sound

\* One post gets one result per rule, and at the most one more per death or
\* rebalance of the rules service and per result that is sent twice: a death of
\* the director, a push, a 503, a request or a result that lands late add none.
OneResultPerRule ==
  \A c \in Call, p \in Profile : \A n \in RuleOf(p) :
    Cardinality({i \in DOMAIN answers : emitted[answers[i].offset] = <<c, p, n>>})
      <= repeats + 1

\* A rule is done with when its request is on the topic and was answered or
\* lost.
DoneWith(c, p, n) ==
  \E o \in DOMAIN emitted :
    emitted[o] = <<c, p, n>> /\ (Rules!IsAnswered(o) \/ o \in lost)

\* When the topic has been read to its end, every rule of a profile that was
\* dispatched completely is done with: no order of deaths, commits and late
\* requests leaves one behind unnoticed.
ReadMeansJudged ==
  cursor = Len(emitted) =>
    \A c \in Call, p \in Profile :
      Director!InView(c, p) /\ Director!Complete(c, p) =>
        \A n \in RuleOf(p) : DoneWith(c, p, n)

\* In the end a post that was answered with 200 is bound to a version, and all
\* rules of that version are done with for good, except those of a profile that
\* was given up.
AcceptedIsJudged ==
  <>[](\A c \in Call :
         http[c] = "accepted" =>
           /\ view[c] # NoView
           /\ \A p \in view[c] :
                p \in given_up[c] \/ \A n \in RuleOf(p) : DoneWith(c, p, n))

=============================================================================
