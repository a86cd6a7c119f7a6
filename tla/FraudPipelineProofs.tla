------------------------- MODULE FraudPipelineProofs -------------------------
(***************************************************************************)
(* Proofs about FraudPipeline, for any posts, profiles and pushes, any     *)
(* number of failures and of deaths of either service: every result can be *)
(* traced to a valid post and to a rule of the version it was bound to,    *)
(* once the topic is read no rule is left behind, and a rule has one       *)
(* result, or one more per death, rebalance and repeated result.           *)
(***************************************************************************)
EXTENDS FraudPipeline, FiniteSetTheorems, TLAPS

Forwarded == {"forwarded", "accepted", "unavailable"}

-----------------------------------------------------------------------------
(* The sequences                                                           *)

\* What Append leaves in place and what it adds.
LEMMA AppendAt ==
  ASSUME NEW S, NEW s \in Seq(S), NEW x \in S
  PROVE  /\ Append(s, x) \in Seq(S)
         /\ Len(Append(s, x)) = Len(s) + 1 /\ Len(s) \in Nat
         /\ DOMAIN s = 1..Len(s) /\ DOMAIN Append(s, x) = 1..(Len(s) + 1)
         /\ \A i \in 1..Len(s) : Append(s, x)[i] = s[i]
         /\ Append(s, x)[Len(s) + 1] = x
OBVIOUS

\* A sequence over a set is one over any larger set.
LEMMA SeqMonotone ==
  ASSUME NEW S, NEW T, S \subseteq T, NEW s \in Seq(S)
  PROVE  s \in Seq(T)
OBVIOUS

\* The number of a rule is a natural number, and its request one of those asked.
LEMMA RuleOfType ==
  ASSUME NEW c \in Call, NEW p \in Profile, NEW n \in RuleOf(p)
  PROVE  /\ n \in Nat /\ n + 1 \in 1..Len(p.rules)
         /\ <<c, p, n>> \in Asked
<1>1. Len(p.rules) \in Nat
  BY PipelineAssumption
<1>2. n \in Nat /\ n + 1 \in 1..Len(p.rules)
  BY <1>1 DEF RuleOf
<1>3. <<c, p, n>> \in Asked
  <2> DEFINE Here == {<<c, p, k>> : k \in RuleOf(p)}
             All == {{<<d, q, k>> : k \in RuleOf(q)} : d \in Call, q \in Profile}
  <2>1. <<c, p, n>> \in Here
    OBVIOUS
  <2>2. Here \in All
    OBVIOUS
  <2>3. Asked = UNION All
    BY DEF Asked
  <2> HIDE DEF Here, All
  <2> QED
    BY <2>1, <2>2, <2>3
<1> QED
  BY <1>2, <1>3

\* Conversely, a request on the topic is one of a rule of a profile.
LEMMA AskedParts ==
  ASSUME NEW r \in Asked
  PROVE  /\ r[1] \in Call /\ r[2] \in Profile /\ r[3] \in RuleOf(r[2])
         /\ r = <<r[1], r[2], r[3]>>
BY DEF Asked

-----------------------------------------------------------------------------
(* Types                                                                   *)

AnswerTo(n) == [offset : 1..n, status : {"ERROR"} \cup Verdict]

LEMMA TypeInit == Init => TypeOK
<1> SUFFICES ASSUME Init PROVE TypeOK
  OBVIOUS
<1>1. /\ http = [c \in Call |-> "idle"] /\ current = {}
      /\ view = [c \in Call |-> NoView] /\ given_up = [c \in Call |-> {}]
      /\ emitted = <<>> /\ cursor = 0 /\ answers = <<>> /\ late = {} /\ lost = {}
      /\ pushes = 0 /\ faults = 0 /\ repeats = 0
  BY DEF Init, Director!FanOutInit, Rules!RuleAnswersInit
<1>2. \A S : <<>> \in Seq(S)
  OBVIOUS
<1>3. Len(emitted) = 0 /\ cursor \in 0..Len(emitted)
  BY <1>1
<1> QED
  BY <1>1, <1>2, <1>3 DEF TypeOK

\* The steps of the gateway.
LEMMA TypeGateway ==
  ASSUME TypeOK, NEW c \in Call, Post(c) \/ Accept(c) \/ Unavailable(c)
  PROVE  TypeOK'
<1>1. /\ UNCHANGED <<fanOut, emitted, ruleAnswers, pushes, faults, repeats>>
      /\ \E h \in {"rejected"} \cup Forwarded : http' = [http EXCEPT ![c] = h]
  BY DEF Post, Accept, Unavailable, Forwarded
<1> QED
  BY <1>1 DEF TypeOK, Forwarded, fanOut, ruleAnswers

\* The steps of the director.
LEMMA TypeDirector ==
  ASSUME TypeOK,
         \/ Push \/ DirectorDies \/ \E c \in Call : Take(c)
         \/ \E c \in Call, p \in Profile : Dispatch(c, p) \/ GiveUp(c, p)
  PROVE  TypeOK'
<1> USE DEF ruleAnswers
<1>1. CASE Push
  BY <1>1, PipelineAssumption DEF Push, Director!Replace, TypeOK
<1>2. CASE DirectorDies
  <2>1. /\ current' = {} /\ faults' \in Nat
        /\ \E running \in SUBSET {c \in Call : view[c] # NoView} :
             given_up' = [c \in Call |-> IF c \in running THEN view[c] ELSE given_up[c]]
        /\ UNCHANGED <<http, view, emitted, ruleAnswers, pushes, repeats>>
    <3>1. faults' \in Nat
      BY <1>2 DEF DirectorDies, Fault, TypeOK
    <3>2. Director!Crash
      BY <1>2 DEF DirectorDies
    <3>3. UNCHANGED <<http, ruleAnswers, pushes, repeats>>
      BY <1>2 DEF DirectorDies
    <3> QED
      BY <3>1, <3>2, <3>3 DEF Director!Crash
  <2>2. PICK running \in SUBSET {c \in Call : view[c] # NoView} :
          given_up' = [c \in Call |-> IF c \in running THEN view[c] ELSE given_up[c]]
    BY <2>1
  <2>3. \A c \in Call : (IF c \in running THEN view[c] ELSE given_up[c]) \in SUBSET Profile
    <3> SUFFICES ASSUME NEW c \in Call
                 PROVE  (IF c \in running THEN view[c] ELSE given_up[c]) \in SUBSET Profile
      OBVIOUS
    <3>1. view[c] \in {NoView} \cup SUBSET Profile /\ given_up[c] \in SUBSET Profile
      BY DEF TypeOK
    <3>2. c \in running => view[c] # NoView
      OBVIOUS
    <3> QED
      BY <3>1, <3>2
  <2>4. given_up' \in [Call -> SUBSET Profile]
    BY <2>2, <2>3
  <2> QED
    BY <2>1, <2>4 DEF TypeOK
<1>3. ASSUME NEW c \in Call, Take(c) PROVE TypeOK'
  BY <1>3 DEF Take, Director!Bind, TypeOK
<1>4. ASSUME NEW c \in Call, NEW p \in Profile, GiveUp(c, p) PROVE TypeOK'
  BY <1>4, PipelineAssumption DEF GiveUp, Fault, Director!GiveUp, TypeOK
<1>5. ASSUME NEW c \in Call, NEW p \in Profile, Dispatch(c, p) PROVE TypeOK'
  <2>1. /\ \E r \in Asked : emitted' = Append(emitted, r)
        /\ UNCHANGED <<http, current, view, given_up, ruleAnswers, pushes, faults, repeats>>
    BY <1>5 DEF Dispatch, Director!Emit, Rules!Ask
  <2>2. emitted' \in Seq(Asked) /\ Len(emitted') = Len(emitted) + 1 /\ Len(emitted) \in Nat
    BY <2>1, AppendAt DEF TypeOK
  <2>3. AnswerTo(Len(emitted)) \subseteq AnswerTo(Len(emitted'))
    BY <2>2 DEF AnswerTo
  <2>4. answers \in Seq(AnswerTo(Len(emitted'))) /\ late \subseteq AnswerTo(Len(emitted'))
    BY <2>3, SeqMonotone DEF TypeOK, AnswerTo
  <2> QED
    BY <2>1, <2>2, <2>4 DEF TypeOK, AnswerTo
<1> QED
  BY <1>1, <1>2, <1>3, <1>4, <1>5

\* What may be said of the next request.
LEMMA JudgementType ==
  ASSUME TypeOK, cursor < Len(emitted), NEW a \in Rules!Judgements
  PROVE  /\ a \in AnswerTo(Len(emitted)) /\ a.offset = cursor + 1
         /\ a.status # "ERROR" => emitted[a.offset] \in Judgeable
<1>1. cursor + 1 \in 1..Len(emitted)
  BY DEF TypeOK
<1>2. a.offset = cursor + 1
  BY DEF Rules!Judgements
<1>3. a.status # "ERROR" => emitted[cursor + 1] \in Judgeable
  BY DEF Rules!Judgements
<1>4. a \in AnswerTo(Len(emitted))
  BY <1>1 DEF Rules!Judgements, AnswerTo
<1> QED
  BY <1>2, <1>3, <1>4

\* The steps of the rules service.
LEMMA TypeRules ==
  ASSUME TypeOK, Process \/ RulesServiceDies \/ ResultLands
  PROVE  TypeOK'
<1>1. /\ Len(emitted) \in Nat /\ cursor \in 0..Len(emitted)
      /\ answers \in Seq(AnswerTo(Len(emitted))) /\ late \subseteq AnswerTo(Len(emitted))
      /\ lost \subseteq 1..Len(emitted)
  BY DEF TypeOK, AnswerTo
<1>2. UNCHANGED <<http, fanOut, emitted, pushes>> /\ faults' \in Nat /\ repeats' \in Nat
  BY DEF Process, RulesServiceDies, ResultLands, Rules!Answer, Rules!Lose,
     Rules!Reseek, Rules!Land, Again, Fault, TypeOK
<1>3. CASE RulesServiceDies
  <2>1. PICK c \in 0..Len(emitted) :
          cursor' = c /\ lost' = lost \cup {o \in 1..c : ~ Rules!IsAnswered(o)}
    BY <1>3 DEF RulesServiceDies, Rules!Reseek
  <2>2. lost' \in SUBSET (1..Len(emitted))
    <3>1. 1..c \subseteq 1..Len(emitted)
      BY <1>1, <2>1
    <3> QED
      BY <1>1, <2>1, <3>1
  <2>3. late' \subseteq AnswerTo(Len(emitted))
    BY <1>1, <1>3, JudgementType DEF RulesServiceDies, Rules!Reseek
  <2>4. UNCHANGED answers
    BY <1>3 DEF RulesServiceDies, Rules!Reseek
  <2> QED
    BY <1>2, <2>1, <2>2, <2>3, <2>4 DEF TypeOK, AnswerTo, fanOut
<1>4. CASE Process
  <2>1. /\ cursor < Len(emitted) /\ cursor' = cursor + 1
        /\ lost' \in {lost, lost \cup {cursor + 1}}
        /\ \E a \in Rules!Judgements : /\ answers' \in {answers, Append(answers, a)}
                                      /\ late' \in {late, late \cup {a}}
    BY <1>4 DEF Process, Rules!Answer, Rules!Lose
  <2>2. cursor + 1 \in 1..Len(emitted)
    BY <1>1, <2>1
  <2>3. PICK a \in Rules!Judgements : /\ answers' \in {answers, Append(answers, a)}
                                     /\ late' \in {late, late \cup {a}}
    BY <2>1
  <2>4. a \in AnswerTo(Len(emitted))
    BY <2>1, JudgementType
  <2>5. answers' \in Seq(AnswerTo(Len(emitted))) /\ late' \subseteq AnswerTo(Len(emitted))
    BY <1>1, <2>3, <2>4, AppendAt
  <2> QED
    BY <1>1, <1>2, <2>1, <2>2, <2>5 DEF TypeOK, AnswerTo, fanOut
<1>5. CASE ResultLands
  <2>1. /\ \E a \in late : answers' = Append(answers, a) /\ late' \subseteq late
        /\ UNCHANGED <<cursor, lost>>
    BY <1>5 DEF ResultLands, Rules!Land
  <2>2. answers' \in Seq(AnswerTo(Len(emitted))) /\ late' \subseteq AnswerTo(Len(emitted))
    BY <1>1, <2>1, AppendAt
  <2> QED
    BY <1>2, <2>1, <2>2 DEF TypeOK, AnswerTo, fanOut
<1> QED
  BY <1>3, <1>4, <1>5

LEMMA TypeNext == TypeOK /\ [Next]_vars => TypeOK'
<1> SUFFICES ASSUME TypeOK, [Next]_vars PROVE TypeOK'
  OBVIOUS
<1>1. CASE Quiescent \/ UNCHANGED vars
  BY <1>1 DEF Quiescent, vars, fanOut, ruleAnswers, TypeOK
<1> QED
  BY <1>1, TypeGateway, TypeDirector, TypeRules DEF Next

\* Every variable keeps its type.
THEOREM TypeCorrect == Spec => []TypeOK
BY TypeInit, TypeNext, PTL DEF Spec


-----------------------------------------------------------------------------
(* Where a result comes from                                               *)

\* A request that is there has a valid, forwarded post and a bound version.
Grounded(r, has, bound) ==
  /\ Validated(r[1]) /\ has[r[1]] \in Forwarded
  /\ bound[r[1]] # NoView /\ r[2] \in bound[r[1]]

TraceInv ==
  /\ \A c \in Call : http[c] \in Forwarded => Validated(c)
  /\ \A c \in Call : view[c] # NoView => http[c] \in Forwarded
  /\ \A o \in DOMAIN emitted : Grounded(emitted[o], http, view)
  /\ \A i \in DOMAIN answers :
       answers[i].status # "ERROR" => emitted[answers[i].offset] \in Judgeable
  /\ \A a \in late : a.status # "ERROR" => emitted[a.offset] \in Judgeable

\* Only the gateway changes what a client has, and no answer is taken back.
LEMMA HttpSteps ==
  ASSUME TypeOK, [Next]_vars
  PROVE  \/ http' = http
         \/ /\ UNCHANGED <<view, emitted, answers, late>>
            /\ \E c \in Call :
                 /\ \A d \in Call \ {c} : http'[d] = http[d]
                 /\ http'[c] \in Forwarded <=> http[c] \in Forwarded \/ Validated(c)
                 /\ http[c] = "idle" \/ (http[c] = "forwarded" /\ http'[c] \in Forwarded)
<1>1. ASSUME NEW c \in Call, Post(c) \/ Accept(c) \/ Unavailable(c)
      PROVE  /\ UNCHANGED <<view, emitted, answers, late>>
             /\ \A d \in Call \ {c} : http'[d] = http[d]
             /\ http'[c] \in Forwarded <=> http[c] \in Forwarded \/ Validated(c)
             /\ http[c] = "idle" \/ (http[c] = "forwarded" /\ http'[c] \in Forwarded)
  <2>1. UNCHANGED <<view, emitted, answers, late>> /\ \A d \in Call \ {c} : http'[d] = http[d]
    BY <1>1 DEF Post, Accept, Unavailable, fanOut, ruleAnswers, TypeOK
  <2>2. CASE Post(c)
    <3>1. http[c] = "idle"
          /\ http'[c] = IF Validated(c) THEN "forwarded" ELSE "rejected"
      BY <2>2 DEF Post, TypeOK
    <3>2. http[c] \notin Forwarded
      BY <3>1 DEF Forwarded
    <3>3. http'[c] \in Forwarded <=> Validated(c)
      BY <3>1 DEF Forwarded
    <3> QED
      BY <2>1, <3>1, <3>2, <3>3
  <2>3. CASE Accept(c) \/ Unavailable(c)
    <3>1. http[c] = "forwarded" /\ http'[c] \in {"accepted", "unavailable"}
      BY <2>3 DEF Accept, Unavailable, TypeOK
    <3> QED
      BY <2>1, <3>1 DEF Forwarded
  <2> QED
    BY <1>1, <2>2, <2>3
<1>2. CASE \E c \in Call : Post(c) \/ Accept(c) \/ Unavailable(c)
  BY <1>1, <1>2
<1>3. CASE ~ \E c \in Call : Post(c) \/ Accept(c) \/ Unavailable(c)
  BY <1>3 DEF Next, Take, Dispatch, GiveUp, Push, Process, DirectorDies,
     RulesServiceDies, ResultLands, Quiescent, vars
<1> QED
  BY <1>2, <1>3

\* Only Take changes a view, from NoView and of a forwarded post.
LEMMA ViewSteps ==
  ASSUME TypeOK, [Next]_vars
  PROVE  \/ view' = view
         \/ /\ UNCHANGED <<http, emitted, answers, late>>
            /\ \E c \in Call : /\ view[c] = NoView /\ http[c] \in Forwarded
                               /\ \A d \in Call \ {c} : view'[d] = view[d]
<1>1. ASSUME NEW c \in Call, Take(c)
      PROVE  /\ UNCHANGED <<http, emitted, answers, late>>
             /\ view[c] = NoView /\ http[c] \in Forwarded
             /\ \A d \in Call \ {c} : view'[d] = view[d]
  BY <1>1 DEF Take, Director!Bind, Forwarded, ruleAnswers, TypeOK
<1>2. CASE \E c \in Call : Take(c)
  BY <1>1, <1>2
<1>3. CASE ~ \E c \in Call : Take(c)
  BY <1>3 DEF Next, Post, Accept, Unavailable, Dispatch, Director!Emit, GiveUp,
     Director!GiveUp, Push, Director!Replace, Process, DirectorDies,
     Director!Crash, RulesServiceDies, ResultLands, Quiescent, fanOut, vars
<1> QED
  BY <1>2, <1>3

\* The topic grows by a grounded request, or stays.
LEMMA EmittedSteps ==
  ASSUME TypeOK, [Next]_vars
  PROVE  \/ emitted' = emitted
         \/ /\ UNCHANGED <<http, view, cursor, answers, late, lost>>
            /\ \E r \in Asked : /\ emitted' = Append(emitted, r)
                                /\ Director!InView(r[1], r[2])
<1>1. ASSUME NEW c \in Call, NEW p \in Profile, Dispatch(c, p)
      PROVE  /\ UNCHANGED <<http, view, cursor, answers, late, lost>>
             /\ \E r \in Asked : /\ emitted' = Append(emitted, r)
                                 /\ Director!InView(r[1], r[2])
  <2>1. /\ UNCHANGED <<http, view, cursor, answers, late, lost>>
        /\ Director!InView(c, p)
        /\ \E n \in 0..(Len(p.rules) - 1) : emitted' = Append(emitted, <<c, p, n>>)
    BY <1>1 DEF Dispatch, Director!Emit, Rules!Ask
  <2>2. PICK n \in RuleOf(p) : emitted' = Append(emitted, <<c, p, n>>)
    BY <2>1 DEF RuleOf
  <2>3. <<c, p, n>> \in Asked
    BY RuleOfType
  <2> QED
    BY <2>1, <2>2, <2>3
<1>2. CASE \E c \in Call, p \in Profile : Dispatch(c, p)
  BY <1>1, <1>2
<1>3. CASE ~ \E c \in Call, p \in Profile : Dispatch(c, p)
  BY <1>3 DEF Next, Post, Accept, Unavailable, Take, Director!Bind, GiveUp,
     Director!GiveUp, Push, Director!Replace, Process, Rules!Answer, Rules!Lose,
     DirectorDies, Director!Crash, RulesServiceDies, Rules!Reseek, ResultLands,
     Rules!Land, Quiescent, vars
<1> QED
  BY <1>2, <1>3

\* One answer lands or is on its way: to the request at hand, or a late one.
LEMMA AnswerSteps ==
  ASSUME TypeOK, [Next]_vars
  PROVE  \/ UNCHANGED <<answers, late>>
         \/ /\ UNCHANGED <<http, view, emitted>>
            /\ \E a \in AnswerTo(Len(emitted)) :
                 /\ answers' \in {answers, Append(answers, a)}
                 /\ late' \subseteq late \cup {a}
                 /\ a \in late \/ (a.status # "ERROR" => emitted[a.offset] \in Judgeable)
<1>1. CASE Process
  <2>1. /\ cursor < Len(emitted) /\ UNCHANGED <<http, view, emitted>>
        /\ \E a \in Rules!Judgements : /\ answers' \in {answers, Append(answers, a)}
                                      /\ late' \subseteq late \cup {a}
    BY <1>1 DEF Process, Rules!Answer, Rules!Lose, fanOut
  <2> QED
    BY <2>1, JudgementType
<1>2. CASE RulesServiceDies
  <2>1. /\ UNCHANGED <<http, view, emitted, answers>>
        /\ \/ UNCHANGED late
           \/ cursor < Len(emitted) /\ \E a \in Rules!Judgements : late' = late \cup {a}
    BY <1>2 DEF RulesServiceDies, Rules!Reseek, fanOut
  <2> QED
    BY <2>1, JudgementType
<1>3. CASE ResultLands
  <2>1. /\ UNCHANGED <<http, view, emitted>>
        /\ \E a \in late : answers' = Append(answers, a) /\ late' \subseteq late
    BY <1>3 DEF ResultLands, Rules!Land, fanOut
  <2>2. late \subseteq AnswerTo(Len(emitted))
    BY DEF TypeOK, AnswerTo
  <2> QED
    BY <2>1, <2>2
<1>4. CASE ~ (Process \/ RulesServiceDies \/ ResultLands)
  BY <1>4 DEF Next, Post, Accept, Unavailable, Take, Dispatch, Rules!Ask, GiveUp,
     Push, DirectorDies, Quiescent, ruleAnswers, vars
<1> QED
  BY <1>1, <1>2, <1>3, <1>4

LEMMA TraceInit == Init => TraceInv
BY DEF Init, TraceInv, Director!FanOutInit, Rules!RuleAnswersInit, Forwarded

LEMMA TraceNext ==
  ASSUME TypeOK, TraceInv, [Next]_vars
  PROVE  TraceInv'
<1>1. \A c \in Call : http'[c] \in Forwarded => Validated(c)
  BY HttpSteps DEF TraceInv
<1>2. \A c \in Call : view'[c] # NoView => http'[c] \in Forwarded
  <2>1. \A c \in Call : http[c] \in Forwarded => http'[c] \in Forwarded
    BY HttpSteps DEF Forwarded
  <2>2. \A c \in Call : view'[c] # NoView => view[c] # NoView \/ http[c] \in Forwarded
    BY ViewSteps
  <2> QED
    BY <2>1, <2>2 DEF TraceInv
<1>3. ASSUME NEW r \in Asked, Director!InView(r[1], r[2]) PROVE Grounded(r, http', view')
  <2>1. r[1] \in Call /\ view[r[1]] # NoView /\ r[2] \in view[r[1]]
    BY <1>3, AskedParts DEF Director!InView
  <2>2. view'[r[1]] = view[r[1]]
    BY <2>1, ViewSteps
  <2>3. http'[r[1]] \in Forwarded /\ Validated(r[1])
    BY <1>1, <1>2, <2>1, <2>2
  <2> QED
    BY <2>1, <2>2, <2>3 DEF Grounded
<1>4. \A o \in DOMAIN emitted' : Grounded(emitted'[o], http', view')
  <2>1. /\ emitted \in Seq(Asked) /\ DOMAIN emitted = 1..Len(emitted)
        /\ \A o \in DOMAIN emitted : emitted[o] \in Asked
    BY DEF TypeOK
  <2>2. \A o \in DOMAIN emitted : Grounded(emitted[o], http', view')
    BY <1>3, <2>1 DEF TraceInv, Grounded, Director!InView
  <2>3. CASE emitted' = emitted
    BY <2>2, <2>3
  <2>4. CASE \E r \in Asked : /\ emitted' = Append(emitted, r)
                              /\ Director!InView(r[1], r[2])
    <3>1. PICK r \in Asked : /\ emitted' = Append(emitted, r)
                             /\ Director!InView(r[1], r[2])
      BY <2>4
    <3>2. /\ DOMAIN emitted' = DOMAIN emitted \cup {Len(emitted) + 1}
          /\ \A o \in DOMAIN emitted : emitted'[o] = emitted[o]
          /\ emitted'[Len(emitted) + 1] = r
      BY <2>1, <3>1, AppendAt
    <3>3. Grounded(r, http', view')
      BY <1>3, <3>1
    <3> QED
      BY <2>2, <3>2, <3>3
  <2> QED
    BY <2>3, <2>4, EmittedSteps
<1>5. /\ \A i \in DOMAIN answers' :
           answers'[i].status # "ERROR" => emitted'[answers'[i].offset] \in Judgeable
      /\ \A a \in late' : a.status # "ERROR" => emitted'[a.offset] \in Judgeable
  <2>1. /\ answers \in Seq(AnswerTo(Len(emitted))) /\ late \subseteq AnswerTo(Len(emitted))
        /\ emitted \in Seq(Asked) /\ Len(emitted) \in Nat
    BY DEF TypeOK, AnswerTo
  <2>2. \A o \in 1..Len(emitted) : emitted'[o] = emitted[o]
    BY <2>1, EmittedSteps, AppendAt
  <2>3. \A i \in DOMAIN answers : answers[i] \in AnswerTo(Len(emitted))
    BY <2>1
  <2> DEFINE Sound(a) == a.status # "ERROR" => emitted'[a.offset] \in Judgeable
  <2>4. \A a \in AnswerTo(Len(emitted)) :
          (a.status # "ERROR" => emitted[a.offset] \in Judgeable) => Sound(a)
    BY <2>2 DEF AnswerTo
  <2>5. (\A i \in DOMAIN answers : Sound(answers[i])) /\ (\A a \in late : Sound(a))
    BY <2>1, <2>3, <2>4 DEF TraceInv
  <2> HIDE DEF Sound
  <2>6. CASE UNCHANGED <<answers, late>>
    BY <2>5, <2>6 DEF Sound
  <2>7. ASSUME NEW a \in AnswerTo(Len(emitted)),
               answers' \in {answers, Append(answers, a)}, late' \subseteq late \cup {a},
               a \in late \/ (a.status # "ERROR" => emitted[a.offset] \in Judgeable)
        PROVE  (\A i \in DOMAIN answers' : Sound(answers'[i])) /\ (\A b \in late' : Sound(b))
    <3>1. Sound(a)
      BY <2>4, <2>5, <2>7
    <3>2. CASE answers' = answers
      BY <2>5, <2>7, <3>1, <3>2
    <3>3. CASE answers' = Append(answers, a)
      <4>1. /\ DOMAIN answers' = DOMAIN answers \cup {Len(answers) + 1}
            /\ \A i \in DOMAIN answers : answers'[i] = answers[i]
            /\ answers'[Len(answers) + 1] = a
        BY <2>1, <3>3, AppendAt
      <4> QED
        BY <2>5, <2>7, <3>1, <4>1
    <3> QED
      BY <2>7, <3>2, <3>3
  <2> QED
    BY <2>6, <2>7, AnswerSteps DEF Sound
<1> QED
  BY <1>1, <1>2, <1>4, <1>5 DEF TraceInv, Validated

\* Every result can be traced to a valid post, and to a rule, of the version
\* that post was bound to, that could be applied.
THEOREM ResultsAreTraceable == Spec => []ResultsTraceable
<1>1. TypeOK /\ TraceInv => ResultsTraceable
  <2> SUFFICES ASSUME TypeOK, TraceInv, NEW i \in DOMAIN answers
               PROVE  LET request == emitted[answers[i].offset]
                          c == request[1]
                          p == request[2]
                          n == request[3] IN
                      /\ Validated(c) /\ http[c] \in Forwarded
                      /\ Director!InView(c, p) /\ n \in RuleOf(p)
                      /\ answers[i].status # "ERROR" => p.rules[n + 1].sound
    BY DEF ResultsTraceable, Forwarded, Validated
  <2>1. answers[i] \in AnswerTo(Len(emitted)) /\ emitted \in Seq(Asked)
    <3>1. answers \in Seq(AnswerTo(Len(emitted))) /\ emitted \in Seq(Asked)
      BY DEF TypeOK, AnswerTo
    <3> QED
      BY <3>1
  <2>2. answers[i].offset \in DOMAIN emitted /\ emitted[answers[i].offset] \in Asked
    BY <2>1 DEF AnswerTo
  <2> QED
    BY <2>2, AskedParts DEF TraceInv, Grounded, Judgeable, Director!InView
<1> QED
  BY <1>1, TypeInit, TypeNext, TraceInit, TraceNext, PTL DEF Spec

-----------------------------------------------------------------------------
(* What has been read is done with                                         *)

ReadInv == \A o \in 1..cursor : Rules!IsAnswered(o) \/ o \in lost

LEMMA ReadInit == Init => ReadInv
BY DEF Init, ReadInv, Rules!RuleAnswersInit

LEMMA ReadNext ==
  ASSUME TypeOK, ReadInv, [Next]_vars
  PROVE  ReadInv'
<1>1. \A o : Rules!IsAnswered(o) => Rules!IsAnswered(o)'
  <2>1. answers \in Seq(AnswerTo(Len(emitted)))
    BY DEF TypeOK, AnswerTo
  <2>2. \A i \in DOMAIN answers : i \in DOMAIN answers' /\ answers'[i] = answers[i]
    BY <2>1, AnswerSteps, AppendAt
  <2> QED
    BY <2>2 DEF Rules!IsAnswered
<1>2. cursor \in Nat
  BY DEF TypeOK
<1>3. CASE RulesServiceDies
  BY <1>1, <1>3 DEF RulesServiceDies, Rules!Reseek, ReadInv
<1>4. CASE Process
  <2>1. cursor' = cursor + 1 /\ lost \subseteq lost'
    BY <1>4 DEF Process, Rules!Answer, Rules!Lose
  <2>2. \A o : o = cursor + 1 => Rules!IsAnswered(o)' \/ o \in lost'
    <3>1. CASE Rules!Lose
      BY <3>1 DEF Rules!Lose
    <3>2. CASE Rules!Answer
      <4>1. PICK a \in Rules!Judgements : cursor < Len(emitted) /\ answers' = Append(answers, a)
        BY <3>2 DEF Rules!Answer
      <4>2. a \in AnswerTo(Len(emitted)) /\ a.offset = cursor + 1
        BY <4>1, JudgementType
      <4>3. answers'[Len(answers) + 1] = a /\ Len(answers) + 1 \in DOMAIN answers'
        BY <4>1, <4>2, AppendAt DEF TypeOK, AnswerTo
      <4> QED
        BY <4>2, <4>3 DEF Rules!IsAnswered
    <3> QED
      BY <1>4, <3>1, <3>2 DEF Process
  <2>3. \A o \in 1..cursor' : o \in 1..cursor \/ o = cursor + 1
    BY <1>2, <2>1
  <2> QED
    BY <1>1, <2>1, <2>2, <2>3 DEF ReadInv
<1>5. CASE ~ (RulesServiceDies \/ Process)
  <2>1. UNCHANGED <<cursor, lost>>
    BY <1>5 DEF Next, Post, Accept, Unavailable, Take, Dispatch, Rules!Ask, GiveUp,
       Push, DirectorDies, ResultLands, Rules!Land, Quiescent, ruleAnswers, vars
  <2> QED
    BY <1>1, <2>1 DEF ReadInv
<1> QED
  BY <1>3, <1>4, <1>5

\* When the topic has been read to its end, no rule of a profile that was
\* dispatched completely is left behind.
THEOREM ReadIsJudged == Spec => []ReadMeansJudged
<1>1. TypeOK /\ ReadInv => ReadMeansJudged
  <2> SUFFICES ASSUME TypeOK, ReadInv, cursor = Len(emitted),
                      NEW c \in Call, NEW p \in Profile, Director!Complete(c, p),
                      NEW n \in RuleOf(p)
               PROVE  DoneWith(c, p, n)
    BY DEF ReadMeansJudged
  <2>1. PICK o \in DOMAIN emitted : emitted[o] = <<c, p, n>>
    BY DEF Director!Complete, Director!IsEmitted, RuleOf
  <2>2. o \in 1..cursor
    BY DEF TypeOK
  <2> QED
    BY <2>1, <2>2 DEF ReadInv, DoneWith
<1> QED
  BY <1>1, TypeInit, TypeNext, ReadInit, ReadNext, PTL DEF Spec

-----------------------------------------------------------------------------
(* One result per rule                                                     *)

\* The answers in s to the request at offset o.
OffsetIn(s, o) == {i \in DOMAIN s : s[i].offset = o}

\* The answers in S, on their way, to it.
LateOf(S, o) == {a \in S : a.offset = o}

\* Those that came and those that are on their way.
Results(s, S, o) == Cardinality(OffsetIn(s, o)) + Cardinality(LateOf(S, o))

\* No request is on the topic twice; one that is behind the cursor has one
\* answer, one that is not has none, and each repetition may add one.  An answer
\* on its way counts already.
CountInv ==
  /\ \A i, j \in DOMAIN emitted : emitted[i] = emitted[j] => i = j
  /\ IsFiniteSet(late)
  /\ \A o \in 1..Len(emitted) :
       Results(answers, late, o) <= repeats + (IF o <= cursor THEN 1 ELSE 0)

\* One more answer counts for its own request.
LEMMA CountAppend ==
  ASSUME NEW S, NEW s \in Seq(S), NEW x \in S, NEW o
  PROVE  /\ Cardinality(OffsetIn(s, o)) \in Nat
         /\ x.offset # o => OffsetIn(Append(s, x), o) = OffsetIn(s, o)
         /\ x.offset = o => Cardinality(OffsetIn(Append(s, x), o)) = Cardinality(OffsetIn(s, o)) + 1
<1> DEFINE A == {i \in DOMAIN s : s[i].offset = o}
           n == Len(s)
           t == Append(s, x)
           B == {i \in DOMAIN t : t[i].offset = o}
<1>1. /\ n \in Nat /\ DOMAIN s = 1..n /\ DOMAIN t = 1..(n + 1)
      /\ \A i \in 1..n : t[i] = s[i]
      /\ t[n + 1] = x
  BY AppendAt
<1>2. IsFiniteSet(A)
  <2>1. IsFiniteSet(1..n)
    BY <1>1, FS_Interval
  <2>2. A \subseteq 1..n
    BY <1>1
  <2> QED
    BY <2>1, <2>2, FS_Subset
<1>3. Cardinality(A) \in Nat
  BY <1>2, FS_CardinalityType
<1>4. \A i : i \in 1..(n + 1) <=> i \in 1..n \/ i = n + 1
  BY <1>1
<1> HIDE DEF n
<1>5. \A i : i \in B <=> i \in A \/ (i = n + 1 /\ x.offset = o)
  BY <1>1, <1>4
<1>6. n + 1 \notin A
  BY <1>1
<1> HIDE DEF A, B
<1>7. CASE x.offset # o
  BY <1>3, <1>5, <1>7 DEF A, B, OffsetIn
<1>8. CASE x.offset = o
  <2>1. B = A \cup {n + 1}
    BY <1>5, <1>8
  <2>2. Cardinality(B) = Cardinality(A) + 1
    BY <1>2, <1>6, <2>1, FS_AddElement
  <2> QED
    BY <1>3, <1>8, <2>2 DEF A, B, OffsetIn
<1> QED
  BY <1>7, <1>8

\* Without an append.
LEMMA CountType ==
  ASSUME TypeOK, NEW o
  PROVE  Cardinality(OffsetIn(answers, o)) \in Nat
<1>1. Len(answers) \in Nat /\ DOMAIN answers = 1..Len(answers)
  BY DEF TypeOK
<1>2. IsFiniteSet(1..Len(answers)) /\ OffsetIn(answers, o) \subseteq 1..Len(answers)
  BY <1>1, FS_Interval DEF OffsetIn
<1> QED
  BY <1>2, FS_Subset, FS_CardinalityType

LEMMA LateType ==
  ASSUME NEW S, IsFiniteSet(S), NEW o
  PROVE  IsFiniteSet(LateOf(S, o)) /\ Cardinality(LateOf(S, o)) \in Nat
<1>1. LateOf(S, o) \subseteq S
  BY DEF LateOf
<1> QED
  BY <1>1, FS_Subset, FS_CardinalityType

\* One more on its way counts for its own request, unless it is there already.
LEMMA LateAdd ==
  ASSUME NEW S, IsFiniteSet(S), NEW a, NEW o
  PROVE  /\ IsFiniteSet(S \cup {a})
         /\ Cardinality(LateOf(S \cup {a}, o))
              <= Cardinality(LateOf(S, o)) + (IF a.offset = o THEN 1 ELSE 0)
<1>1. IsFiniteSet(S \cup {a})
  BY FS_AddElement
<1>2. IsFiniteSet(LateOf(S, o)) /\ Cardinality(LateOf(S, o)) \in Nat
  BY LateType
<1>3. CASE a.offset = o /\ a \notin S
  <2>1. LateOf(S \cup {a}, o) = LateOf(S, o) \cup {a} /\ a \notin LateOf(S, o)
    BY <1>3 DEF LateOf
  <2>2. Cardinality(LateOf(S, o) \cup {a}) = Cardinality(LateOf(S, o)) + 1
    BY <1>2, <2>1, FS_AddElement
  <2> QED
    BY <1>1, <1>2, <1>3, <2>1, <2>2
<1>4. CASE ~ (a.offset = o /\ a \notin S)
  <2>1. LateOf(S \cup {a}, o) = LateOf(S, o)
    BY <1>4 DEF LateOf
  <2> QED
    BY <1>1, <1>2, <2>1
<1> QED
  BY <1>3, <1>4

\* What has landed for the last time is no longer on its way.
LEMMA LateDrop ==
  ASSUME NEW S, IsFiniteSet(S), NEW a \in S, NEW o
  PROVE  /\ IsFiniteSet(S \ {a})
         /\ Cardinality(LateOf(S \ {a}, o))
              = Cardinality(LateOf(S, o)) - (IF a.offset = o THEN 1 ELSE 0)
<1>1. IsFiniteSet(S \ {a})
  BY FS_RemoveElement
<1>2. IsFiniteSet(LateOf(S, o)) /\ Cardinality(LateOf(S, o)) \in Nat
  BY LateType
<1>3. CASE a.offset = o
  <2>1. LateOf(S \ {a}, o) = LateOf(S, o) \ {a} /\ a \in LateOf(S, o)
    BY <1>3 DEF LateOf
  <2>2. Cardinality(LateOf(S, o) \ {a}) = Cardinality(LateOf(S, o)) - 1
    BY <1>2, <2>1, FS_RemoveElement
  <2> QED
    BY <1>1, <1>3, <2>1, <2>2
<1>4. CASE a.offset # o
  <2>1. LateOf(S \ {a}, o) = LateOf(S, o)
    BY <1>4 DEF LateOf
  <2> QED
    BY <1>1, <1>2, <1>4, <2>1
<1> QED
  BY <1>3, <1>4

\* What an answer adds to the count of the request at offset o.
Adds(a, o) == IF a.offset = o THEN 1 ELSE 0

\* An answer that lands counts once, and once if it may land yet.
LEMMA ResultsOne ==
  ASSUME TypeOK, IsFiniteSet(late), NEW a \in AnswerTo(Len(emitted)), NEW o
  PROVE  LET was == Results(answers, late, o)
             coming == Results(answers, late \cup {a}, o)
             come == Results(Append(answers, a), late, o)
             both == Results(Append(answers, a), late \cup {a}, o)
             landed == Results(Append(answers, a), late \ {a}, o) IN
         /\ was \in Nat /\ coming \in Nat /\ come \in Nat /\ both \in Nat /\ landed \in Nat
         /\ coming <= was + Adds(a, o) /\ come <= was + Adds(a, o)
         /\ both <= was + Adds(a, o) + Adds(a, o)
         /\ a \in late => landed <= was
<1> DEFINE n == Cardinality(OffsetIn(answers, o))
           next == Cardinality(OffsetIn(Append(answers, a), o))
           l == Cardinality(LateOf(late, o))
           more == Cardinality(LateOf(late \cup {a}, o))
           less == Cardinality(LateOf(late \ {a}, o))
           adds == Adds(a, o)
<1>1. answers \in Seq(AnswerTo(Len(emitted)))
  BY DEF TypeOK, AnswerTo
<1>2. n \in Nat /\ next = n + adds
  <2>1. /\ n \in Nat
        /\ a.offset # o => OffsetIn(Append(answers, a), o) = OffsetIn(answers, o)
        /\ a.offset = o => next = n + 1
    BY <1>1, CountAppend
  <2> QED
    BY <2>1 DEF Adds
<1>3. l \in Nat
  BY LateType
<1>4. more \in Nat /\ more <= l + adds
  BY LateAdd, LateType DEF Adds
<1>5. less \in Nat /\ (a \in late => less = l - adds)
  <2>1. IsFiniteSet(late \ {a})
    BY FS_RemoveElement
  <2> QED
    BY <2>1, LateDrop, LateType DEF Adds
<1>6. adds \in Nat
  BY DEF Adds
<1> HIDE DEF n, next, l, more, less, adds
<1>7. /\ Results(answers, late, o) = n + l
      /\ Results(answers, late \cup {a}, o) = n + more
      /\ Results(Append(answers, a), late, o) = next + l
      /\ Results(Append(answers, a), late \cup {a}, o) = next + more
      /\ Results(Append(answers, a), late \ {a}, o) = next + less
  BY DEF Results, n, next, l, more, less
<1>8. /\ n + l \in Nat /\ n + more \in Nat /\ next + l \in Nat /\ next + more \in Nat
      /\ next + less \in Nat
      /\ n + more <= n + l + adds /\ next + l <= n + l + adds
      /\ next + more <= n + l + adds + adds
      /\ a \in late => next + less <= n + l
  BY <1>2, <1>3, <1>4, <1>5, <1>6
<1> QED
  BY <1>7, <1>8 DEF adds

\* Nothing is on either topic.
LEMMA CountInit == Init => CountInv
<1> SUFFICES ASSUME Init PROVE CountInv
  OBVIOUS
<1>1. emitted = <<>> /\ late = {}
  BY DEF Init, Director!FanOutInit, Rules!RuleAnswersInit
<1>2. DOMAIN emitted = {} /\ 1..Len(emitted) = {}
  BY <1>1
<1>3. IsFiniteSet(late)
  BY <1>1, FS_EmptySet
<1> QED
  BY <1>2, <1>3 DEF CountInv

\* CountInv is inductive, relative to the types.
LEMMA CountNext ==
  ASSUME TypeOK, CountInv, [Next]_vars
  PROVE  CountInv'
<1>1. /\ Len(emitted) \in Nat /\ cursor \in 0..Len(emitted) /\ repeats \in Nat
      /\ answers \in Seq(AnswerTo(Len(emitted))) /\ emitted \in Seq(Asked)
  BY DEF TypeOK, AnswerTo
<1>2. IsFiniteSet(late)
  BY DEF CountInv
<1>3. ASSUME NEW o \in 1..Len(emitted)
      PROVE  Results(answers, late, o) <= repeats + (IF o <= cursor THEN 1 ELSE 0)
  BY DEF CountInv
<1>4. CASE Process
  <2>1. /\ cursor < Len(emitted) /\ cursor' = cursor + 1 /\ UNCHANGED emitted
        /\ \E a \in Rules!Judgements :
             \/ answers' = Append(answers, a) /\ UNCHANGED <<late, repeats>>
             \/ /\ answers' = Append(answers, a) /\ late' \in {late, late \cup {a}}
                /\ repeats' = repeats + 1
             \/ late' = late \cup {a} /\ UNCHANGED <<answers, repeats>>
    BY <1>4 DEF Process, Rules!Answer, Rules!Lose, Again
  <2>2. PICK a \in Rules!Judgements :
          \/ answers' = Append(answers, a) /\ UNCHANGED <<late, repeats>>
          \/ /\ answers' = Append(answers, a) /\ late' \in {late, late \cup {a}}
             /\ repeats' = repeats + 1
          \/ late' = late \cup {a} /\ UNCHANGED <<answers, repeats>>
    BY <2>1
  <2>3. a \in AnswerTo(Len(emitted)) /\ a.offset = cursor + 1
    BY <2>1, JudgementType
  <2>4. IsFiniteSet(late')
    BY <1>2, <2>2, LateAdd
  <2>5. ASSUME NEW o \in 1..Len(emitted)
        PROVE  Results(answers', late', o) <= repeats' + (IF o <= cursor' THEN 1 ELSE 0)
    <3> DEFINE was == Results(answers, late, o)
               is == Results(answers', late', o)
               adds == Adds(a, o)
    <3>1. /\ was \in Nat /\ is \in Nat
          /\ \/ is <= was + adds /\ repeats' = repeats
             \/ is <= was + adds + adds /\ repeats' = repeats + 1
      <4> DEFINE coming == Results(answers, late \cup {a}, o)
                 come == Results(Append(answers, a), late, o)
                 both == Results(Append(answers, a), late \cup {a}, o)
      <4>1. /\ was \in Nat /\ coming \in Nat /\ come \in Nat /\ both \in Nat
            /\ coming <= was + adds /\ come <= was + adds /\ both <= was + adds + adds
        BY <1>2, <2>3, ResultsOne
      <4>2. adds \in Nat
        BY DEF Adds
      <4>3. \/ is = come /\ repeats' = repeats
            \/ is \in {come, both} /\ repeats' = repeats + 1
            \/ is = coming /\ repeats' = repeats
        BY <2>2
      <4> HIDE DEF was, is, adds, coming, come, both
      <4> QED
        BY <4>1, <4>2, <4>3
    <3>2. was <= repeats + (IF o <= cursor THEN 1 ELSE 0)
      BY <1>3
    <3>3. adds = IF o = cursor + 1 THEN 1 ELSE 0
      BY <2>3 DEF Adds
    <3> HIDE DEF was, is, adds
    <3>4. is <= repeats' + (IF o <= cursor' THEN 1 ELSE 0)
      BY <1>1, <2>1, <3>1, <3>2, <3>3
    <3> QED
      BY <3>4 DEF is
  <2> QED
    BY <2>1, <2>4, <2>5 DEF CountInv
<1>5. CASE RulesServiceDies
  <2>1. /\ UNCHANGED <<emitted, answers>> /\ repeats' = repeats + 1
        /\ \/ UNCHANGED late
           \/ cursor < Len(emitted) /\ \E a \in Rules!Judgements : late' = late \cup {a}
    BY <1>5 DEF RulesServiceDies, Rules!Reseek, Again
  <2>2. ASSUME NEW o \in 1..Len(emitted), UNCHANGED late
        PROVE  Results(answers, late', o) <= repeats' + (IF o <= cursor' THEN 1 ELSE 0)
    <3>1. Results(answers, late, o) \in Nat
      BY <1>2, CountType, LateType DEF Results
    <3> QED
      BY <1>1, <1>3, <2>1, <2>2, <3>1
  <2>3. ASSUME cursor < Len(emitted), NEW a \in Rules!Judgements, late' = late \cup {a},
               NEW o \in 1..Len(emitted)
        PROVE  Results(answers, late', o) <= repeats' + (IF o <= cursor' THEN 1 ELSE 0)
    <3>1. a \in AnswerTo(Len(emitted)) /\ a.offset = cursor + 1
      BY <2>3, JudgementType
    <3>2. /\ Results(answers, late, o) \in Nat
          /\ Results(answers, late', o)
               <= Results(answers, late, o) + (IF o = cursor + 1 THEN 1 ELSE 0)
          /\ Results(answers, late', o) \in Nat
      BY <1>2, <2>3, <3>1, ResultsOne DEF Adds
    <3> QED
      BY <1>1, <1>3, <2>1, <3>2
  <2>4. IsFiniteSet(late')
    BY <1>2, <2>1, LateAdd
  <2> QED
    BY <2>1, <2>2, <2>3, <2>4 DEF CountInv
<1>6. CASE ResultLands
  <2>1. /\ UNCHANGED <<emitted, cursor>>
        /\ \E a \in late : /\ answers' = Append(answers, a)
                           /\ \/ late' = late \ {a} /\ UNCHANGED repeats
                              \/ late' = late /\ repeats' = repeats + 1
    BY <1>6 DEF ResultLands, Rules!Land, Again
  <2>2. PICK a \in late : /\ answers' = Append(answers, a)
                         /\ \/ late' = late \ {a} /\ UNCHANGED repeats
                            \/ late' = late /\ repeats' = repeats + 1
    BY <2>1
  <2>3. a \in AnswerTo(Len(emitted))
    BY DEF TypeOK, AnswerTo
  <2>4. IsFiniteSet(late')
    BY <1>2, <2>2, LateDrop
  <2>5. ASSUME NEW o \in 1..Len(emitted)
        PROVE  Results(answers', late', o) <= repeats' + (IF o <= cursor THEN 1 ELSE 0)
    <3> DEFINE was == Results(answers, late, o)
               is == Results(answers', late', o)
    <3>1. /\ was \in Nat /\ is \in Nat
          /\ \/ is <= was /\ repeats' = repeats
             \/ is <= was + 1 /\ repeats' = repeats + 1
      <4> DEFINE come == Results(Append(answers, a), late, o)
                 landed == Results(Append(answers, a), late \ {a}, o)
                 adds == Adds(a, o)
      <4>1. /\ was \in Nat /\ come \in Nat /\ landed \in Nat
            /\ come <= was + adds /\ landed <= was
        BY <1>2, <2>3, ResultsOne
      <4>2. adds \in {0, 1}
        BY DEF Adds
      <4>3. \/ is = landed /\ repeats' = repeats
            \/ is = come /\ repeats' = repeats + 1
        BY <2>2
      <4> HIDE DEF was, is, adds, come, landed
      <4> QED
        BY <4>1, <4>2, <4>3
    <3>2. was <= repeats + (IF o <= cursor THEN 1 ELSE 0)
      BY <1>3
    <3> HIDE DEF was, is
    <3>3. is <= repeats' + (IF o <= cursor THEN 1 ELSE 0)
      BY <1>1, <3>1, <3>2
    <3> QED
      BY <3>3 DEF is
  <2> QED
    BY <2>1, <2>4, <2>5 DEF CountInv
<1>7. ASSUME NEW c \in Call, NEW p \in Profile, Dispatch(c, p)
      PROVE  CountInv'
  <2>1. PICK n \in RuleOf(p) :
          ~ Director!IsEmitted(c, p, n) /\ emitted' = Append(emitted, <<c, p, n>>)
    BY <1>7 DEF Dispatch, Director!Emit, RuleOf
  <2>2. UNCHANGED <<cursor, answers, late, repeats>>
    BY <1>7 DEF Dispatch, Rules!Ask
  <2>3. <<c, p, n>> \in Asked
    BY RuleOfType
  <2> DEFINE r == <<c, p, n>>
             l == Len(emitted)
  <2>4. /\ DOMAIN emitted = 1..l /\ DOMAIN emitted' = 1..(l + 1) /\ Len(emitted') = l + 1
        /\ \A i \in 1..l : emitted'[i] = emitted[i] /\ emitted[i] # r
        /\ emitted'[l + 1] = r
    <3>1. \A i \in DOMAIN emitted : emitted[i] # r
      BY <2>1 DEF Director!IsEmitted
    <3>2. r \in Asked /\ emitted' = Append(emitted, r)
      BY <2>1, <2>3
    <3> HIDE DEF r
    <3> QED
      BY <1>1, <3>1, <3>2, AppendAt
  <2> HIDE DEF r
  <2>5. l \in Nat
    BY <1>1
  <2> HIDE DEF l
  <2>6. \A i \in 1..(l + 1) : i \in 1..l \/ i = l + 1
    BY <2>5
  <2>7. \A i, j \in DOMAIN emitted' : emitted'[i] = emitted'[j] => i = j
    BY <2>4, <2>6 DEF CountInv
  <2>8. OffsetIn(answers, l + 1) = {} /\ LateOf(late, l + 1) = {}
    <3>1. ASSUME NEW a \in AnswerTo(l) PROVE a.offset # l + 1
      BY <2>5 DEF AnswerTo
    <3>2. late \subseteq AnswerTo(l) /\ answers \in Seq(AnswerTo(l))
      BY DEF TypeOK, AnswerTo, l
    <3>3. \A i \in DOMAIN answers : answers[i] \in AnswerTo(l)
      BY <3>2
    <3> QED
      BY <3>1, <3>2, <3>3 DEF OffsetIn, LateOf
  <2>9. Results(answers, late, l + 1) = 0
    BY <2>8, FS_EmptySet DEF Results
  <2>10. ASSUME NEW o \in 1..(l + 1)
         PROVE  Results(answers, late, o) <= repeats + (IF o <= cursor THEN 1 ELSE 0)
    <3>1. CASE o \in 1..l
      BY <1>3, <3>1 DEF l
    <3>2. CASE o = l + 1
      BY <1>1, <2>9, <3>2
    <3> QED
      BY <2>6, <3>1, <3>2
  <2> QED
    BY <1>2, <2>2, <2>4, <2>7, <2>10 DEF CountInv
<1>8. CASE ~ \/ Process \/ RulesServiceDies \/ ResultLands
             \/ \E c \in Call, p \in Profile : Dispatch(c, p)
  <2>1. UNCHANGED <<emitted, cursor, answers, late, repeats>>
    BY <1>8 DEF Next, Post, Accept, Unavailable, Take, Director!Bind, GiveUp,
       Director!GiveUp, Push, Director!Replace, DirectorDies, Director!Crash,
       Quiescent, ruleAnswers, vars
  <2> QED
    BY <2>1 DEF CountInv
<1> QED
  BY <1>4, <1>5, <1>6, <1>7, <1>8

\* One post gets one result per rule, and at the most one more per death or
\* rebalance of the rules service and per result that reaches its topic twice,
\* however late the results land.
THEOREM ResultsAreSingle == Spec => []OneResultPerRule
<1>1. TypeOK /\ CountInv => OneResultPerRule
  <2> SUFFICES ASSUME TypeOK, CountInv, NEW c \in Call, NEW p \in Profile, NEW n \in RuleOf(p)
               PROVE  Cardinality({i \in DOMAIN answers :
                                     emitted[answers[i].offset] = <<c, p, n>>}) <= repeats + 1
    BY DEF OneResultPerRule
  <2> DEFINE r == <<c, p, n>>
             R == {i \in DOMAIN answers : emitted[answers[i].offset] = r}
  <2>1. repeats \in Nat /\ DOMAIN emitted = 1..Len(emitted)
    BY DEF TypeOK
  <2>2. \A i \in DOMAIN answers : answers[i].offset \in DOMAIN emitted
    <3> SUFFICES ASSUME NEW i \in DOMAIN answers
                 PROVE  answers[i].offset \in DOMAIN emitted
      OBVIOUS
    <3>1. answers \in Seq(AnswerTo(Len(emitted)))
      BY DEF TypeOK, AnswerTo
    <3>2. answers[i] \in AnswerTo(Len(emitted))
      BY <3>1
    <3> QED
      BY <2>1, <3>2 DEF AnswerTo
  <2> HIDE DEF r
  <2>3. CASE \E o \in DOMAIN emitted : emitted[o] = r
    <3>1. PICK o \in DOMAIN emitted : emitted[o] = r
      BY <2>3
    <3>2. R = OffsetIn(answers, o)
      BY <2>2, <3>1 DEF CountInv, OffsetIn
    <3>3. /\ Cardinality(OffsetIn(answers, o)) <= repeats + (IF o <= cursor THEN 1 ELSE 0)
          /\ Cardinality(OffsetIn(answers, o)) \in Nat
      <4>1. IsFiniteSet(late) /\ Cardinality(LateOf(late, o)) \in Nat
        BY LateType DEF CountInv
      <4>2. Cardinality(OffsetIn(answers, o)) \in Nat
        BY CountType
      <4>3. Cardinality(OffsetIn(answers, o)) + Cardinality(LateOf(late, o))
              <= repeats + (IF o <= cursor THEN 1 ELSE 0)
        BY <2>1, <3>1 DEF CountInv, Results
      <4> QED
        BY <2>1, <4>1, <4>2, <4>3 DEF TypeOK
    <3>4. Cardinality(OffsetIn(answers, o)) <= repeats + 1
      BY <2>1, <3>3
    <3> QED
      BY <3>2, <3>4 DEF r
  <2>4. CASE ~ \E o \in DOMAIN emitted : emitted[o] = r
    <3>1. R = {}
      BY <2>2, <2>4
    <3>2. Cardinality(R) = 0
      BY <3>1, FS_EmptySet
    <3> QED
      BY <2>1, <3>2 DEF r
  <2> QED
    BY <2>3, <2>4
<1> QED
  BY <1>1, TypeInit, TypeNext, CountInit, CountNext, PTL DEF Spec

=============================================================================
