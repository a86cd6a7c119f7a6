----------------------------- MODULE RuleAnswers -----------------------------
(***************************************************************************)
(* What the rules service promises to the rest of finrad++, with the       *)
(* batches, the automatic commits, Postgres, the detector and the          *)
(* factory left out:                                                       *)
(*                                                                         *)
(*   - requests are taken from the topic one by one, in its order, and     *)
(*     each one taken is answered or lost: because its answer could not be *)
(*     sent, as far as the service knows;                                  *)
(*   - an answer that was given may land at any time after that, or never, *)
(*     or once more than it should;                                        *)
(*   - the place in the topic jumps only when the process dies or its      *)
(*     group is rebalanced; what it jumps over without an answer is lost,  *)
(*     what it jumps back over may be answered again;                      *)
(*   - an answer that is not ERROR is for a request that can be judged.    *)
(*                                                                         *)
(* Module RulesService implements this (RulesService!Implements); module   *)
(* FraudPipeline is built on it.                                           *)
(***************************************************************************)
EXTENDS Naturals, Sequences

CONSTANTS
  Request,    \* what can be on the request topic
  Judgeable,  \* those of it that a rule can be applied to
  Verdict     \* the statuses other than ERROR

VARIABLES
  requests,  \* the request topic
  cursor,    \* requests up to cursor are done with
  answers,   \* the response topic, records of an offset and a status
  late,      \* answers that may still land there
  lost       \* offsets that need not be answered

ruleAnswersVars == <<requests, cursor, answers, late, lost>>

-----------------------------------------------------------------------------

RuleAnswersInit ==
  /\ requests = <<>> /\ cursor = 0
  /\ answers = <<>> /\ late = {} /\ lost = {}

IsAnswered(o) == \E i \in DOMAIN answers : answers[i].offset = o

Ask ==
  /\ \E r \in Request : requests' = Append(requests, r)
  /\ UNCHANGED <<cursor, answers, late, lost>>

\* What may be said of the next request.
Judgements ==
  [offset : {cursor + 1},
   status : {"ERROR"} \cup
            (IF requests[cursor + 1] \in Judgeable THEN Verdict ELSE {})]

\* The next request is answered; an attempt before may land yet.
Answer ==
  /\ cursor < Len(requests)
  /\ \E a \in Judgements : /\ answers' = Append(answers, a)
                          /\ late' \in {late, late \cup {a}}
  /\ cursor' = cursor + 1
  /\ UNCHANGED <<requests, lost>>

\* Its answer could not be sent, as far as the service knows.
Lose ==
  /\ cursor < Len(requests)
  /\ \E a \in Judgements : late' = late \cup {a}
  /\ cursor' = cursor + 1
  /\ lost' = lost \cup {cursor + 1}
  /\ UNCHANGED <<requests, answers>>

\* An answer lands, for the last time or not.
Land ==
  /\ \E a \in late : /\ answers' = Append(answers, a)
                    /\ late' \in {late, late \ {a}}
  /\ UNCHANGED <<requests, cursor, lost>>

\* The process dies, perhaps while it sends an answer, or its group is
\* rebalanced: it goes on from anywhere.
Reseek ==
  /\ \E c \in 0..Len(requests) :
       /\ cursor' = c
       /\ lost' = lost \cup {o \in 1..c : ~ IsAnswered(o)}
  /\ \/ UNCHANGED late
     \/ /\ cursor < Len(requests)
        /\ \E a \in Judgements : late' = late \cup {a}
  /\ UNCHANGED <<requests, answers>>

RuleAnswersNext == Ask \/ Answer \/ Lose \/ Land \/ Reseek

RuleAnswersSpec == RuleAnswersInit /\ [][RuleAnswersNext]_ruleAnswersVars

=============================================================================
