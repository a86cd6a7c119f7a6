-------------------------- MODULE ProfilePushProofs --------------------------
(***************************************************************************)
(* Proofs about ProfilePush, for any tables, selections, numbers of        *)
(* pushes, of edits and of deaths of the director: what a push that is     *)
(* reported as a success means.                                            *)
(***************************************************************************)
EXTENDS ProfilePush, FiniteSetTheorems, TLAPS

-----------------------------------------------------------------------------
(* Types, and where the iteration stands                                   *)

Stages == {"idle", "calling", "iterating", "converting", "sent", "over"}
Outcomes == {"none", "warning", "error", "success"}
RuleSets == SUBSET (Rule \X (Object \cup {Gone}))
MessageType == [uuid : Profile, rules : RuleSets]
Messages == Seq(MessageType)
InWork == Profile \cup {NoProfile}

PushType ==
  [stage : Stages, loaded : SUBSET Profile, queue : SUBSET Profile, at : InWork,
   todo : SUBSET Rule, rules : RuleSets, sent : Messages, outcome : Outcomes,
   reported : Nat]

Uuids(x) == {x.sent[i].uuid : i \in DOMAIN x.sent}

\* The profiles loaded are those to come, the one in work and those sent.
Iterated(x) ==
  /\ \A i, j \in DOMAIN x.sent : x.sent[i].uuid = x.sent[j].uuid => i = j
  /\ x.stage # "over" => x.outcome = "none"
  /\ x.stage \in {"idle", "calling"} => x.sent = <<>>
  /\ x.stage = "iterating" =>
       x.queue \cap Uuids(x) = {} /\ x.loaded = x.queue \cup Uuids(x)
  /\ x.stage = "converting" =>
       /\ x.at \in Profile /\ x.at \notin x.queue \cup Uuids(x)
       /\ x.queue \cap Uuids(x) = {} /\ x.loaded = x.queue \cup {x.at} \cup Uuids(x)
  /\ x.stage = "sent" => x.loaded = Uuids(x)
  /\ x.outcome = "success" =>
       x.loaded = Uuids(x) /\ x.reported = Cardinality(x.loaded)

PushInv == TypeOK /\ \A u \in Push : Iterated(push[u])

\* What Append leaves in place and what it adds.
LEMMA AppendAt ==
  ASSUME NEW S, NEW s \in Seq(S), NEW x \in S
  PROVE  /\ Append(s, x) \in Seq(S)
         /\ Len(Append(s, x)) = Len(s) + 1 /\ Len(s) \in Nat
         /\ DOMAIN s = 1..Len(s) /\ DOMAIN Append(s, x) = 1..(Len(s) + 1)
         /\ \A i \in 1..Len(s) : Append(s, x)[i] = s[i]
         /\ Append(s, x)[Len(s) + 1] = x
OBVIOUS

\* The type invariant, in the terms of this module.
LEMMA PushTyped ==
  TypeOK <=> /\ profiles \in SUBSET Profile
             /\ configs \in [Rule -> {"unborn", "there", "deleted"}]
             /\ object \in [Rule -> Object \cup {Gone}]
             /\ edits \in Nat /\ deaths \in Nat
             /\ push \in [Push -> PushType]
             /\ handler \in [Push -> {"none", "open", "answered", "closed"}]
             /\ current \in SUBSET MessageType
             /\ alone \in [Push -> BOOLEAN]
BY DEF TypeOK, PushType, MessageType, Stages, Outcomes, RuleSets, Messages, InWork

\* The same of the next state.
LEMMA PushTypedNext ==
  ASSUME profiles' \in SUBSET Profile,
         configs' \in [Rule -> {"unborn", "there", "deleted"}],
         object' \in [Rule -> Object \cup {Gone}],
         edits' \in Nat, deaths' \in Nat,
         push' \in [Push -> PushType],
         handler' \in [Push -> {"none", "open", "answered", "closed"}],
         current' \in SUBSET MessageType,
         alone' \in [Push -> BOOLEAN]
  PROVE  TypeOK'
BY DEF TypeOK, PushType, MessageType, Stages, Outcomes, RuleSets, Messages, InWork

\* As many profiles as messages, once the uuids differ.
LEMMA CountSent ==
  ASSUME NEW x \in PushType,
         \A i, j \in DOMAIN x.sent : x.sent[i].uuid = x.sent[j].uuid => i = j
  PROVE  /\ Cardinality(Uuids(x)) = Len(x.sent) /\ Len(x.sent) \in Nat
         /\ Cardinality({x.sent[i] : i \in DOMAIN x.sent}) = Len(x.sent)
<1> DEFINE n == Len(x.sent)
           f == [i \in 1..n |-> x.sent[i].uuid]
           g == [i \in 1..n |-> x.sent[i]]
           T == {x.sent[i] : i \in DOMAIN x.sent}
<1>1. n \in Nat /\ DOMAIN x.sent = 1..n
  BY DEF PushType, Messages
<1>2. f \in Bijection(1..n, Uuids(x))
  <2>1. /\ \A i \in 1..n : f[i] = x.sent[i].uuid /\ f[i] \in Uuids(x)
        /\ \A y \in Uuids(x) : \E i \in 1..n : f[i] = y
        /\ \A i, j \in 1..n : f[i] = f[j] => i = j
        /\ f \in [1..n -> Uuids(x)]
    BY <1>1 DEF Uuids
  <2> HIDE DEF f, n
  <2> QED
    BY <2>1, Zenon DEF Bijection, Injection, Surjection, IsInjective
<1>3. g \in Bijection(1..n, T)
  <2>1. /\ \A y \in T : \E i \in 1..n : g[i] = y
        /\ \A i, j \in 1..n : g[i] = g[j] => i = j
        /\ g \in [1..n -> T]
    BY <1>1
  <2> HIDE DEF g, n, T
  <2> QED
    BY <2>1, Zenon DEF Bijection, Injection, Surjection, IsInjective
<1>4. ExistsBijection(1..n, Uuids(x)) /\ ExistsBijection(1..n, T)
  BY <1>2, <1>3 DEF ExistsBijection
<1> HIDE DEF n, T
<1>5. Cardinality(Uuids(x)) = n /\ Cardinality(T) = n
  BY <1>1, <1>4, FS_CountingElements
<1> QED
  BY <1>1, <1>5 DEF n, T

-----------------------------------------------------------------------------
(* What the steps of the panel do to a push                                *)

\* The other pushes are as they were.
Others(u) == \A v \in Push \ {u} : push'[v] = push[v]

\* A push replaced by another record of its type.
LEMMA Update ==
  ASSUME push \in [Push -> PushType], NEW u \in Push, NEW y \in PushType,
         push' = [push EXCEPT ![u] = y]
  PROVE  push' \in [Push -> PushType] /\ Others(u) /\ push'[u] = y
BY DEF Others

\* The profiles are loaded.
LEMMA FetchProfilesEffect ==
  ASSUME TypeOK, NEW u \in Push, FetchProfiles(u)
  PROVE  /\ push' \in [Push -> PushType] /\ Others(u)
         /\ push[u].stage = "calling" /\ push'[u].stage = "iterating"
         /\ push'[u].loaded = Selected[u] \cap profiles
         /\ push'[u].queue = Selected[u] \cap profiles
         /\ push'[u].sent = push[u].sent /\ push'[u].outcome = push[u].outcome
<1> DEFINE S == Selected[u] \cap profiles
           y == [push[u] EXCEPT !.stage = "iterating", !.queue = S, !.loaded = S]
<1>1. push \in [Push -> PushType] /\ push[u].stage = "calling"
  BY PushTyped DEF FetchProfiles
<1>2. push' = [push EXCEPT ![u] = y]
  BY DEF FetchProfiles
<1>3. S \in SUBSET Profile /\ S = Selected[u] \cap profiles /\ "iterating" \in Stages
  BY PushTyped DEF Stages
<1> HIDE DEF S
<1>4. y \in PushType
  BY <1>1, <1>3 DEF PushType
<1>5. /\ y.stage = "iterating" /\ y.loaded = S /\ y.queue = S
      /\ y.sent = push[u].sent /\ y.outcome = push[u].outcome
  BY <1>1 DEF PushType
<1> HIDE DEF y
<1> QED
  BY <1>1, <1>2, <1>3, <1>4, <1>5, Update

\* The iteration ends.
LEMMA EndIterationEffect ==
  ASSUME TypeOK, NEW u \in Push, EndIteration(u)
  PROVE  /\ push' \in [Push -> PushType] /\ Others(u)
         /\ push[u].stage = "iterating" /\ push[u].queue = {}
         /\ push'[u].stage = "sent" /\ push'[u].loaded = push[u].loaded
         /\ push'[u].sent = push[u].sent /\ push'[u].outcome = push[u].outcome
<1> DEFINE y == [push[u] EXCEPT !.stage = "sent"]
<1>1. /\ push \in [Push -> PushType] /\ push[u].stage = "iterating"
      /\ push[u].queue = {} /\ "sent" \in Stages
  BY PushTyped DEF EndIteration, Stages
<1>2. push' = [push EXCEPT ![u] = y]
  BY DEF EndIteration
<1>3. y \in PushType
  BY <1>1 DEF PushType
<1>4. /\ y.stage = "sent" /\ y.loaded = push[u].loaded
      /\ y.sent = push[u].sent /\ y.outcome = push[u].outcome
  BY <1>1 DEF PushType
<1> HIDE DEF y
<1> QED
  BY <1>1, <1>2, <1>3, <1>4, Update

\* The message of the profile in work follows those sent.
LEMMA SendProfileEffect ==
  ASSUME TypeOK, NEW u \in Push, SendProfile(u), push[u].at \in Profile
  PROVE  /\ push' \in [Push -> PushType] /\ Others(u)
         /\ push[u].stage = "converting" /\ push[u].todo = {}
         /\ push'[u].stage = "iterating"
         /\ push'[u].sent = Append(push[u].sent, Message(u))
         /\ push[u].sent \in Seq(MessageType) /\ Message(u) \in MessageType
         /\ push'[u].loaded = push[u].loaded /\ push'[u].queue = push[u].queue
         /\ push'[u].outcome = push[u].outcome
<1> DEFINE m == Message(u)
           s == Append(push[u].sent, m)
           y == [push[u] EXCEPT !.stage = "iterating", !.at = NoProfile,
                                !.rules = {}, !.sent = s]
<1>1. /\ push \in [Push -> PushType] /\ push[u] \in PushType
      /\ push[u].stage = "converting" /\ push[u].todo = {}
  BY PushTyped DEF SendProfile
<1>2. m \in MessageType
  BY <1>1 DEF Message, MessageType, PushType
<1>3. push' = [push EXCEPT ![u] = y]
  BY DEF SendProfile
<1>4. m = Message(u) /\ s = Append(push[u].sent, m)
  OBVIOUS
<1> HIDE DEF m
<1>5. push[u].sent \in Seq(MessageType) /\ s \in Messages
  BY <1>1, <1>2, AppendAt DEF PushType, Messages
<1>6. "iterating" \in Stages /\ {} \in RuleSets /\ NoProfile \in InWork
  BY DEF Stages, RuleSets, InWork
<1> HIDE DEF s
<1>7. y \in PushType
  BY <1>1, <1>5, <1>6 DEF PushType
<1>8. /\ y.stage = "iterating" /\ y.sent = s /\ y.loaded = push[u].loaded
      /\ y.queue = push[u].queue /\ y.outcome = push[u].outcome
  BY <1>1 DEF PushType
<1> HIDE DEF y
<1> QED
  BY <1>1, <1>2, <1>3, <1>4, <1>5, <1>7, <1>8, Update

\* The push is answered or ends without one; what was sent and loaded remains.
Ended(u, outcome) ==
  /\ push' \in [Push -> PushType] /\ Others(u)
  /\ push'[u].stage = "over" /\ push'[u].outcome = outcome
  /\ push'[u].sent = push[u].sent /\ push'[u].loaded = push[u].loaded

\* A push that fails.
LEMMA FailedEffect ==
  ASSUME TypeOK, NEW u \in Push, push' = Failed(u)
  PROVE  Ended(u, "error")
<1> DEFINE y == [push[u] EXCEPT !.stage = "over", !.outcome = "error", !.queue = {},
                                !.at = NoProfile, !.todo = {}, !.rules = {}]
<1>1. /\ push \in [Push -> PushType] /\ "over" \in Stages /\ "error" \in Outcomes
      /\ {} \in RuleSets /\ NoProfile \in InWork
  BY PushTyped DEF Stages, Outcomes, RuleSets, InWork
<1>2. push' = [push EXCEPT ![u] = y]
  BY DEF Failed
<1>3. y \in PushType
  BY <1>1 DEF PushType
<1>4. /\ y.stage = "over" /\ y.outcome = "error"
      /\ y.sent = push[u].sent /\ y.loaded = push[u].loaded
  BY <1>1 DEF PushType
<1> HIDE DEF y
<1> QED
  BY <1>1, <1>2, <1>3, <1>4, Update DEF Ended

\* A push that is answered.
LEMMA SucceedEffect ==
  ASSUME TypeOK, NEW u \in Push, Succeed(u),
         Cardinality(push[u].loaded) \in Nat
  PROVE  /\ Ended(u, "success") /\ push[u].stage = "sent"
         /\ handler[u] = "answered"
         /\ push'[u].reported = Cardinality(push[u].loaded)
<1> DEFINE c == Counted(u)
           y == [push[u] EXCEPT !.stage = "over", !.outcome = "success", !.reported = c]
<1>1. /\ push \in [Push -> PushType] /\ "over" \in Stages /\ "success" \in Outcomes
      /\ push[u].stage = "sent" /\ handler[u] = "answered"
  BY PushTyped DEF Stages, Outcomes, Succeed
<1>2. push' = [push EXCEPT ![u] = y]
  BY DEF Succeed
<1>3. c \in Nat /\ c = Cardinality(push[u].loaded)
  BY DEF Counted
<1> HIDE DEF c
<1>4. y \in PushType
  BY <1>1, <1>3 DEF PushType
<1>5. /\ y.stage = "over" /\ y.outcome = "success" /\ y.reported = c
      /\ y.sent = push[u].sent /\ y.loaded = push[u].loaded
  BY <1>1 DEF PushType
<1> HIDE DEF y
<1> QED
  BY <1>1, <1>2, <1>3, <1>4, <1>5, Update DEF Ended

\* The operator is warned, or the director is called.
LEMMA BeginPushEffect ==
  ASSUME TypeOK, NEW u \in Push, BeginPush(u)
  PROVE  /\ push' \in [Push -> PushType] /\ Others(u) /\ push[u].stage = "idle"
         /\ push'[u].sent = push[u].sent
         /\ \/ push'[u].stage = "calling" /\ push'[u].outcome = push[u].outcome
            \/ push'[u].stage = "over" /\ push'[u].outcome = "warning"
<1> DEFINE w == [push[u] EXCEPT !.stage = "over", !.outcome = "warning"]
           c == [push[u] EXCEPT !.stage = "calling"]
<1>1. /\ push \in [Push -> PushType] /\ push[u].stage = "idle"
      /\ "over" \in Stages /\ "calling" \in Stages /\ "warning" \in Outcomes
  BY PushTyped DEF BeginPush, Stages, Outcomes
<1>2. \/ push' = [push EXCEPT ![u] = w]
      \/ push' = [push EXCEPT ![u] = c]
  BY DEF BeginPush
<1>3. w \in PushType /\ c \in PushType
  BY <1>1 DEF PushType
<1>4. /\ w.stage = "over" /\ w.outcome = "warning" /\ w.sent = push[u].sent
      /\ c.stage = "calling" /\ c.outcome = push[u].outcome /\ c.sent = push[u].sent
  BY <1>1 DEF PushType
<1> HIDE DEF w, c
<1>5. CASE push' = [push EXCEPT ![u] = w]
  BY <1>1, <1>3, <1>4, <1>5, Update
<1>6. CASE push' = [push EXCEPT ![u] = c]
  BY <1>1, <1>3, <1>4, <1>6, Update
<1> QED
  BY <1>2, <1>5, <1>6

\* The rules of a profile, as FetchRules finds them.
RulesToSend(p) == {r \in Rule : ProfileOf[r] = p /\ configs[r] = "there"}

\* A profile leaves the queue and is in work.
LEMMA FetchRulesEffect ==
  ASSUME TypeOK, NEW u \in Push, FetchRules(u)
  PROVE  /\ push' \in [Push -> PushType] /\ Others(u)
         /\ push[u].stage = "iterating" /\ push'[u].stage = "converting"
         /\ push'[u].at \in push[u].queue
         /\ push'[u].queue = push[u].queue \ {push'[u].at}
         /\ push'[u].sent = push[u].sent /\ push'[u].loaded = push[u].loaded
         /\ push'[u].outcome = push[u].outcome /\ push'[u].rules = {}
         /\ push'[u].todo = RulesToSend(push'[u].at)
<1>1. /\ push \in [Push -> PushType] /\ push[u].stage = "iterating"
      /\ "converting" \in Stages /\ {} \in RuleSets
  BY PushTyped DEF FetchRules, Stages, RuleSets
<1>2. PICK p \in push[u].queue :
        push' = [push EXCEPT ![u].stage = "converting", ![u].at = p,
                             ![u].queue = @ \ {p},
                             ![u].todo = {r \in Rule : ProfileOf[r] = p /\ configs[r] = "there"},
                             ![u].rules = {}]
  BY DEF FetchRules
<1> DEFINE t == RulesToSend(p)
           q == push[u].queue \ {p}
           y == [push[u] EXCEPT !.stage = "converting", !.at = p, !.queue = q,
                                !.todo = t, !.rules = {}]
<1>3. /\ t = RulesToSend(p) /\ q = push[u].queue \ {p}
      /\ t \subseteq Rule /\ q \subseteq Profile /\ p \in InWork
  BY <1>1 DEF RulesToSend, PushType, InWork
<1>4. push' = [push EXCEPT ![u] = y]
  BY <1>2 DEF RulesToSend
<1> HIDE DEF t, q
<1>5. y \in PushType
  BY <1>1, <1>3 DEF PushType
<1>6. /\ y.stage = "converting" /\ y.at = p /\ y.queue = q /\ y.todo = t /\ y.rules = {}
      /\ y.sent = push[u].sent /\ y.loaded = push[u].loaded
      /\ y.outcome = push[u].outcome
  BY <1>1 DEF PushType
<1> HIDE DEF y
<1> QED
  BY <1>1, <1>2, <1>3, <1>4, <1>5, <1>6, Update, ZenonT(30)

\* A rule of the profile in work is converted, or the push fails.
LEMMA ConvertRuleEffect ==
  ASSUME TypeOK, NEW u \in Push, ConvertRule(u)
  PROVE  /\ push[u].stage = "converting"
         /\ \/ Ended(u, "error")
            \/ /\ push' \in [Push -> PushType] /\ Others(u)
               /\ push'[u].stage = "converting"
               /\ push'[u].at = push[u].at /\ push'[u].queue = push[u].queue
               /\ push'[u].sent = push[u].sent /\ push'[u].loaded = push[u].loaded
               /\ push'[u].outcome = push[u].outcome
               /\ \E r \in push[u].todo :
                    /\ Converts(r) /\ push'[u].todo = push[u].todo \ {r}
                    /\ push'[u].rules = push[u].rules \cup {<<r, object[r]>>}
<1>1. /\ push \in [Push -> PushType] /\ push[u].stage = "converting"
      /\ object \in [Rule -> Object \cup {Gone}]
  BY PushTyped DEF ConvertRule
<1>2. PICK r \in push[u].todo :
        push' = IF Converts(r)
                THEN [push EXCEPT ![u] =
                       [push[u] EXCEPT !.todo = @ \ {r},
                                       !.rules = @ \cup {<<r, object[r]>>}]]
                ELSE Failed(u)
  BY DEF ConvertRule
<1>3. CASE ~ Converts(r)
  BY <1>1, <1>2, <1>3, FailedEffect
<1>4. CASE Converts(r)
  <2> DEFINE t == push[u].todo \ {r}
             R == push[u].rules \cup {<<r, object[r]>>}
             y == [push[u] EXCEPT !.todo = t, !.rules = R]
  <2>1. /\ t = push[u].todo \ {r} /\ R = push[u].rules \cup {<<r, object[r]>>}
        /\ t \subseteq Rule /\ r \in Rule /\ push[u].rules \in RuleSets
    BY <1>1 DEF PushType
  <2>2. R \in RuleSets
    BY <1>1, <2>1 DEF RuleSets
  <2>3. push' = [push EXCEPT ![u] = y]
    BY <1>1, <1>2, <1>4 DEF PushType
  <2> HIDE DEF t, R
  <2>4. y \in PushType
    BY <1>1, <2>1, <2>2 DEF PushType
  <2>5. /\ y.stage = push[u].stage /\ y.at = push[u].at /\ y.queue = push[u].queue
        /\ y.todo = t /\ y.rules = R /\ y.sent = push[u].sent
        /\ y.loaded = push[u].loaded /\ y.outcome = push[u].outcome
    BY <1>1 DEF PushType
  <2> HIDE DEF y
  <2> QED
    BY <1>1, <1>4, <2>1, <2>3, <2>4, <2>5, Update
<1> QED
  BY <1>3, <1>4

-----------------------------------------------------------------------------
(* Types and the iteration, step by step                                   *)

\* No push has begun.
LEMMA PushInvInit == Init => PushInv
<1> SUFFICES ASSUME Init PROVE PushInv
  OBVIOUS
<1> DEFINE x == [stage |-> "idle", loaded |-> {}, queue |-> {}, at |-> NoProfile,
                 todo |-> {}, rules |-> {}, sent |-> <<>>, outcome |-> "none",
                 reported |-> 0]
<1>1. push = [u \in Push |-> x]
  BY DEF Init
<1>2. x \in PushType
  <2>1. /\ "idle" \in Stages /\ "none" \in Outcomes /\ {} \in RuleSets
        /\ NoProfile \in InWork /\ <<>> \in Messages
    BY DEF Stages, Outcomes, RuleSets, InWork, Messages
  <2> QED
    BY <2>1 DEF PushType
<1>3. Iterated(x)
  BY DEF Iterated, Uuids
<1> HIDE DEF x
<1>4. push \in [Push -> PushType] /\ \A u \in Push : Iterated(push[u])
  BY <1>1, <1>2, <1>3
<1>5. object \in [Rule -> Object \cup {Gone}]
  <2>1. [version |-> 0, parses |-> TRUE] \in Object
    BY DEF Object
  <2> QED
    BY <2>1 DEF Init
<1>6. /\ profiles \in SUBSET Profile
      /\ configs \in [Rule -> {"unborn", "there", "deleted"}]
      /\ edits \in Nat /\ deaths \in Nat
      /\ handler \in [Push -> {"none", "open", "answered", "closed"}]
      /\ current \in SUBSET MessageType /\ alone \in [Push -> BOOLEAN]
  BY DEF Init
<1> QED
  BY <1>4, <1>5, <1>6, PushTyped DEF PushInv

\* Uuids depends on what was sent alone.
LEMMA SameSent ==
  ASSUME NEW x, NEW y, x.sent = y.sent
  PROVE  Uuids(x) = Uuids(y)
BY DEF Uuids

\* Nothing moves in a push that is over.
LEMMA EndedKeeps ==
  ASSUME NEW u \in Push, NEW outcome, Ended(u, outcome), Iterated(push[u]),
         outcome = "success" =>
           /\ push[u].loaded = Uuids(push[u])
           /\ push'[u].reported = Cardinality(push[u].loaded)
  PROVE  Iterated(push'[u])
BY SameSent DEF Ended, Iterated

\* The profile in work is the next one sent.
LEMMA SendKeeps ==
  ASSUME TypeOK, NEW u \in Push, SendProfile(u), Iterated(push[u])
  PROVE  push' \in [Push -> PushType] /\ Others(u) /\ Iterated(push'[u])
<1>1. push[u].stage = "converting"
  BY DEF SendProfile
<1>2. /\ push[u].at \in Profile /\ push[u].at \notin push[u].queue \cup Uuids(push[u])
      /\ push[u].queue \cap Uuids(push[u]) = {} /\ push[u].outcome = "none"
      /\ push[u].loaded = push[u].queue \cup {push[u].at} \cup Uuids(push[u])
      /\ \A i, j \in DOMAIN push[u].sent : push[u].sent[i].uuid = push[u].sent[j].uuid => i = j
  BY <1>1 DEF Iterated
<1> DEFINE s == push[u].sent
           t == push'[u].sent
           n == Len(s)
<1>3. /\ s \in Seq(MessageType) /\ Message(u) \in MessageType
      /\ t = Append(s, Message(u)) /\ Message(u).uuid = push[u].at
  BY <1>2, SendProfileEffect DEF Message
<1>4. /\ n \in Nat /\ DOMAIN s = 1..n /\ DOMAIN t = 1..(n + 1)
      /\ \A i \in 1..n : t[i] = s[i]
      /\ t[n + 1].uuid = push[u].at
  BY <1>3, AppendAt
<1> HIDE DEF n
<1>5. \A i \in 1..n : s[i].uuid # push[u].at
  BY <1>2, <1>4 DEF Uuids
<1>6. \A i, j \in DOMAIN t : t[i].uuid = t[j].uuid => i = j
  <2> SUFFICES ASSUME NEW i \in 1..(n + 1), NEW j \in 1..(n + 1), t[i].uuid = t[j].uuid
               PROVE  i = j
    BY <1>4
  <2>1. (i \in 1..n \/ i = n + 1) /\ (j \in 1..n \/ j = n + 1)
    BY <1>4
  <2> QED
    BY <1>2, <1>4, <1>5, <2>1
<1>7. Uuids(push'[u]) = Uuids(push[u]) \cup {push[u].at}
  <2>1. 1..(n + 1) = (1..n) \cup {n + 1}
    BY <1>4
  <2> QED
    BY <1>4, <2>1 DEF Uuids
<1>8. /\ push' \in [Push -> PushType] /\ Others(u) /\ push'[u].stage = "iterating"
      /\ push'[u].loaded = push[u].loaded /\ push'[u].queue = push[u].queue
      /\ push'[u].outcome = push[u].outcome
  BY <1>2, SendProfileEffect
<1> HIDE DEF s, t
<1> QED
  BY <1>2, <1>6, <1>7, <1>8 DEF Iterated, t

\* What the panel loaded is split among the three at each of its steps.
LEMMA PanelKeeps ==
  ASSUME PushInv, NEW u \in Push, BeginPush(u) \/ PanelStep(u)
  PROVE  /\ push' \in [Push -> PushType] /\ Others(u)
         /\ \A v \in Push : Iterated(push'[v])
<1>1. TypeOK /\ Iterated(push[u])
  BY DEF PushInv
<1> SUFFICES push' \in [Push -> PushType] /\ Others(u) /\ Iterated(push'[u])
  BY DEF PushInv, Others
<1>2. CASE BeginPush(u)
  BY <1>1, <1>2, BeginPushEffect, SameSent DEF Iterated
<1>3. CASE FetchProfiles(u)
  <2>1. Uuids(push'[u]) = {}
    BY <1>1, <1>3, FetchProfilesEffect DEF Iterated, Uuids
  <2> QED
    BY <1>1, <1>3, <2>1, FetchProfilesEffect, ZenonT(30) DEF Iterated
<1>4. CASE FetchRules(u)
  <2>1. push[u] \in PushType /\ push[u].queue \subseteq Profile
    BY <1>1, PushTyped DEF PushType
  <2> QED
    BY <1>1, <1>4, <2>1, FetchRulesEffect, SameSent DEF Iterated
<1>5. CASE ConvertRule(u)
  <2>1. CASE Ended(u, "error")
    BY <1>1, <2>1, EndedKeeps DEF Ended
  <2>2. CASE ~ Ended(u, "error")
    BY <1>1, <1>5, <2>2, ConvertRuleEffect, SameSent DEF Iterated
  <2> QED
    BY <2>1, <2>2
<1>6. CASE SendProfile(u)
  BY <1>1, <1>6, SendKeeps
<1>7. CASE EndIteration(u)
  BY <1>1, <1>7, EndIterationEffect, SameSent, ZenonT(30) DEF Iterated
<1>8. CASE Succeed(u)
  <2>1. push[u].stage = "sent" /\ push[u] \in PushType
    BY <1>1, <1>8, PushTyped DEF Succeed
  <2>2. /\ push[u].loaded = Uuids(push[u])
        /\ \A i, j \in DOMAIN push[u].sent : push[u].sent[i].uuid = push[u].sent[j].uuid => i = j
    BY <1>1, <2>1 DEF Iterated
  <2>3. Cardinality(push[u].loaded) \in Nat
    BY <2>1, <2>2, CountSent
  <2> QED
    BY <1>1, <1>8, <2>2, <2>3, SucceedEffect, EndedKeeps DEF Ended
<1>9. CASE Fail(u)
  <2>1. Ended(u, "error")
    BY <1>1, <1>9, FailedEffect DEF Fail
  <2> QED
    BY <1>1, <2>1, EndedKeeps DEF Ended
<1> QED
  BY <1>2, <1>3, <1>4, <1>5, <1>6, <1>7, <1>8, <1>9 DEF PanelStep

\* What an edit does to the tables, as far as a push can tell.
TablesTyped ==
  /\ profiles \in SUBSET Profile
  /\ configs \in [Rule -> {"unborn", "there", "deleted"}]
  /\ object \in [Rule -> Object \cup {Gone}]
  /\ edits \in Nat

EditStep ==
  \/ \E r \in Rule : SaveExpression(r) \/ DeleteObject(r) \/ AddConfig(r) \/ DeleteConfig(r)
  \/ \E p \in Profile : DeleteProfile(p)

\* Nothing that was deleted comes back, and versions grow.
LEMMA EditEffect ==
  ASSUME TypeOK, EditStep
  PROVE  /\ TablesTyped' /\ UNCHANGED <<pushVars, directorVars>>
         /\ profiles' \subseteq profiles /\ edits' = edits + 1
         /\ \A r \in Rule :
              /\ configs'[r] = "there" => configs[r] \in {"there", "unborn"}
              /\ configs'[r] = "unborn" => configs[r] = "unborn"
              /\ object'[r] # Gone =>
                   /\ object[r] # Gone
                   /\ object'[r] = object[r] \/ object'[r].version = edits + 1
<1>1. TablesTyped
  BY PushTyped DEF TablesTyped
<1>2. ASSUME NEW r \in Rule, SaveExpression(r)
      PROVE  /\ TablesTyped' /\ UNCHANGED <<profiles, configs>> /\ edits' = edits + 1
             /\ \A q \in Rule : object'[q] # Gone =>
                  /\ object[q] # Gone
                  /\ object'[q] = object[q] \/ object'[q].version = edits + 1
  <2>1. PICK parses \in BOOLEAN :
          object' = [object EXCEPT ![r] = [version |-> edits + 1, parses |-> parses]]
    BY <1>2 DEF SaveExpression
  <2>2. [version |-> edits + 1, parses |-> parses] \in Object
    BY <1>1 DEF Object, TablesTyped
  <2> QED
    BY <1>1, <1>2, <2>1, <2>2 DEF SaveExpression, Edit, TablesTyped
<1>3. ASSUME NEW r \in Rule, DeleteObject(r)
      PROVE  /\ TablesTyped' /\ UNCHANGED <<profiles, configs>> /\ edits' = edits + 1
             /\ \A q \in Rule : object'[q] # Gone => object'[q] = object[q]
  BY <1>1, <1>3 DEF DeleteObject, Edit, TablesTyped
<1>4. ASSUME NEW r \in Rule, AddConfig(r) \/ DeleteConfig(r)
      PROVE  /\ TablesTyped' /\ UNCHANGED <<profiles, object>> /\ edits' = edits + 1
             /\ \A q \in Rule :
                  /\ configs'[q] = "there" => configs[q] \in {"there", "unborn"}
                  /\ configs'[q] = "unborn" => configs[q] = "unborn"
  BY <1>1, <1>4 DEF AddConfig, DeleteConfig, Edit, TablesTyped
<1>5. ASSUME NEW p \in Profile, DeleteProfile(p)
      PROVE  /\ TablesTyped' /\ UNCHANGED object /\ edits' = edits + 1
             /\ profiles' \subseteq profiles
             /\ \A q \in Rule :
                  /\ configs'[q] = "there" => configs[q] \in {"there", "unborn"}
                  /\ configs'[q] = "unborn" => configs[q] = "unborn"
  BY <1>1, <1>5 DEF DeleteProfile, Edit, TablesTyped
<1>6. UNCHANGED <<pushVars, directorVars>>
  BY DEF EditStep, SaveExpression, DeleteObject, AddConfig, DeleteConfig, DeleteProfile, Edit
<1>7. CASE \E r \in Rule : SaveExpression(r)
  BY <1>2, <1>6, <1>7
<1>8. CASE \E r \in Rule : DeleteObject(r)
  BY <1>3, <1>6, <1>8
<1>9. CASE \E r \in Rule : AddConfig(r) \/ DeleteConfig(r)
  BY <1>4, <1>6, <1>9
<1>10. CASE \E p \in Profile : DeleteProfile(p)
  BY <1>5, <1>6, <1>10
<1> QED
  BY <1>7, <1>8, <1>9, <1>10 DEF EditStep

\* The steps of the director leave the panel alone.
DirectorStep ==
  \/ \E u \in Push : OpenStream(u) \/ Install(u)
  \/ DirectorDies

\* A whole stream is installed whole.
LEMMA InstallEffect ==
  ASSUME TypeOK, NEW u \in Push, Install(u)
  PROVE  /\ current' \subseteq MessageType
         /\ WholeStream(u) => current' = Sent(u)
<1>1. push[u].sent \in Seq(MessageType)
  BY PushTyped DEF PushType, Messages
<1>2. PICK n \in 0..Len(push[u].sent) :
        /\ WholeStream(u) => n = Len(push[u].sent)
        /\ current' = Received(u, n)
  BY DEF Install
<1> QED
  BY <1>1, <1>2 DEF Received, Sent

\* It changes its own variables only.
LEMMA DirectorEffect ==
  ASSUME TypeOK, DirectorStep
  PROVE  /\ UNCHANGED <<tableVars, pushVars>>
         /\ handler' \in [Push -> {"none", "open", "answered", "closed"}]
         /\ current' \subseteq MessageType /\ deaths' \in Nat
         /\ alone' \in [Push -> BOOLEAN]
<1>1. /\ handler \in [Push -> {"none", "open", "answered", "closed"}]
      /\ current \subseteq MessageType /\ deaths \in Nat
      /\ alone \in [Push -> BOOLEAN]
  BY PushTyped
<1>2. ASSUME NEW u \in Push, OpenStream(u)
      PROVE  /\ UNCHANGED <<tableVars, pushVars, current, alone, deaths>>
             /\ handler' \in [Push -> {"none", "open", "answered", "closed"}]
  BY <1>1, <1>2 DEF OpenStream
<1>3. ASSUME NEW u \in Push, Install(u)
      PROVE  /\ UNCHANGED <<tableVars, pushVars, alone, deaths>>
             /\ handler' \in [Push -> {"none", "open", "answered", "closed"}]
  BY <1>1, <1>3 DEF Install
<1>4. ASSUME DirectorDies
      PROVE  /\ UNCHANGED <<tableVars, pushVars>> /\ deaths' \in Nat
             /\ handler' \in [Push -> {"none", "open", "answered", "closed"}]
             /\ current' \subseteq MessageType /\ alone' \in [Push -> BOOLEAN]
  BY <1>1, <1>4 DEF DirectorDies
<1> QED
  BY <1>1, <1>2, <1>3, <1>4, InstallEffect DEF DirectorStep

\* The steps, by whose they are.
LEMMA NextSteps ==
  ASSUME [Next]_vars
  PROVE  \/ EditStep \/ DirectorStep \/ UNCHANGED vars
         \/ \E u \in Push : BeginPush(u) \/ PanelStep(u)
BY DEF Next, EditStep, DirectorStep, Quiescent

\* PushInv is inductive.
LEMMA PushInvStep == PushInv /\ [Next]_vars => PushInv'
<1> SUFFICES ASSUME PushInv, [Next]_vars PROVE PushInv'
  OBVIOUS
<1>1. TypeOK /\ \A u \in Push : Iterated(push[u])
  BY DEF PushInv
<1>2. CASE EditStep
  BY <1>1, <1>2, EditEffect, PushTyped DEF PushInv, TablesTyped, pushVars, directorVars, TypeOK
<1>3. CASE DirectorStep
  BY <1>1, <1>3, DirectorEffect, PushTyped, PushTypedNext DEF PushInv, tableVars, pushVars
<1>4. CASE UNCHANGED vars
  BY <1>1, <1>4 DEF PushInv, TypeOK, vars, tableVars, pushVars, directorVars
<1>5. ASSUME NEW u \in Push, BeginPush(u) \/ PanelStep(u)
      PROVE  PushInv'
  <2>1. /\ push' \in [Push -> PushType]
        /\ \A v \in Push : Iterated(push'[v])
    BY <1>5, PanelKeeps
  <2>2. /\ UNCHANGED <<tableVars, handler, current, deaths>>
        /\ alone' \in [Push -> BOOLEAN]
    BY <1>1, <1>5, PushTyped DEF BeginPush, PanelStep, FetchProfiles, FetchRules,
      ConvertRule, SendProfile, EndIteration, Succeed, Fail, directorVars
  <2> QED
    BY <1>1, <2>1, <2>2, PushTyped, PushTypedNext DEF PushInv, tableVars
<1> QED
  BY <1>2, <1>3, <1>4, <1>5, NextSteps

\* What is loaded in a push is to come, in work or sent, whoever acts.
THEOREM PushInvariant == Spec => []PushInv
BY PushInvInit, PushInvStep, PTL DEF Spec

-----------------------------------------------------------------------------
(* What follows                                                            *)

\* Every variable keeps its type.
THEOREM TypeCorrect == Spec => []TypeOK
BY PushInvariant, PTL DEF PushInv

\* The number of profiles a successful push reports is the number of those it
\* has sent, whatever is deleted between the iteration and the count.
THEOREM ReportedCorrect == Spec => []ReportedIsSent
<1>1. PushInv => ReportedIsSent
  <2> SUFFICES ASSUME PushInv, NEW u \in Push, push[u].outcome = "success"
               PROVE  push[u].reported = Cardinality(Sent(u))
    BY DEF ReportedIsSent
  <2>1. push[u] \in PushType /\ Iterated(push[u])
    BY PushTyped DEF PushInv
  <2>2. /\ push[u].reported = Cardinality(Uuids(push[u]))
        /\ \A i, j \in DOMAIN push[u].sent : push[u].sent[i].uuid = push[u].sent[j].uuid => i = j
    BY <2>1 DEF Iterated
  <2> QED
    BY <2>1, <2>2, CountSent DEF Sent
<1> QED
  BY <1>1, PushInvariant, PTL

-----------------------------------------------------------------------------
(* The last success stands                                                 *)

\* A push that is alone is the only one the director may still install, and
\* its answer is given after its profiles are installed.
Solo ==
  \A u \in Push :
    /\ alone[u] => \A w \in Push \ {u} : ~ MayInstall(w)
    /\ handler[u] # "none" => push[u].stage # "idle"
    /\ handler[u] = "answered" => push[u].stage \in {"sent", "over"}
    /\ handler[u] = "answered" /\ alone[u] => current = Sent(u)
    /\ push[u].outcome = "success" => handler[u] = "answered"

\* No push is alone at first.
LEMMA SoloInit == Init => Solo
<1> SUFFICES ASSUME Init, NEW u \in Push
             PROVE  handler[u] = "none" /\ ~ alone[u] /\ push[u].outcome = "none"
  BY DEF Solo
<1> QED
  BY DEF Init

\* Only the push that begins may be alone.
LEMMA BeginKeepsSolo ==
  ASSUME PushInv, Solo, NEW u \in Push, BeginPush(u)
  PROVE  Solo'
<1>1. /\ TypeOK /\ push[u].stage = "idle" /\ Others(u)
      /\ push'[u].outcome \in {push[u].outcome, "warning"}
      /\ push'[u].stage # "idle" /\ Iterated(push[u])
  BY BeginPushEffect DEF PushInv
<1>2. /\ handler' = handler /\ current' = current
      /\ alone' = [v \in Push |-> v = u /\ \A w \in Push : ~ MayInstall(w)]
  BY DEF BeginPush
<1>3. handler[u] = "none" /\ push[u].outcome = "none"
  BY <1>1 DEF Solo, Iterated
<1>4. \A w \in Push \ {u} : MayInstall(w)' => MayInstall(w)
  BY <1>1, <1>2 DEF MayInstall, Others
<1>5. \A v \in Push : alone'[v] => v = u /\ \A w \in Push \ {u} : ~ MayInstall(w)'
  BY <1>2, <1>4
<1> SUFFICES ASSUME NEW v \in Push
             PROVE  /\ alone'[v] => \A w \in Push \ {v} : ~ MayInstall(w)'
                    /\ handler'[v] # "none" => push'[v].stage # "idle"
                    /\ handler'[v] = "answered" => push'[v].stage \in {"sent", "over"}
                    /\ handler'[v] = "answered" /\ alone'[v] => current' = Sent(v)'
                    /\ push'[v].outcome = "success" => handler'[v] = "answered"
  BY DEF Solo
<1>6. CASE v = u
  BY <1>1, <1>2, <1>3, <1>5, <1>6
<1>7. CASE v # u
  BY <1>1, <1>2, <1>5, <1>7 DEF Others, Solo
<1> QED
  BY <1>6, <1>7

\* What a step of the panel does to its push, as far as the director can tell.
LEMMA PanelEffect ==
  ASSUME PushInv, NEW u \in Push, PanelStep(u)
  PROVE  /\ Others(u) /\ UNCHANGED <<tableVars, before, directorVars>>
         /\ push[u].stage \notin {"idle", "over"} /\ push[u].outcome = "none"
         /\ push'[u].stage # "idle"
         /\ push[u].stage = "sent" => push'[u].stage = "over" /\ push'[u].sent = push[u].sent
         /\ push'[u].outcome = "success" => handler[u] = "answered"
<1>1. TypeOK /\ Iterated(push[u]) /\ Others(u)
  BY PanelKeeps DEF PushInv
<1>2. /\ UNCHANGED <<tableVars, before, directorVars>>
      /\ push[u].stage \notin {"idle", "over"}
  BY DEF PanelStep, FetchProfiles, FetchRules, ConvertRule, SendProfile, EndIteration,
    Succeed, Fail
<1>3. push[u].outcome = "none"
  BY <1>1, <1>2 DEF Iterated
<1>4. CASE FetchProfiles(u)
  BY <1>1, <1>2, <1>3, <1>4, FetchProfilesEffect
<1>5. CASE FetchRules(u)
  BY <1>1, <1>2, <1>3, <1>5, FetchRulesEffect
<1>6. CASE ConvertRule(u)
  BY <1>1, <1>2, <1>3, <1>6, ConvertRuleEffect DEF Ended
<1>7. CASE SendProfile(u)
  <2>1. push[u].at \in Profile
    BY <1>1, <1>7 DEF SendProfile, Iterated
  <2> QED
    BY <1>1, <1>2, <1>3, <1>7, <2>1, SendProfileEffect
<1>8. CASE EndIteration(u)
  BY <1>1, <1>2, <1>3, <1>8, EndIterationEffect
<1>9. CASE Succeed(u)
  <2>1. push[u].stage = "sent" /\ push[u] \in PushType
    BY <1>1, <1>9, PushTyped DEF Succeed
  <2>2. Cardinality(push[u].loaded) \in Nat
    BY <1>1, <2>1, CountSent DEF Iterated
  <2> QED
    BY <1>1, <1>2, <1>3, <1>9, <2>2, SucceedEffect DEF Ended
<1>10. CASE Fail(u)
  BY <1>1, <1>2, <1>3, <1>10, FailedEffect DEF Fail, Ended
<1> QED
  BY <1>4, <1>5, <1>6, <1>7, <1>8, <1>9, <1>10 DEF PanelStep

\* No step of the panel lets another stream install.
LEMMA PanelKeepsSolo ==
  ASSUME PushInv, Solo, NEW u \in Push, PanelStep(u)
  PROVE  Solo'
<1>1. /\ Others(u) /\ UNCHANGED directorVars
      /\ push[u].stage \notin {"idle", "over"} /\ push[u].outcome = "none"
      /\ push'[u].stage # "idle"
      /\ push[u].stage = "sent" => push'[u].stage = "over" /\ push'[u].sent = push[u].sent
      /\ push'[u].outcome = "success" => handler[u] = "answered"
  BY PanelEffect
<1>2. handler' = handler /\ current' = current /\ alone' = alone
  BY <1>1 DEF directorVars
<1>3. \A w \in Push : MayInstall(w)' => MayInstall(w)
  BY <1>1, <1>2 DEF MayInstall, Others
<1>4. \A v \in Push : push'[v].sent = push[v].sent => Sent(v)' = Sent(v)
  BY DEF Sent
<1> SUFFICES ASSUME NEW v \in Push
             PROVE  /\ alone'[v] => \A w \in Push \ {v} : ~ MayInstall(w)'
                    /\ handler'[v] # "none" => push'[v].stage # "idle"
                    /\ handler'[v] = "answered" => push'[v].stage \in {"sent", "over"}
                    /\ handler'[v] = "answered" /\ alone'[v] => current' = Sent(v)'
                    /\ push'[v].outcome = "success" => handler'[v] = "answered"
  BY DEF Solo
<1>5. CASE v = u
  BY <1>1, <1>2, <1>3, <1>4, <1>5 DEF Solo
<1>6. CASE v # u
  BY <1>1, <1>2, <1>3, <1>4, <1>6 DEF Solo, Others
<1> QED
  BY <1>5, <1>6

\* A handler that may install something is the only one if a push is alone.
LEMMA OnlyOne ==
  ASSUME Solo, NEW u \in Push, NEW v \in Push, alone[v], MayInstall(u)
  PROVE  v = u
BY DEF Solo

\* The stream that opens is one that might.
LEMMA OpenKeepsSolo ==
  ASSUME PushInv, Solo, NEW u \in Push, OpenStream(u)
  PROVE  Solo'
<1>1. /\ handler[u] = "none" /\ MayInstall(u)
      /\ handler' = [handler EXCEPT ![u] = "open"]
      /\ push' = push /\ current' = current /\ alone' = alone
  BY DEF OpenStream, pushVars
<1>2. handler \in [Push -> {"none", "open", "answered", "closed"}]
  BY PushTyped DEF PushInv
<1>3. handler'[u] = "open" /\ \A w \in Push \ {u} : handler'[w] = handler[w]
  BY <1>1, <1>2
<1>4. push[u].stage # "idle" /\ push[u].outcome # "success"
  BY <1>1 DEF MayInstall
<1>5. \A w \in Push : MayInstall(w)' => MayInstall(w)
  BY <1>1, <1>3 DEF MayInstall
<1>6. \A v \in Push : Sent(v)' = Sent(v)
  BY <1>1 DEF Sent
<1> SUFFICES ASSUME NEW v \in Push
             PROVE  /\ alone'[v] => \A w \in Push \ {v} : ~ MayInstall(w)'
                    /\ handler'[v] # "none" => push'[v].stage # "idle"
                    /\ handler'[v] = "answered" => push'[v].stage \in {"sent", "over"}
                    /\ handler'[v] = "answered" /\ alone'[v] => current' = Sent(v)'
                    /\ push'[v].outcome = "success" => handler'[v] = "answered"
  BY DEF Solo
<1> QED
  BY <1>1, <1>3, <1>4, <1>5, <1>6 DEF Solo

\* The stream that installs is of the push that is alone, if one is.
LEMMA InstallKeepsSolo ==
  ASSUME PushInv, Solo, NEW u \in Push, Install(u)
  PROVE  Solo'
<1>1. /\ handler[u] = "open" /\ MayInstall(u)
      /\ handler' = [handler EXCEPT ![u] = IF WholeStream(u) THEN "answered" ELSE "closed"]
      /\ push' = push /\ alone' = alone
      /\ WholeStream(u) => current' = Sent(u)
  BY InstallEffect DEF Install, pushVars, MayInstall, PushInv
<1>2. handler \in [Push -> {"none", "open", "answered", "closed"}]
  BY PushTyped DEF PushInv
<1>3. /\ handler'[u] = IF WholeStream(u) THEN "answered" ELSE "closed"
      /\ \A w \in Push \ {u} : handler'[w] = handler[w]
  BY <1>1, <1>2
<1>4. /\ push[u].stage # "idle" /\ push[u].outcome # "success"
      /\ handler'[u] = "answered" => push[u].stage = "sent" /\ current' = Sent(u)
  BY <1>1, <1>3 DEF Solo, WholeStream
<1>5. \A w \in Push : MayInstall(w)' => MayInstall(w)
  BY <1>1, <1>3 DEF MayInstall
<1>6. \A v \in Push : Sent(v)' = Sent(v)
  BY <1>1 DEF Sent
<1>7. \A v \in Push \ {u} : ~ alone[v]
  BY <1>1, OnlyOne
<1> SUFFICES ASSUME NEW v \in Push
             PROVE  /\ alone'[v] => \A w \in Push \ {v} : ~ MayInstall(w)'
                    /\ handler'[v] # "none" => push'[v].stage # "idle"
                    /\ handler'[v] = "answered" => push'[v].stage \in {"sent", "over"}
                    /\ handler'[v] = "answered" /\ alone'[v] => current' = Sent(v)'
                    /\ push'[v].outcome = "success" => handler'[v] = "answered"
  BY DEF Solo
<1> QED
  BY <1>1, <1>3, <1>4, <1>5, <1>6, <1>7 DEF Solo

\* A death of the director leaves no push alone.
LEMMA DeathKeepsSolo ==
  ASSUME PushInv, Solo, DirectorDies
  PROVE  Solo'
<1>1. /\ push' = push
      /\ \A v \in Push : ~ alone'[v]
      /\ \A v \in Push : handler'[v] = IF handler[v] = "open" THEN "closed" ELSE handler[v]
  BY DEF DirectorDies, pushVars
<1> QED
  BY <1>1 DEF Solo

\* Solo is inductive, relative to PushInv.
LEMMA SoloStep == PushInv /\ Solo /\ [Next]_vars => Solo'
<1> SUFFICES ASSUME PushInv, Solo, [Next]_vars PROVE Solo'
  OBVIOUS
<1>1. ASSUME UNCHANGED <<push, handler, current, alone>> PROVE Solo'
  BY <1>1 DEF Solo, MayInstall, Sent
<1>2. CASE EditStep
  BY <1>1, <1>2, EditEffect DEF PushInv, pushVars, directorVars
<1>3. CASE DirectorStep
  BY <1>3, OpenKeepsSolo, InstallKeepsSolo, DeathKeepsSolo DEF DirectorStep
<1>4. CASE UNCHANGED vars
  BY <1>1, <1>4 DEF vars, pushVars, directorVars
<1> QED
  BY <1>2, <1>3, <1>4, NextSteps, BeginKeepsSolo, PanelKeepsSolo

\* What a successful push sent is what the director works with until it dies or
\* another push begins, if no other stream was open when it began.
THEOREM LastSuccessCorrect == Spec => []LastSuccessStands
<1>1. Solo => LastSuccessStands
  BY DEF Solo, LastSuccessStands
<1> QED
  BY <1>1, PushInvariant, SoloInit, SoloStep, PTL DEF Spec

-----------------------------------------------------------------------------
(* A success is complete                                                   *)

\* A rule that was and is there stays in between, and an expression only gets
\* newer.
Kept(u) ==
  \A r \in Rule :
    /\ before[u].configs[r] = "there" => configs[r] # "unborn"
    /\ object[r] # Gone =>
         /\ before[u].object[r] \in Object
         /\ before[u].object[r].version <= object[r].version

\* The rules R hold r, as it was when the push began or newer.
Covers(u, r, R) ==
  \E x \in R :
    /\ x[1] = r
    /\ x[2] # Gone =>
         /\ x[2].parses /\ before[u].object[r] # Gone
         /\ x[2].version >= before[u].object[r].version

\* The rules R hold every rule that stays in profile p, but for those of T.
WholeBut(u, p, R, T) ==
  \A r \in Rule :
    ProfileOf[r] = p /\ before[u].configs[r] = "there" /\ configs[r] = "there" =>
      r \in T \/ Covers(u, r, R)

Complete(u) ==
  /\ Kept(u)
  /\ push[u].stage \in {"iterating", "converting", "sent"} \/ push[u].outcome = "success" =>
       Selected[u] \cap before[u].profiles \cap profiles \subseteq push[u].loaded
  /\ push[u].stage = "converting" =>
       WholeBut(u, push[u].at, push[u].rules, push[u].todo)
  /\ \A i \in DOMAIN push[u].sent :
       WholeBut(u, push[u].sent[i].uuid, push[u].sent[i].rules, {})

\* The tables as of the beginning of each push; no version is of the future; every
\* push that has begun is complete so far.
CompleteInv ==
  /\ \E S : before \in [Push -> S]
  /\ \A r \in Rule : object[r] # Gone => object[r].version <= edits
  /\ \A u \in Push : push[u].stage # "idle" => Complete(u)

\* No push has begun.
LEMMA CompleteInit == Init => CompleteInv
<1> SUFFICES ASSUME Init PROVE CompleteInv
  OBVIOUS
<1>1. \A u \in Push : push[u].stage = "idle"
  BY DEF Init
<1>2. before \in [Push -> {Tables}]
  BY DEF Init
<1>3. edits = 0 /\ \A r \in Rule : object[r].version = 0
  BY DEF Init
<1>4. \E S : before \in [Push -> S]
  BY <1>2
<1> QED
  BY <1>1, <1>3, <1>4 DEF CompleteInv

\* The tables change, the pushes do not.
LEMMA EditKeepsComplete ==
  ASSUME PushInv, CompleteInv, EditStep
  PROVE  CompleteInv'
<1>1. /\ TablesTyped /\ TablesTyped' /\ push' = push /\ before' = before
      /\ profiles' \subseteq profiles /\ edits' = edits + 1
      /\ \A r \in Rule :
           /\ configs'[r] = "there" => configs[r] \in {"there", "unborn"}
           /\ configs'[r] = "unborn" => configs[r] = "unborn"
           /\ object'[r] # Gone =>
                /\ object[r] # Gone
                /\ object'[r] = object[r] \/ object'[r].version = edits + 1
  BY EditEffect, PushTyped DEF PushInv, TablesTyped, pushVars
<1>2. /\ edits \in Nat /\ edits' \in Nat
      /\ \A r \in Rule : object[r] # Gone => object[r].version \in Nat
      /\ \A r \in Rule : object'[r] # Gone => object'[r].version \in Nat
  BY <1>1 DEF TablesTyped, Object
<1>3. \A r \in Rule : object'[r] # Gone =>
        object'[r].version <= edits' /\ object[r].version <= object'[r].version
  BY <1>1, <1>2 DEF CompleteInv
<1>4. ASSUME NEW u \in Push, push[u].stage # "idle"
      PROVE  Complete(u)'
  <2>1. Complete(u)
    BY <1>4 DEF CompleteInv
  <2>2. Kept(u)'
    <3> SUFFICES ASSUME NEW r \in Rule
                 PROVE  /\ before[u].configs[r] = "there" => configs'[r] # "unborn"
                        /\ object'[r] # Gone =>
                             /\ before[u].object[r] \in Object
                             /\ before[u].object[r].version <= object'[r].version
      BY <1>1 DEF Kept
    <3>1. before[u].configs[r] = "there" => configs'[r] # "unborn"
      BY <1>1, <2>1 DEF Complete, Kept
    <3>2. ASSUME object'[r] # Gone
          PROVE  /\ before[u].object[r] \in Object
                 /\ before[u].object[r].version <= object'[r].version
      <4>1. /\ object[r].version \in Nat /\ object'[r].version \in Nat
            /\ object[r].version <= object'[r].version
        BY <1>1, <1>2, <1>3, <3>2
      <4>2. before[u].object[r] \in Object /\ before[u].object[r].version <= object[r].version
        BY <1>1, <2>1, <3>2 DEF Complete, Kept
      <4>3. before[u].object[r].version \in Nat
        BY <4>2 DEF Object
      <4> QED
        BY <4>1, <4>2, <4>3
    <3> QED
      BY <3>1, <3>2
  <2>3. ASSUME NEW p, NEW R, NEW T, WholeBut(u, p, R, T)
        PROVE  WholeBut(u, p, R, T)'
    BY <1>1, <2>1, <2>3 DEF WholeBut, Covers, Complete, Kept
  <2>4. /\ push[u].stage = "converting" =>
             WholeBut(u, push[u].at, push[u].rules, push[u].todo)'
        /\ \A i \in DOMAIN push[u].sent :
             WholeBut(u, push[u].sent[i].uuid, push[u].sent[i].rules, {})'
    BY <1>1, <2>1, <2>3 DEF Complete
  <2> QED
    BY <1>1, <2>1, <2>2, <2>4 DEF Complete
<1> QED
  BY <1>1, <1>3, <1>4 DEF CompleteInv

\* The tables when a push begins are those there are.
LEMMA BeginKeepsComplete ==
  ASSUME PushInv, CompleteInv, NEW u \in Push, BeginPush(u)
  PROVE  CompleteInv'
<1>1. /\ TypeOK /\ Iterated(push[u]) /\ Others(u) /\ push[u].stage = "idle"
      /\ push'[u].sent = push[u].sent
      /\ \/ push'[u].stage = "calling" /\ push'[u].outcome = push[u].outcome
         \/ push'[u].stage = "over" /\ push'[u].outcome = "warning"
  BY BeginPushEffect DEF PushInv
<1>2. UNCHANGED tableVars /\ before' = [before EXCEPT ![u] = Tables]
  BY DEF BeginPush
<1>3. PICK S : before \in [Push -> S]
  BY DEF CompleteInv
<1>4. /\ before' \in [Push -> S \cup {Tables}] /\ before'[u] = Tables
      /\ \A v \in Push \ {u} : before'[v] = before[v]
  BY <1>2, <1>3
<1>5. Complete(u)'
  <2>1. push'[u].sent = <<>> /\ push'[u].outcome # "success"
    BY <1>1 DEF Iterated
  <2>2. Kept(u)'
    <3>1. \A r \in Rule : object[r] # Gone => object[r] \in Object /\ object[r].version \in Nat
      BY <1>1, PushTyped DEF Object
    <3>2. before'[u].configs = configs /\ before'[u].object = object
      BY <1>4 DEF Tables
    <3>3. configs' = configs /\ object' = object
      BY <1>2 DEF tableVars
    <3> QED
      BY <3>1, <3>2, <3>3 DEF Kept
  <2> QED
    BY <1>1, <2>1, <2>2 DEF Complete
<1>6. ASSUME NEW v \in Push \ {u}, push'[v].stage # "idle"
      PROVE  Complete(v)'
  BY <1>1, <1>2, <1>4, <1>6 DEF CompleteInv, Complete, Kept, WholeBut, Covers, Others, tableVars
<1> QED
  BY <1>2, <1>4, <1>5, <1>6 DEF CompleteInv, tableVars

\* The tables as they were when the push began do not change in its steps, nor
\* do the tables.
LEMMA PanelKeepsComplete ==
  ASSUME PushInv, CompleteInv, NEW u \in Push, PanelStep(u)
  PROVE  CompleteInv'
<1>1. /\ TypeOK /\ Iterated(push[u]) /\ Others(u) /\ push[u] \in PushType
      /\ UNCHANGED <<profiles, configs, object, edits, before>>
      /\ push[u].stage \notin {"idle", "over"} /\ push[u].outcome = "none"
      /\ Complete(u)
  BY PanelEffect, PushTyped DEF PushInv, CompleteInv, tableVars
<1>2. /\ Kept(u)' /\ \A p, R, T : WholeBut(u, p, R, T)' <=> WholeBut(u, p, R, T)
  BY <1>1 DEF Complete, Kept, WholeBut, Covers
<1>3. ASSUME NEW outcome, Ended(u, outcome),
             outcome = "success" => push[u].stage = "sent"
      PROVE  Complete(u)'
  BY <1>1, <1>2, <1>3 DEF Complete, Ended
<1>4. Complete(u)'
  <2>1. CASE FetchProfiles(u)
    <3>1. push'[u].sent = <<>>
      BY <1>1, <2>1, FetchProfilesEffect DEF Iterated
    <3> QED
      BY <1>1, <1>2, <2>1, <3>1, FetchProfilesEffect DEF Complete
  <2>2. CASE FetchRules(u)
    <3>1. WholeBut(u, push'[u].at, push'[u].rules, push'[u].todo)
      BY <1>1, <2>2, FetchRulesEffect DEF WholeBut, RulesToSend
    <3> QED
      BY <1>1, <1>2, <2>2, <3>1, FetchRulesEffect DEF Complete
  <2>3. CASE ConvertRule(u)
    <3>1. CASE Ended(u, "error")
      BY <1>3, <3>1
    <3>2. CASE ~ Ended(u, "error")
      <4>1. PICK r \in push[u].todo :
              /\ Converts(r) /\ push'[u].todo = push[u].todo \ {r}
              /\ push'[u].rules = push[u].rules \cup {<<r, object[r]>>}
        BY <1>1, <2>3, <3>2, ConvertRuleEffect
      <4>2. /\ push'[u].stage = "converting" /\ push[u].stage = "converting"
            /\ push'[u].at = push[u].at /\ push'[u].sent = push[u].sent
            /\ push'[u].loaded = push[u].loaded /\ push'[u].outcome = push[u].outcome
        BY <1>1, <2>3, <3>2, ConvertRuleEffect
      <4>3. Covers(u, r, {<<r, object[r]>>})
        <5>1. r \in Rule
          BY <1>1 DEF PushType
        <5>2. object[r] # Gone =>
                /\ object[r].parses /\ object[r] \in Object /\ before[u].object[r] # Gone
                /\ before[u].object[r] \in Object
                /\ before[u].object[r].version <= object[r].version
          BY <1>1, <4>1, <5>1, PushAssumption, PushTyped DEF Complete, Kept, Converts
        <5>3. object[r] # Gone => object[r].version >= before[u].object[r].version
          BY <5>2 DEF Object
        <5> DEFINE x == <<r, object[r]>>
        <5>4. x[1] = r /\ x[2] = object[r]
          OBVIOUS
        <5> HIDE DEF x
        <5> SUFFICES Covers(u, r, {x})
          BY DEF x
        <5> QED
          BY <5>2, <5>3, <5>4 DEF Covers
      <4>4. WholeBut(u, push'[u].at, push'[u].rules, push'[u].todo)
        <5>1. WholeBut(u, push[u].at, push[u].rules, push[u].todo)
          BY <1>1, <4>2 DEF Complete
        <5>2. \A q \in Rule : Covers(u, q, push[u].rules) => Covers(u, q, push'[u].rules)
          BY <4>1 DEF Covers
        <5>3. Covers(u, r, push'[u].rules)
          BY <4>1, <4>3 DEF Covers
        <5> QED
          BY <4>1, <4>2, <5>1, <5>2, <5>3 DEF WholeBut
      <4> QED
        BY <1>1, <1>2, <4>2, <4>4 DEF Complete
    <3> QED
      BY <3>1, <3>2
  <2>4. CASE SendProfile(u)
    <3>1. push[u].stage = "converting" /\ push[u].at \in Profile
      BY <1>1, <2>4 DEF SendProfile, Iterated
    <3>2. /\ push'[u].sent = Append(push[u].sent, Message(u))
          /\ push[u].sent \in Seq(MessageType) /\ Message(u) \in MessageType
          /\ push[u].todo = {} /\ push'[u].stage = "iterating"
          /\ push'[u].loaded = push[u].loaded /\ push'[u].outcome = push[u].outcome
      BY <1>1, <2>4, <3>1, SendProfileEffect
    <3>3. WholeBut(u, Message(u).uuid, Message(u).rules, {})
      BY <1>1, <3>1, <3>2 DEF Complete, Message
    <3> DEFINE s == push[u].sent
               t == push'[u].sent
               n == Len(s)
    <3>4. /\ n \in Nat /\ DOMAIN s = 1..n /\ DOMAIN t = 1..(n + 1)
          /\ \A i \in 1..n : t[i] = s[i]
          /\ t[n + 1] = Message(u)
      BY <3>2, AppendAt
    <3>5. \A i \in 1..n : WholeBut(u, s[i].uuid, s[i].rules, {})
      BY <1>1, <3>4 DEF Complete
    <3> HIDE DEF n, s
    <3>6. \A i \in DOMAIN t : WholeBut(u, t[i].uuid, t[i].rules, {})
      <4>1. \A i \in DOMAIN t : i \in 1..n \/ i = n + 1
        BY <3>4
      <4> HIDE DEF t
      <4> QED
        BY <3>3, <3>4, <3>5, <4>1
    <3> QED
      BY <1>1, <1>2, <3>1, <3>2, <3>6 DEF Complete
  <2>5. CASE EndIteration(u)
    BY <1>1, <1>2, <2>5, EndIterationEffect DEF Complete
  <2>6. CASE Succeed(u)
    <3>1. push[u].stage = "sent"
      BY <2>6 DEF Succeed
    <3>2. Cardinality(push[u].loaded) \in Nat
      BY <1>1, <3>1, CountSent DEF Iterated
    <3> QED
      BY <1>1, <1>3, <2>6, <3>1, <3>2, SucceedEffect
  <2>7. CASE Fail(u)
    BY <1>1, <1>3, <2>7, FailedEffect DEF Fail
  <2> QED
    BY <2>1, <2>2, <2>3, <2>4, <2>5, <2>6, <2>7 DEF PanelStep
<1>5. ASSUME NEW v \in Push \ {u}, push'[v].stage # "idle"
      PROVE  Complete(v)'
  BY <1>1, <1>5 DEF CompleteInv, Complete, Kept, WholeBut, Covers, Others
<1> QED
  BY <1>1, <1>4, <1>5 DEF CompleteInv

\* CompleteInv is inductive, relative to PushInv.
LEMMA CompleteStep == PushInv /\ CompleteInv /\ [Next]_vars => CompleteInv'
<1> SUFFICES ASSUME PushInv, CompleteInv, [Next]_vars PROVE CompleteInv'
  OBVIOUS
<1>1. ASSUME UNCHANGED <<profiles, configs, object, edits, push, before>>
      PROVE  CompleteInv'
  BY <1>1 DEF CompleteInv, Complete, Kept, WholeBut, Covers
<1>2. CASE DirectorStep
  BY <1>1, <1>2, DirectorEffect DEF PushInv, tableVars, pushVars
<1>3. CASE UNCHANGED vars
  BY <1>1, <1>3 DEF vars, tableVars, pushVars
<1> QED
  BY <1>2, <1>3, NextSteps, EditKeepsComplete, BeginKeepsComplete, PanelKeepsComplete

\* A push that is reported as a success has sent every selected profile that was
\* there all the time, with every rule that was there all the time, each as it
\* was when the push began or newer.
THEOREM SuccessIsCompleteCorrect == Spec => []SuccessIsComplete
<1>1. PushInv /\ CompleteInv => SuccessIsComplete
  <2> SUFFICES ASSUME PushInv, CompleteInv, NEW u \in Push, push[u].outcome = "success",
                      NEW p \in Selected[u] \cap before[u].profiles \cap profiles
               PROVE  \E m \in Sent(u) :
                        /\ m.uuid = p
                        /\ \A r \in Rule :
                             ProfileOf[r] = p /\ before[u].configs[r] = "there" /\ configs[r] = "there" =>
                               Covers(u, r, m.rules)
    BY DEF SuccessIsComplete, Covers
  <2>1. /\ Iterated(push[u]) /\ push[u].stage # "idle"
        /\ p \in Uuids(push[u]) /\ Complete(u)
    BY DEF PushInv, Iterated, CompleteInv, Complete
  <2>2. PICK i \in DOMAIN push[u].sent : push[u].sent[i].uuid = p
    BY <2>1 DEF Uuids
  <2>3. WholeBut(u, p, push[u].sent[i].rules, {}) /\ push[u].sent[i] \in Sent(u)
    BY <2>1, <2>2 DEF Complete, Sent
  <2> QED
    BY <2>2, <2>3 DEF WholeBut
<1> QED
  BY <1>1, PushInvariant, CompleteInit, CompleteStep, PTL DEF Spec

=============================================================================
