------------------------------ MODULE Director ------------------------------
(***************************************************************************)
(* director_service: the set of rule profiles it holds, the gRPC streams   *)
(* that replace the set, the gRPC calls that bring a transaction, and the  *)
(* detached task that fans each transaction out, rule by rule, to the      *)
(* Kafka topic of requests.                                                *)
(*                                                                         *)
(* The handlers run on the main task processor, the tasks on another one,  *)
(* so the steps of any two of them interleave.  The only shared state is   *)
(* Director::_profiles, under DirectorComponent::_u_mx.  A move assignment *)
(* of the set (release the old nodes, take the new ones) and a copy of it  *)
(* (node by node) are several steps here: what the mutex is for is a       *)
(* theorem, not an assumption.                                             *)
(***************************************************************************)
EXTENDS Naturals, Sequences

CONSTANTS
  Push,           \* ProcessProfileStream calls (one stream each)
  Call,           \* ProcessTransaction calls
  Profile,        \* the versions of profiles that pushes carry
  Uuid, Name, Rule, Transaction,
  Feed,           \* Feed[u]: the profiles the client of push u has to send
  TransactionOf,  \* TransactionOf[c]: the transaction call c brings
  Free,           \* nobody holds the mutex
  NoProfile,      \* the task is between two profiles
  MaxFailures,    \* bound on the failures of Producer::Send
  MaxRestarts     \* bound on the restarts of the service

ASSUME ProfileAssumption ==
  /\ Profile \subseteq [uuid : Uuid, name : Name, rules : Seq(Rule)]
  /\ NoProfile \notin Profile
  /\ \A S \in SUBSET Profile : S # NoProfile

ASSUME ClientAssumption ==
  /\ Feed \in [Push -> Seq(Profile)]
  /\ TransactionOf \in [Call -> Transaction]

ASSUME HolderAssumption ==
  /\ Push \cap Call = {}
  /\ Free \notin Push \cup Call

ASSUME BoundAssumption == MaxFailures \in Nat /\ MaxRestarts \in Nat

VARIABLES
  profiles,      \* Director::_profiles
  mutex,         \* DirectorComponent::_u_mx: the handler that holds it, or Free
  push,          \* where the handler of each profile stream is
  read_count,    \* messages the handler has read from its stream
  received,      \* the local container of the handler
  call,          \* where each ProcessTransaction call, then its task, is
  snapshot,      \* the copy of _profiles captured by the task
  todo,          \* the profiles the task's loop has not come to
  profile,       \* the profile the task's loop is at
  sended_count,  \* RuleRequestProducer's counter for that profile
  topic,         \* the request topic (one partition)
  limbo,         \* requests a failed Send may still have put on the wire
  logged,        \* profiles the task reported a producing error for
  failures, restarts

\* History variables: the versions of the set installed so far, and how many
\* of them there were when a call arrived.
VARIABLES installs, began

pushVars == <<push, read_count, received>>
callVars == <<call, snapshot>>
taskVars == <<todo, profile, sended_count, logged>>
kafkaVars == <<topic, limbo>>
boundVars == <<failures, restarts>>
historyVars == <<installs, began>>

vars == <<profiles, mutex, push, read_count, received, call, snapshot, todo,
          profile, sended_count, topic, limbo, logged, failures, restarts,
          installs, began>>

-----------------------------------------------------------------------------
(* Profiles and requests                                                   *)

\* MUTANT: insert_or_assign, a later version takes the place of an earlier one.
InsertOrAssign(set, p) == {q \in set : q.uuid # p.uuid} \cup {p}

\* unordered_set::insert under the hash and the equality of director.hpp,
\* which look at the uuid alone: the profile that came first stays.
Insert(set, p) ==
  IF \E q \in set : q.uuid = p.uuid THEN set ELSE set \cup {p}

RuleNumbers(p) == 0..(Len(p.rules) - 1)

\* MUTANT: the number is the counter less one.
RequestOfNumberedLow(c, p, n) ==
  [call |-> c, profile |-> p,
   key |-> <<TransactionOf[c], p.uuid>>,
   profile_uuid |-> p.name, profile_name |-> p.uuid,
   rule |-> p.rules[n + 1], transaction |-> TransactionOf[c],
   number |-> n - 1, total_rule_count |-> Len(p.rules)]

\* The request for the n-th rule of p (numbers start at 0).  The fields call
\* and profile are not in the message: they tell whose it is.  The name and
\* the uuid of the profile go to each other's field.
RequestOf(c, p, n) ==
  [call |-> c, profile |-> p,
   key |-> <<TransactionOf[c], p.uuid>>,
   profile_uuid |-> p.name, profile_name |-> p.uuid,
   rule |-> p.rules[n + 1], transaction |-> TransactionOf[c],
   number |-> n, total_rule_count |-> Len(p.rules)]

IsRequest(m) ==
  \E c \in Call, p \in Profile : \E n \in RuleNumbers(p) : m = RequestOf(c, p, n)

InTopic(m) == \E i \in DOMAIN topic : topic[i] = m

-----------------------------------------------------------------------------

Init ==
  /\ profiles = {}
  /\ mutex = Free
  /\ push = [u \in Push |-> "idle"]
  /\ read_count = [u \in Push |-> 0]
  /\ received = [u \in Push |-> {}]
  /\ call = [c \in Call |-> "idle"]
  /\ snapshot = [c \in Call |-> {}]
  /\ todo = [c \in Call |-> {}]
  /\ profile = [c \in Call |-> NoProfile]
  /\ sended_count = [c \in Call |-> 0]
  /\ topic = <<>>
  /\ limbo = {}
  /\ logged = [c \in Call |-> {}]
  /\ failures = 0
  /\ restarts = 0
  /\ installs = <<{}>>
  /\ began = [c \in Call |-> 0]

-----------------------------------------------------------------------------
(* ProfileReceiver::ProcessProfileStream, then UpdateProfiles              *)

OpenStream(u) ==
  /\ push[u] = "idle"
  /\ push' = [push EXCEPT ![u] = "reading"]
  /\ UNCHANGED <<profiles, mutex, read_count, received, callVars, taskVars,
                 kafkaVars, boundVars, historyVars>>

\* reader.Read(request) returned true.
ReadProfile(u) ==
  /\ push[u] = "reading"
  /\ read_count[u] < Len(Feed[u])
  /\ read_count' = [read_count EXCEPT ![u] = @ + 1]
  /\ received' =
       [received EXCEPT ![u] = Insert(@, Feed[u][read_count[u] + 1])]
  /\ UNCHANGED <<profiles, mutex, push, callVars, taskVars, kafkaVars,
                 boundVars, historyVars>>

\* reader.Read(request) returned false.  The client has sent everything, or
\* it gave up, or the stream broke, or the call was cancelled: the handler
\* does not tell one from another.
EndOfStream(u) ==
  /\ push[u] = "reading"
  /\ push' = [push EXCEPT ![u] = "locking"]
  /\ UNCHANGED <<profiles, mutex, read_count, received, callVars, taskVars,
                 kafkaVars, boundVars, historyVars>>

\* MUTANT: the update callable without its unique_lock.
LockForUpdateUnguarded(u) ==
  /\ push[u] = "locking"
  /\ push' = [push EXCEPT ![u] = "releasing"]
  /\ UNCHANGED <<profiles, mutex, read_count, received, callVars, taskVars,
                 kafkaVars, boundVars, historyVars>>

LockForUpdate(u) ==
  /\ push[u] = "locking"
  /\ mutex = Free
  /\ mutex' = u
  /\ push' = [push EXCEPT ![u] = "releasing"]
  /\ UNCHANGED <<profiles, read_count, received, callVars, taskVars,
                 kafkaVars, boundVars, historyVars>>

\* _profiles = std::move(profiles), first half: the old nodes go.
ReleaseOld(u) ==
  /\ push[u] = "releasing"
  /\ profiles' = {}
  /\ push' = [push EXCEPT ![u] = "adopting"]
  /\ UNCHANGED <<mutex, read_count, received, callVars, taskVars, kafkaVars,
                 boundVars, historyVars>>

\* Second half: the container takes the received nodes; the lock goes out of
\* scope and the handler answers.
AdoptReceived(u) ==
  /\ push[u] = "adopting"
  /\ profiles' = received[u]
  /\ installs' = Append(installs, received[u])
  /\ mutex' = Free
  /\ push' = [push EXCEPT ![u] = "answered"]
  /\ UNCHANGED <<read_count, received, callVars, taskVars, kafkaVars,
                 boundVars, began>>

-----------------------------------------------------------------------------
(* TransactionReceiver::ProcessTransaction, then Director's                *)

ReceiveTransaction(c) ==
  /\ call[c] = "idle"
  /\ call' = [call EXCEPT ![c] = "locking"]
  /\ began' = [began EXCEPT ![c] = Len(installs)]
  /\ UNCHANGED <<profiles, mutex, pushVars, snapshot, taskVars, kafkaVars,
                 boundVars, installs>>

\* MUTANT: the transaction callable without its unique_lock.
LockForCopyUnguarded(c) ==
  /\ call[c] = "locking"
  /\ call' = [call EXCEPT ![c] = "copying"]
  /\ UNCHANGED <<profiles, mutex, pushVars, snapshot, taskVars, kafkaVars,
                 boundVars, historyVars>>

LockForCopy(c) ==
  /\ call[c] = "locking"
  /\ mutex = Free
  /\ mutex' = c
  /\ call' = [call EXCEPT ![c] = "copying"]
  /\ UNCHANGED <<profiles, pushVars, snapshot, taskVars, kafkaVars,
                 boundVars, historyVars>>

\* The capture profiles = _profiles copies one node after another.
CopyProfile(c) ==
  /\ call[c] = "copying"
  /\ \E p \in profiles \ snapshot[c] :
       snapshot' = [snapshot EXCEPT ![c] = @ \cup {p}]
  /\ UNCHANGED <<profiles, mutex, pushVars, call, taskVars, kafkaVars,
                 boundVars, historyVars>>

\* MUTANT: the lock is not let go.
SpawnTaskHolding(c) ==
  /\ call[c] = "copying"
  /\ profiles \subseteq snapshot[c]
  /\ call' = [call EXCEPT ![c] = "running"]
  /\ todo' = [todo EXCEPT ![c] = snapshot[c]]
  /\ UNCHANGED <<profiles, mutex, pushVars, snapshot, profile, sended_count,
                 logged, kafkaVars, boundVars, historyVars>>

\* The copy is complete: the task is detached, the lock goes out of scope and
\* the call is answered.
SpawnTask(c) ==
  /\ call[c] = "copying"
  /\ profiles \subseteq snapshot[c]
  /\ mutex' = Free
  /\ call' = [call EXCEPT ![c] = "running"]
  /\ todo' = [todo EXCEPT ![c] = snapshot[c]]
  /\ UNCHANGED <<profiles, pushVars, snapshot, profile, sended_count, logged,
                 kafkaVars, boundVars, historyVars>>

-----------------------------------------------------------------------------
(* The detached task and RuleRequestProducer::operator()                   *)

\* MUTANT: the task captured a reference to _profiles.
NextProfileLive(c) ==
  /\ call[c] = "running"
  /\ profile[c] = NoProfile
  /\ todo[c] # {}
  /\ \E p \in profiles :
       /\ profile' = [profile EXCEPT ![c] = p]
       /\ todo' = [todo EXCEPT ![c] = @ \ {p}]
  /\ sended_count' = [sended_count EXCEPT ![c] = 0]
  /\ UNCHANGED <<profiles, mutex, pushVars, callVars, logged, kafkaVars,
                 boundVars, historyVars>>

\* The loop over the captured set, in whatever order the hash table gives.
NextProfile(c) ==
  /\ call[c] = "running"
  /\ profile[c] = NoProfile
  /\ \E p \in todo[c] :
       /\ profile' = [profile EXCEPT ![c] = p]
       /\ todo' = [todo EXCEPT ![c] = @ \ {p}]
  /\ sended_count' = [sended_count EXCEPT ![c] = 0]
  /\ UNCHANGED <<profiles, mutex, pushVars, callVars, logged, kafkaVars,
                 boundVars, historyVars>>

\* The task has called Producer::Send and waits for its outcome.
Sending(c) ==
  /\ call[c] = "running"
  /\ profile[c] # NoProfile
  /\ sended_count[c] < Len(profile[c].rules)

InFlight(c) == RequestOf(c, profile[c], sended_count[c])

SendSucceeds(c) ==
  /\ Sending(c)
  /\ topic' = Append(topic, InFlight(c))
  /\ sended_count' = [sended_count EXCEPT ![c] = @ + 1]
  /\ UNCHANGED <<profiles, mutex, pushVars, callVars, todo, profile, logged,
                 limbo, boundVars, historyVars>>

\* MUTANT: a retryable failure is retried at once.
SendFailsRetryableRetried(c) ==
  /\ Sending(c)
  /\ failures < MaxFailures
  /\ failures' = failures + 1
  /\ limbo' = limbo \cup {InFlight(c)}
  /\ logged' = [logged EXCEPT ![c] = @ \cup {profile[c]}]
  /\ UNCHANGED <<profiles, mutex, pushVars, callVars, todo, profile,
                 sended_count, topic, restarts, historyVars>>

\* SendException, retryable: the delivery timed out.  The broker may have the
\* request, or get it yet.  The loop over the rules returns, the error is
\* logged, and the task goes on with the next profile.
SendFailsRetryable(c) ==
  /\ Sending(c)
  /\ failures < MaxFailures
  /\ failures' = failures + 1
  /\ limbo' = limbo \cup {InFlight(c)}
  /\ sended_count' = [sended_count EXCEPT ![c] = @ + 1]
  /\ logged' = [logged EXCEPT ![c] = @ \cup {profile[c]}]
  /\ profile' = [profile EXCEPT ![c] = NoProfile]
  /\ UNCHANGED <<profiles, mutex, pushVars, callVars, todo, topic, restarts,
                 historyVars>>

\* MUTANT: the task gives up at the first profile that fails.
SendFailsNonRetryableGivesUp(c) ==
  /\ Sending(c)
  /\ failures < MaxFailures
  /\ failures' = failures + 1
  /\ sended_count' = [sended_count EXCEPT ![c] = @ + 1]
  /\ logged' = [logged EXCEPT ![c] = @ \cup {profile[c]}]
  /\ profile' = [profile EXCEPT ![c] = NoProfile]
  /\ todo' = [todo EXCEPT ![c] = {}]
  /\ UNCHANGED <<profiles, mutex, pushVars, callVars, kafkaVars, restarts,
                 historyVars>>

\* SendException, not retryable: the request was refused for good.
SendFailsNonRetryable(c) ==
  /\ Sending(c)
  /\ failures < MaxFailures
  /\ failures' = failures + 1
  /\ sended_count' = [sended_count EXCEPT ![c] = @ + 1]
  /\ logged' = [logged EXCEPT ![c] = @ \cup {profile[c]}]
  /\ profile' = [profile EXCEPT ![c] = NoProfile]
  /\ UNCHANGED <<profiles, mutex, pushVars, callVars, todo, kafkaVars,
                 restarts, historyVars>>

\* MUTANT: the loop is left one rule late.
EndProfileLate(c) ==
  /\ call[c] = "running"
  /\ profile[c] # NoProfile
  /\ sended_count[c] = Len(profile[c].rules) + 1
  /\ profile' = [profile EXCEPT ![c] = NoProfile]
  /\ UNCHANGED <<profiles, mutex, pushVars, callVars, todo, sended_count,
                 logged, kafkaVars, boundVars, historyVars>>

\* Every rule of the profile was sent.
EndProfile(c) ==
  /\ call[c] = "running"
  /\ profile[c] # NoProfile
  /\ sended_count[c] = Len(profile[c].rules)
  /\ profile' = [profile EXCEPT ![c] = NoProfile]
  /\ UNCHANGED <<profiles, mutex, pushVars, callVars, todo, sended_count,
                 logged, kafkaVars, boundVars, historyVars>>

FinishTask(c) ==
  /\ call[c] = "running"
  /\ profile[c] = NoProfile
  /\ todo[c] = {}
  /\ call' = [call EXCEPT ![c] = "finished"]
  /\ UNCHANGED <<profiles, mutex, pushVars, snapshot, taskVars, kafkaVars,
                 boundVars, historyVars>>

-----------------------------------------------------------------------------
(* The broker and the process                                              *)

\* A request whose Send failed, or whose sender is gone, reaches the topic.
LateDelivery ==
  \E m \in limbo :
    /\ topic' = Append(topic, m)
    /\ limbo' = limbo \ {m}
    /\ UNCHANGED <<profiles, mutex, pushVars, callVars, taskVars, boundVars,
                   historyVars>>

\* The process dies and comes back with nothing: the profiles, the handlers
\* and the tasks were in memory only.
Restart ==
  /\ restarts < MaxRestarts
  /\ restarts' = restarts + 1
  /\ profiles' = {}
  /\ installs' = Append(installs, {})
  /\ mutex' = Free
  /\ push' = [u \in Push |->
                IF push[u] \in {"idle", "answered"} THEN push[u] ELSE "broken"]
  /\ call' = [c \in Call |->
                IF call[c] \in {"locking", "copying"} THEN "refused"
                ELSE IF call[c] = "running" THEN "lost" ELSE call[c]]
  /\ limbo' = limbo \cup {InFlight(c) : c \in {d \in Call : Sending(d)}}
  /\ todo' = [c \in Call |-> {}]
  /\ profile' = [c \in Call |-> NoProfile]
  /\ UNCHANGED <<read_count, received, snapshot, sended_count, logged, topic,
                 failures, began>>

\* Every handler has answered, every task is over, no request is on the way.
Quiescent ==
  /\ \A u \in Push : push[u] \in {"answered", "broken"}
  /\ \A c \in Call : call[c] \in {"finished", "refused", "lost"}
  /\ limbo = {}
  /\ UNCHANGED vars

PushStep(u) ==
  \/ OpenStream(u) \/ ReadProfile(u) \/ EndOfStream(u)
  \/ LockForUpdate(u) \/ ReleaseOld(u) \/ AdoptReceived(u)

CallStep(c) ==
  \/ ReceiveTransaction(c) \/ LockForCopy(c) \/ CopyProfile(c) \/ SpawnTask(c)

TaskStep(c) ==
  \/ NextProfile(c) \/ SendSucceeds(c) \/ SendFailsRetryable(c)
  \/ SendFailsNonRetryable(c) \/ EndProfile(c) \/ FinishTask(c)

Next ==
  \/ \E u \in Push : PushStep(u)
  \/ \E c \in Call : CallStep(c) \/ TaskStep(c)
  \/ LateDelivery \/ Restart \/ Quiescent

Spec == Init /\ [][Next]_vars

\* The scheduler of userver runs every ready coroutine, a lock that is let go
\* is given to a waiter, and Producer::Send returns within delivery_timeout.
\* No fairness on the reading of a stream: a client may stall it.
Fairness ==
  /\ \A u \in Push :
       WF_vars(LockForUpdate(u) \/ ReleaseOld(u) \/ AdoptReceived(u))
  /\ \A c \in Call : WF_vars(LockForCopy(c) \/ CopyProfile(c) \/ SpawnTask(c))
  /\ \A c \in Call : WF_vars(TaskStep(c))

FairSpec == Spec /\ Fairness

-----------------------------------------------------------------------------
(* Properties                                                              *)

Message ==
  [call : Call, profile : Profile, key : Transaction \X Uuid,
   profile_uuid : Name, profile_name : Uuid, rule : Rule,
   transaction : Transaction, number : Nat, total_rule_count : Nat]

\* Every variable keeps its type.
TypeOK ==
  /\ profiles \in SUBSET Profile
  /\ mutex \in Push \cup Call \cup {Free}
  /\ push \in [Push -> {"idle", "reading", "locking", "releasing", "adopting",
                        "answered", "broken"}]
  /\ read_count \in [Push -> Nat]
  /\ received \in [Push -> SUBSET Profile]
  /\ call \in [Call -> {"idle", "locking", "copying", "running", "finished",
                        "refused", "lost"}]
  /\ snapshot \in [Call -> SUBSET Profile]
  /\ todo \in [Call -> SUBSET Profile]
  /\ profile \in [Call -> Profile \cup {NoProfile}]
  /\ sended_count \in [Call -> Nat]
  /\ topic \in Seq(Message)
  /\ limbo \in SUBSET Message
  /\ logged \in [Call -> SUBSET Profile]
  /\ failures \in Nat
  /\ restarts \in Nat
  /\ installs \in Seq(SUBSET Profile)
  /\ began \in [Call -> Nat]

Accepted(c) == call[c] \in {"running", "finished", "lost"}

\* An accepted call works on one whole version of the set, that was in force
\* at some time between its arrival and its answer: never half of an update,
\* never the empty set an update passes through, never a version that had
\* been replaced before the call arrived (GetProcessTransactionCallable and
\* GetUpdateProfilesCallable under _u_mx).
SnapshotInForce ==
  \A c \in Call : Accepted(c) =>
    \E i \in began[c]..Len(installs) : snapshot[c] = installs[i]

\* What the first k messages of the stream of push u leave: for each uuid, the
\* version that came first.
FirstVersions(u, k) ==
  {Feed[u][i] : i \in {j \in 1..k :
     \A h \in 1..(j - 1) : Feed[u][h].uuid # Feed[u][j].uuid}}

\* The profiles in force come from the stream of a single push, each uuid with
\* its first version: two pushes at the same time never mix, and what a cut
\* stream leaves is a prefix of what its client meant to send
\* (ProcessProfileStream and its local container).
ProfilesOfOnePush ==
  \/ profiles = {}
  \/ \E u \in Push : \E k \in 0..Len(Feed[u]) : profiles = FirstVersions(u, k)

\* On the topic, the requests of one call for one profile are numbered from 0
\* with no gap and no repetition, in order, although a request whose Send
\* failed may land later, or after a restart, and the requests of other
\* profiles and calls come in between (RuleRequestProducer::operator()).
RequestsInOrder ==
  \A j \in DOMAIN topic :
    /\ IsRequest(topic[j])
    /\ \A n \in 0..(topic[j].number - 1) :
         \E i \in 1..(j - 1) :
           topic[i] = RequestOf(topic[j].call, topic[j].profile, n)
    /\ \A i \in 1..(j - 1) : topic[i] # topic[j]

\* Every request on the topic is for a profile of the version its call works
\* on, and its call was accepted.
RequestsFromSnapshot ==
  \A j \in DOMAIN topic :
    /\ Accepted(topic[j].call)
    /\ topic[j].profile \in snapshot[topic[j].call]

\* When a task is over, each profile of its version has all its requests on
\* the topic, or an error was logged for that very profile: the failure of one
\* profile costs no other profile anything, and nothing is missing without a
\* trace (Director::ProcessTransaction).
NothingMissingUnlogged ==
  \A c \in Call : call[c] = "finished" =>
    \A p \in snapshot[c] \ logged[c] :
      \A n \in RuleNumbers(p) : InTopic(RequestOf(c, p, n))

\* A call, or a push whose stream has ended, gets the lock and is answered
\* unless the process dies: a client that stalls its stream blocks nobody.
LockersServed ==
  /\ \A c \in Call :
       call[c] = "locking" ~> call[c] \in {"running", "finished", "lost", "refused"}
  /\ \A u \in Push : push[u] = "locking" ~> push[u] \in {"answered", "broken"}

\* A request carries the uuid of its profile in the field profile_uuid.
RequestsCarryProfileUuid ==
  \A i \in DOMAIN topic : topic[i].profile_uuid = topic[i].profile.uuid

-----------------------------------------------------------------------------
(* The director implements the abstract fan-out                            *)

Adopting == {u \in Push : push[u] = "adopting"}

\* An update takes effect when the old nodes go: nobody else holds the lock.
FanOutCurrent ==
  IF Adopting = {} THEN profiles ELSE received[CHOOSE u \in Adopting : TRUE]

FanOutView == [c \in Call |-> IF Accepted(c) THEN snapshot[c] ELSE NoProfile]

\* What was logged of a lost task is in its version: all of that is given up.
FanOutGivenUp ==
  [c \in Call |-> IF call[c] = "lost" THEN snapshot[c] ELSE logged[c]]

FanOutEmitted ==
  [i \in DOMAIN topic |-> <<topic[i].call, topic[i].profile, topic[i].number>>]

Abstract == INSTANCE FanOut WITH
  NoView <- NoProfile, current <- FanOutCurrent, view <- FanOutView,
  given_up <- FanOutGivenUp, emitted <- FanOutEmitted

\* The director behaves like the atomic fan-out: a call is bound to one version
\* at one instant, the requests of each profile come in order, whatever overlaps,
\* fails or restarts.
Implements == Abstract!FanOutSpec

\* Each profile of an accepted call has all its requests on the topic in the end,
\* or one of them could not be sent, or the process died: whatever fails on the
\* way costs no other profile anything.
DispatchEnds == Abstract!DispatchEnds

=============================================================================
