--------------------------- MODULE DirectorProofs ---------------------------
(***************************************************************************)
(* Proofs about module Director, for any number of pushes, calls and       *)
(* profiles, any feeds, any number of failures and restarts: the types,    *)
(* what the mutex protects, that each accepted transaction works on one    *)
(* whole version of the profiles, what a call puts on the request topic,   *)
(* and that the director implements module FanOut.                         *)
(***************************************************************************)
EXTENDS Director, TLAPS

-----------------------------------------------------------------------------
(* Requests                                                                *)

\* A request for a rule of a profile has the type of a message.
LEMMA RequestType ==
  ASSUME NEW c \in Call, NEW p \in Profile, NEW n \in RuleNumbers(p)
  PROVE  RequestOf(c, p, n) \in Message
<1>1. p \in [uuid : Uuid, name : Name, rules : Seq(Rule)]
  BY ProfileAssumption
<1>2. /\ Len(p.rules) \in Nat
      /\ n \in Nat
      /\ n + 1 \in DOMAIN p.rules
  BY <1>1 DEF RuleNumbers
<1>3. p.rules[n + 1] \in Rule
  BY <1>1, <1>2
<1>4. TransactionOf[c] \in Transaction
  BY ClientAssumption
<1> QED
  BY <1>1, <1>2, <1>3, <1>4 DEF RequestOf, Message

\* The request whose outcome a task waits for is such a request.
LEMMA InFlightType ==
  ASSUME TypeOK, NEW c \in Call, Sending(c)
  PROVE  /\ profile[c] \in Profile
         /\ sended_count[c] \in RuleNumbers(profile[c])
         /\ InFlight(c) \in Message
<1>1. profile[c] \in Profile /\ sended_count[c] \in Nat
  BY DEF TypeOK, Sending
<1>2. Len(profile[c].rules) \in Nat
  BY <1>1, ProfileAssumption
<1>3. sended_count[c] \in RuleNumbers(profile[c])
  BY <1>1, <1>2 DEF Sending, RuleNumbers
<1> QED
  BY <1>1, <1>3, RequestType DEF InFlight

\* insert keeps a set of profiles a set of profiles.
LEMMA InsertType ==
  ASSUME NEW S \in SUBSET Profile, NEW p \in Profile
  PROVE  Insert(S, p) \in SUBSET Profile
BY DEF Insert

-----------------------------------------------------------------------------
(* Types                                                                   *)

LEMMA TypeInit == Init => TypeOK
BY DEF Init, TypeOK

LEMMA TypePush ==
  ASSUME TypeOK, NEW u \in Push, PushStep(u)
  PROVE  TypeOK'
<1> USE DEF TypeOK, pushVars, callVars, taskVars, kafkaVars, boundVars,
            historyVars
<1>1. CASE OpenStream(u)
  BY <1>1 DEF OpenStream
<1>2. CASE ReadProfile(u)
  <2>1. Feed[u] \in Seq(Profile)
    BY ClientAssumption
  <2>2. Feed[u][read_count[u] + 1] \in Profile
    BY <1>2, <2>1 DEF ReadProfile
  <2>3. Insert(received[u], Feed[u][read_count[u] + 1]) \in SUBSET Profile
    BY <2>2, InsertType
  <2> QED
    BY <1>2, <2>3 DEF ReadProfile
<1>3. CASE EndOfStream(u)
  BY <1>3 DEF EndOfStream
<1>4. CASE LockForUpdate(u)
  BY <1>4 DEF LockForUpdate
<1>5. CASE ReleaseOld(u)
  BY <1>5 DEF ReleaseOld
<1>6. CASE AdoptReceived(u)
  BY <1>6 DEF AdoptReceived
<1> QED
  BY <1>1, <1>2, <1>3, <1>4, <1>5, <1>6 DEF PushStep

LEMMA TypeCall ==
  ASSUME TypeOK, NEW c \in Call, CallStep(c)
  PROVE  TypeOK'
<1> USE DEF TypeOK, pushVars, callVars, taskVars, kafkaVars, boundVars,
            historyVars
<1>1. CASE ReceiveTransaction(c)
  BY <1>1 DEF ReceiveTransaction
<1>2. CASE LockForCopy(c)
  BY <1>2 DEF LockForCopy
<1>3. CASE CopyProfile(c)
  BY <1>3 DEF CopyProfile
<1>4. CASE SpawnTask(c)
  BY <1>4 DEF SpawnTask
<1> QED
  BY <1>1, <1>2, <1>3, <1>4 DEF CallStep

LEMMA TypeTask ==
  ASSUME TypeOK, NEW c \in Call, TaskStep(c)
  PROVE  TypeOK'
<1> USE DEF TypeOK, pushVars, callVars, taskVars, kafkaVars, boundVars,
            historyVars
<1>1. CASE NextProfile(c)
  BY <1>1 DEF NextProfile
<1>2. CASE SendSucceeds(c)
  BY <1>2, InFlightType DEF SendSucceeds
<1>3. CASE SendFailsRetryable(c)
  BY <1>3, InFlightType DEF SendFailsRetryable
<1>4. CASE SendFailsNonRetryable(c)
  BY <1>4, InFlightType DEF SendFailsNonRetryable
<1>5. CASE EndProfile(c)
  BY <1>5 DEF EndProfile
<1>6. CASE FinishTask(c)
  BY <1>6 DEF FinishTask
<1> QED
  BY <1>1, <1>2, <1>3, <1>4, <1>5, <1>6 DEF TaskStep

LEMMA TypeRest ==
  ASSUME TypeOK, LateDelivery \/ Restart \/ UNCHANGED vars
  PROVE  TypeOK'
<1> USE DEF TypeOK, pushVars, callVars, taskVars, kafkaVars, boundVars,
            historyVars
<1>1. CASE LateDelivery
  BY <1>1 DEF LateDelivery
<1>2. CASE Restart
  <2>1. limbo' \in SUBSET Message
    BY <1>2, InFlightType DEF Restart
  <2>2. installs' \in Seq(SUBSET Profile)
    BY <1>2 DEF Restart
  <2>3. push' \in [Push -> {"idle", "reading", "locking", "releasing",
                            "adopting", "answered", "broken"}]
    BY <1>2 DEF Restart
  <2>4. call' \in [Call -> {"idle", "locking", "copying", "running",
                            "finished", "refused", "lost"}]
    BY <1>2 DEF Restart
  <2> QED
    BY <1>2, <2>1, <2>2, <2>3, <2>4 DEF Restart
<1>3. CASE UNCHANGED vars
  BY <1>3 DEF vars
<1> QED
  BY <1>1, <1>2, <1>3

\* Every variable keeps its type, in the whole of the director's handlers and
\* tasks; each message on the topic has all the fields of a RuleRequest.
THEOREM TypeCorrect == Spec => []TypeOK
<1>1. Init => TypeOK
  BY TypeInit
<1>2. TypeOK /\ [Next]_vars => TypeOK'
  BY TypePush, TypeCall, TypeTask, TypeRest DEF Next, Quiescent
<1> QED
  BY <1>1, <1>2, PTL DEF Spec

-----------------------------------------------------------------------------
(* What the mutex protects                                                 *)

\* A handler in its critical section holds the mutex, so there is one at most.
LockInv ==
  /\ \A u \in Push : push[u] \in {"releasing", "adopting"} => mutex = u
  /\ \A c \in Call : call[c] = "copying" => mutex = c

\* Unless an update is half done, the profiles in force are the version
\* installed last.
LatestInv ==
  /\ Len(installs) > 0
  /\ (\A u \in Push : push[u] # "adopting") => profiles = installs[Len(installs)]

\* No call began after the latest version; a copy under way is part of the
\* profiles in force; a finished one is a version in force.
CopyInv ==
  /\ \A c \in Call : call[c] # "idle" => began[c] \in 1..Len(installs)
  /\ \A c \in Call : call[c] \in {"idle", "locking"} => snapshot[c] = {}
  /\ \A c \in Call : call[c] = "copying" => snapshot[c] \subseteq profiles
  /\ SnapshotInForce

VersionInv == LockInv /\ LatestInv /\ CopyInv

LEMMA VersionInit == Init => VersionInv
BY HolderAssumption
DEF Init, VersionInv, LockInv, LatestInv, CopyInv, SnapshotInForce, Accepted

\* In force at an index stays in force at that index when a version is added.
LEMMA InstallKeepsSnapshots ==
  ASSUME TypeOK, CopyInv, NEW S \in SUBSET Profile,
         installs' = Append(installs, S),
         UNCHANGED <<snapshot, began>>,
         \A c \in Call : Accepted(c)' => Accepted(c)
  PROVE  SnapshotInForce'
<1> SUFFICES ASSUME NEW c \in Call, Accepted(c)'
             PROVE  \E i \in (began[c]..Len(installs))' :
                      snapshot'[c] = installs'[i]
  BY DEF SnapshotInForce
<1>1. PICK i \in began[c]..Len(installs) : snapshot[c] = installs[i]
  BY DEF SnapshotInForce, CopyInv
<1>2. i \in 1..Len(installs)
  <2>1. Accepted(c)
    OBVIOUS
  <2>2. began[c] \in 1..Len(installs)
    BY <2>1 DEF CopyInv, Accepted
  <2> QED
    BY <2>2 DEF TypeOK
<1>3. installs'[i] = installs[i] /\ Len(installs') = Len(installs) + 1
  BY <1>2 DEF TypeOK
<1> QED
  BY <1>1, <1>2, <1>3 DEF TypeOK

LEMMA VersionPush ==
  ASSUME TypeOK, VersionInv, NEW u \in Push, PushStep(u)
  PROVE  VersionInv'
<1> USE HolderAssumption
    DEF VersionInv, LockInv, LatestInv, pushVars, callVars, taskVars,
        kafkaVars, boundVars, historyVars
<1>1. ASSUME UNCHANGED <<profiles, call, snapshot, installs, began, mutex>>,
             \A v \in Push : push'[v] \in {"releasing", "adopting"} =>
                             push'[v] = push[v],
             \A v \in Push : push[v] = "adopting" => push'[v] = push[v]
      PROVE  VersionInv'
  <2>1. LockInv' /\ LatestInv'
    BY <1>1
  <2>2. CopyInv'
    BY <1>1 DEF CopyInv, SnapshotInForce, Accepted
  <2> QED
    BY <2>1, <2>2
<1>2. CASE OpenStream(u) \/ ReadProfile(u) \/ EndOfStream(u)
  BY <1>1, <1>2 DEF OpenStream, ReadProfile, EndOfStream, TypeOK
<1>3. CASE LockForUpdate(u)
  <2>1. LockInv'
    BY <1>3 DEF LockForUpdate, TypeOK
  <2>2. LatestInv'
    BY <1>3 DEF LockForUpdate, TypeOK
  <2>3. CopyInv'
    BY <1>3 DEF LockForUpdate, CopyInv, SnapshotInForce, Accepted
  <2> QED
    BY <2>1, <2>2, <2>3
<1>4. CASE ReleaseOld(u)
  <2>1. mutex = u /\ \A c \in Call : call[c] # "copying"
    BY <1>4 DEF ReleaseOld
  <2>2. LockInv'
    BY <1>4, <2>1 DEF ReleaseOld, TypeOK
  <2>3. LatestInv'
    BY <1>4, <2>1 DEF ReleaseOld, TypeOK
  <2>4. CopyInv'
    BY <1>4, <2>1 DEF ReleaseOld, CopyInv, SnapshotInForce, Accepted
  <2> QED
    BY <2>2, <2>3, <2>4
<1>5. CASE AdoptReceived(u)
  <2>1. mutex = u /\ \A c \in Call : call[c] # "copying"
    BY <1>5 DEF AdoptReceived
  <2>2. /\ received[u] \in SUBSET Profile
        /\ installs \in Seq(SUBSET Profile)
        /\ installs' = Append(installs, received[u])
    BY <1>5 DEF AdoptReceived, TypeOK
  <2>3. /\ Len(installs') = Len(installs) + 1
        /\ installs'[Len(installs')] = received[u]
    BY <2>2
  <2>4. LockInv'
    BY <1>5, <2>1 DEF AdoptReceived, TypeOK
  <2>5. LatestInv'
    BY <1>5, <2>1, <2>3 DEF AdoptReceived, TypeOK
  <2>6. SnapshotInForce'
    BY <1>5, <2>2, InstallKeepsSnapshots DEF AdoptReceived, Accepted
  <2>7. CopyInv'
    BY <1>5, <2>1, <2>3, <2>6 DEF AdoptReceived, CopyInv, TypeOK
  <2> QED
    BY <2>4, <2>5, <2>7
<1> QED
  BY <1>2, <1>3, <1>4, <1>5 DEF PushStep

LEMMA VersionCall ==
  ASSUME TypeOK, VersionInv, NEW c \in Call, CallStep(c)
  PROVE  VersionInv'
<1> USE HolderAssumption
    DEF VersionInv, LockInv, LatestInv, pushVars, callVars, taskVars,
        kafkaVars, boundVars, historyVars
<1>1. CASE ReceiveTransaction(c)
  <2>1. LockInv' /\ LatestInv'
    BY <1>1 DEF ReceiveTransaction, TypeOK
  <2>2. CopyInv'
    BY <1>1 DEF ReceiveTransaction, TypeOK, CopyInv, SnapshotInForce, Accepted
  <2> QED
    BY <2>1, <2>2
<1>2. CASE LockForCopy(c)
  <2>1. LockInv' /\ LatestInv'
    BY <1>2 DEF LockForCopy, TypeOK
  <2>2. CopyInv'
    BY <1>2 DEF LockForCopy, TypeOK, CopyInv, SnapshotInForce, Accepted
  <2> QED
    BY <2>1, <2>2
<1>3. CASE CopyProfile(c)
  <2>1. LockInv' /\ LatestInv'
    BY <1>3 DEF CopyProfile, TypeOK
  <2>2. CopyInv'
    BY <1>3 DEF CopyProfile, TypeOK, CopyInv, SnapshotInForce, Accepted
  <2> QED
    BY <2>1, <2>2
<1>4. CASE SpawnTask(c)
  <2>1. mutex = c /\ \A u \in Push : push[u] # "adopting"
    BY <1>4 DEF SpawnTask
  <2>2. snapshot[c] = installs[Len(installs)]
    BY <1>4, <2>1 DEF SpawnTask, CopyInv
  <2>3. Len(installs) \in began[c]..Len(installs)
    BY <1>4 DEF SpawnTask, CopyInv, TypeOK
  <2>4. LockInv' /\ LatestInv'
    BY <1>4, <2>1 DEF SpawnTask, TypeOK
  <2>5. SnapshotInForce'
    BY <1>4, <2>2, <2>3 DEF SpawnTask, CopyInv, SnapshotInForce, Accepted, TypeOK
  <2>6. CopyInv'
    BY <1>4, <2>5 DEF SpawnTask, CopyInv, TypeOK
  <2> QED
    BY <2>4, <2>6
<1> QED
  BY <1>1, <1>2, <1>3, <1>4 DEF CallStep

\* A task, the broker and a stuttering step leave the versions alone.
LEMMA VersionTask ==
  ASSUME TypeOK, VersionInv,
         \/ \E c \in Call : TaskStep(c)
         \/ LateDelivery
         \/ UNCHANGED vars
  PROVE  VersionInv'
<1>1. /\ UNCHANGED <<profiles, mutex, push, snapshot, installs, began>>
      /\ \/ UNCHANGED call
         \/ \E c \in Call : call[c] = "running" /\
                            call' = [call EXCEPT ![c] = "finished"]
  BY DEF TaskStep, NextProfile, SendSucceeds, SendFailsRetryable,
     SendFailsNonRetryable, EndProfile, FinishTask, LateDelivery, vars,
     pushVars, callVars, historyVars
<1> QED
  BY <1>1, ZenonT(40) DEF TypeOK, VersionInv, LockInv, LatestInv, CopyInv,
     SnapshotInForce, Accepted

LEMMA VersionRestart ==
  ASSUME TypeOK, VersionInv, Restart
  PROVE  VersionInv'
<1>1. /\ \A u \in Push : push'[u] \notin {"releasing", "adopting"}
      /\ \A c \in Call : call'[c] # "copying"
  BY DEF Restart, TypeOK
<1>2. \A c \in Call : Accepted(c)' => Accepted(c)
  BY DEF Restart, Accepted, TypeOK
<1>3. SnapshotInForce'
  <2>1. CopyInv /\ installs' = Append(installs, {})
        /\ UNCHANGED <<snapshot, began>>
    BY DEF Restart, VersionInv
  <2>2. {} \in SUBSET Profile
    OBVIOUS
  <2> QED
    BY <1>2, <2>1, <2>2, InstallKeepsSnapshots
<1>4. /\ installs' = Append(installs, {}) /\ installs \in Seq(SUBSET Profile)
      /\ Len(installs') = Len(installs) + 1
      /\ installs'[Len(installs')] = {}
  BY DEF Restart, TypeOK
<1>5. LockInv' /\ LatestInv'
  BY <1>1, <1>4 DEF Restart, LockInv, LatestInv, TypeOK
<1>6. \A c \in Call : call'[c] # "idle" => began'[c] \in 1..Len(installs')
  BY <1>4 DEF Restart, VersionInv, CopyInv, TypeOK
<1>7. \A c \in Call : call'[c] \in {"idle", "locking"} => snapshot'[c] = {}
  BY DEF Restart, VersionInv, CopyInv, TypeOK
<1> QED
  BY <1>1, <1>3, <1>5, <1>6, <1>7 DEF VersionInv, CopyInv

LEMMA VersionStep ==
  ASSUME TypeOK, VersionInv, [Next]_vars
  PROVE  VersionInv'
BY VersionPush, VersionCall, VersionTask, VersionRestart DEF Next, Quiescent

\* The lock, the versions and the copies in progress agree at every step.
THEOREM VersionInvariant == Spec => []VersionInv
<1>1. Init => VersionInv
  BY VersionInit
<1>2. TypeOK /\ VersionInv /\ [Next]_vars => VersionInv'
  BY VersionStep
<1> QED
  BY <1>1, <1>2, TypeCorrect, PTL DEF Spec

\* The handlers of the director exclude each other where they touch _profiles.
THEOREM MutualExclusion == Spec => []LockInv
BY VersionInvariant, PTL DEF VersionInv

\* Every accepted transaction works on one whole version of the profiles, in
\* force between its arrival and its answer, whatever the pushes and the
\* restarts around it.
THEOREM SnapshotsInForce == Spec => []SnapshotInForce
BY VersionInvariant, PTL DEF VersionInv, CopyInv

-----------------------------------------------------------------------------
(* The profiles are those of one push                                      *)

\* What a handler has received is the first version of each uuid it has read.
\* That each uuid read is among them is what tells an insert that the uuid is
\* new to the stream.
StreamInv ==
  /\ \A u \in Push :
       /\ read_count[u] <= Len(Feed[u])
       /\ received[u] = FirstVersions(u, read_count[u])
       /\ \A j \in 1..read_count[u] :
            \E q \in received[u] : q.uuid = Feed[u][j].uuid
  /\ ProfilesOfOnePush

\* One more message of the stream.
LEMMA InsertFirst ==
  ASSUME NEW u \in Push, NEW k \in Nat,
         \A j \in 1..k : \E q \in FirstVersions(u, k) : q.uuid = Feed[u][j].uuid
  PROVE  /\ Insert(FirstVersions(u, k), Feed[u][k + 1]) = FirstVersions(u, k + 1)
         /\ \A j \in 1..(k + 1) :
              \E q \in FirstVersions(u, k + 1) : q.uuid = Feed[u][j].uuid
<1> DEFINE x == Feed[u][k + 1]
           S == FirstVersions(u, k)
           Is1st(j) == \A h \in 1..(j - 1) : Feed[u][h].uuid # Feed[u][j].uuid
<1>1. \A y : y \in S <=> \E j \in 1..k : Is1st(j) /\ y = Feed[u][j]
  BY DEF FirstVersions
<1>2. \A y : y \in FirstVersions(u, k + 1) <=> \E j \in 1..(k + 1) : Is1st(j) /\ y = Feed[u][j]
  BY DEF FirstVersions
<1>3. \A j : j \in 1..(k + 1) <=> j \in 1..k \/ j = k + 1
  OBVIOUS
<1>4. Is1st(k + 1) <=> \A h \in 1..k : Feed[u][h].uuid # x.uuid
  OBVIOUS
<1>5. Is1st(k + 1) <=> \A q \in S : q.uuid # x.uuid
  BY <1>1, <1>4
<1> HIDE DEF Is1st, S
<1>6. \A y : y \in FirstVersions(u, k + 1) <=> y \in S \/ (Is1st(k + 1) /\ y = x)
  BY <1>1, <1>2, <1>3
<1>7. Insert(S, x) = FirstVersions(u, k + 1)
  BY <1>5, <1>6 DEF Insert
<1>8. \A j \in 1..k : \E q \in S : q.uuid = Feed[u][j].uuid
  BY DEF S
<1>9. \E q \in FirstVersions(u, k + 1) : q.uuid = x.uuid
  BY <1>5, <1>6
<1> QED
  BY <1>3, <1>6, <1>7, <1>8, <1>9 DEF S

\* Nothing was read yet.
LEMMA StreamInit == Init => StreamInv
<1> SUFFICES ASSUME Init PROVE StreamInv
  OBVIOUS
<1>1. profiles = {} /\ \A u \in Push : read_count[u] = 0 /\ received[u] = {}
  BY DEF Init
<1>2. \A u \in Push : Len(Feed[u]) \in Nat /\ FirstVersions(u, 0) = {}
  BY ClientAssumption DEF FirstVersions
<1>3. 1..0 = {} /\ \A n \in Nat : 0 <= n
  OBVIOUS
<1> QED
  BY <1>1, <1>2, <1>3 DEF StreamInv, ProfilesOfOnePush

\* Reading is the only step that changes what was received; an update and a
\* restart are the only ones that change the profiles.
LEMMA StreamSteps ==
  ASSUME [Next]_vars
  PROVE  \/ \E u \in Push : ReadProfile(u)
         \/ /\ UNCHANGED <<read_count, received>>
            /\ \/ profiles' \in {profiles, {}}
               \/ \E u \in Push : profiles' = received[u]
<1>1. CASE \E u \in Push : ReadProfile(u)
  BY <1>1
<1>2. CASE \E u \in Push : OpenStream(u) \/ EndOfStream(u) \/ LockForUpdate(u)
             \/ ReleaseOld(u) \/ AdoptReceived(u)
  BY <1>2 DEF OpenStream, EndOfStream, LockForUpdate, ReleaseOld, AdoptReceived, pushVars
<1>3. CASE \E c \in Call : CallStep(c) \/ TaskStep(c)
  BY <1>3 DEF CallStep, TaskStep, ReceiveTransaction, LockForCopy, CopyProfile, SpawnTask,
     NextProfile, SendSucceeds, SendFailsRetryable, SendFailsNonRetryable, EndProfile,
     FinishTask, pushVars
<1>4. CASE LateDelivery \/ Restart \/ Quiescent \/ UNCHANGED vars
  BY <1>4 DEF LateDelivery, Restart, Quiescent, vars, pushVars
<1> QED
  BY <1>1, <1>2, <1>3, <1>4 DEF Next, PushStep

\* StreamInv is inductive, relative to the types.
LEMMA StreamStep == TypeOK /\ StreamInv /\ [Next]_vars => StreamInv'
<1> SUFFICES ASSUME TypeOK, StreamInv, [Next]_vars PROVE StreamInv'
  OBVIOUS
<1>1. ASSUME NEW u \in Push, ReadProfile(u) PROVE StreamInv'
  <2> DEFINE k == read_count[u]
  <2>1. /\ k \in Nat /\ k < Len(Feed[u]) /\ Len(Feed[u]) \in Nat
        /\ read_count' = [read_count EXCEPT ![u] = k + 1]
        /\ received' = [received EXCEPT ![u] = Insert(received[u], Feed[u][k + 1])]
        /\ profiles' = profiles
    BY <1>1, ClientAssumption DEF ReadProfile, TypeOK
  <2>2. /\ received[u] = FirstVersions(u, k)
        /\ \A j \in 1..k : \E q \in received[u] : q.uuid = Feed[u][j].uuid
    BY DEF StreamInv
  <2>3. read_count \in [Push -> Nat] /\ received \in [Push -> SUBSET Profile]
    BY DEF TypeOK
  <2> HIDE DEF k
  <2>4. /\ received'[u] = Insert(received[u], Feed[u][k + 1]) /\ read_count'[u] = k + 1
        /\ \A v \in Push \ {u} : received'[v] = received[v] /\ read_count'[v] = read_count[v]
    BY <2>1, <2>3
  <2>5. /\ received'[u] = FirstVersions(u, k + 1)
        /\ \A j \in 1..(k + 1) : \E q \in received'[u] : q.uuid = Feed[u][j].uuid
    BY <2>1, <2>2, <2>4, InsertFirst
  <2>6. k + 1 <= Len(Feed[u])
    BY <2>1
  <2>7. ASSUME NEW v \in Push
        PROVE  /\ read_count'[v] <= Len(Feed[v])
               /\ received'[v] = FirstVersions(v, read_count'[v])
               /\ \A j \in 1..read_count'[v] :
                    \E q \in received'[v] : q.uuid = Feed[v][j].uuid
    <3>1. CASE v = u
      BY <2>4, <2>5, <2>6, <3>1
    <3>2. CASE v # u
      BY <2>4, <3>2 DEF StreamInv
    <3> QED
      BY <3>1, <3>2
  <2>8. ProfilesOfOnePush'
    BY <2>1 DEF StreamInv, ProfilesOfOnePush
  <2> QED
    BY <2>7, <2>8 DEF StreamInv
<1>2. CASE /\ UNCHANGED <<read_count, received>>
           /\ \/ profiles' \in {profiles, {}}
              \/ \E u \in Push : profiles' = received[u]
  <2>1. ASSUME NEW u \in Push, profiles' = received[u]
        PROVE  \E k \in 0..Len(Feed[u]) : profiles' = FirstVersions(u, k)
    <3>1. read_count[u] \in 0..Len(Feed[u])
      BY ClientAssumption DEF StreamInv, TypeOK
    <3> QED
      BY <2>1, <3>1 DEF StreamInv
  <2>2. ProfilesOfOnePush'
    BY <1>2, <2>1 DEF StreamInv, ProfilesOfOnePush, FirstVersions
  <2> QED
    BY <1>2, <2>2 DEF StreamInv, FirstVersions
<1> QED
  BY <1>1, <1>2, StreamSteps

\* The profiles in force are the first versions in a prefix of the stream of one
\* push, whatever pushes overlap.
THEOREM ProfilesAreOfOnePush == Spec => []ProfilesOfOnePush
<1>1. StreamInv => ProfilesOfOnePush
  BY DEF StreamInv
<1> QED
  BY <1>1, TypeCorrect, StreamInit, StreamStep, PTL DEF Spec

-----------------------------------------------------------------------------
(***************************************************************************)
(* The fan-out: what a call puts on the request topic, through failed      *)
(* sends, late deliveries and restarts.                                    *)
(***************************************************************************)
-----------------------------------------------------------------------------
(* The inductive invariant                                                 *)

Delivered(c, p, n) == InTopic(RequestOf(c, p, n))

\* Where the loops of the task of c can be.
LoopInv(c) ==
  /\ call[c] # "running" => profile[c] = NoProfile /\ todo[c] = {}
  /\ todo[c] \subseteq snapshot[c]
  /\ profile[c] # NoProfile =>
       /\ profile[c] \in snapshot[c] \ todo[c]
       /\ sended_count[c] <= Len(profile[c].rules)
       /\ \A k \in 0..(sended_count[c] - 1) : Delivered(c, profile[c], k)

\* What is on the topic was sent by a task that has been there.
SentInv(c, p, n) ==
  Delivered(c, p, n) =>
    /\ Accepted(c)
    /\ p \in snapshot[c] \ todo[c]
    /\ profile[c] = p => n < sended_count[c]

\* What may still land follows what has landed, and its task has left the
\* profile for good.
LimboInv(c, p, n) ==
  RequestOf(c, p, n) \in limbo =>
    /\ ~ Delivered(c, p, n)
    /\ \A k \in 0..(n - 1) : Delivered(c, p, k)
    /\ Accepted(c)
    /\ p \in snapshot[c] \ todo[c]
    /\ profile[c] # p

\* A profile the task has left without an error is dispatched to its end.
LogInv(c) ==
  call[c] \in {"running", "finished"} =>
    \A p \in snapshot[c] \ logged[c] :
      \/ p \in todo[c]
      \/ p = profile[c]
      \/ \A n \in RuleNumbers(p) : Delivered(c, p, n)

DispatchInv ==
  /\ RequestsInOrder
  /\ \A m \in limbo : IsRequest(m)
  /\ \A c \in Call : LoopInv(c) /\ LogInv(c)
  /\ \A c \in Call, p \in Profile : \A n \in RuleNumbers(p) :
       SentInv(c, p, n) /\ LimboInv(c, p, n)

-----------------------------------------------------------------------------
(* Requests on the topic                                                   *)

\* Two requests are the same only if call, profile and number are.
LEMMA RequestInjective ==
  ASSUME NEW c, NEW d, NEW p, NEW q, NEW n, NEW k,
         RequestOf(c, p, n) = RequestOf(d, q, k)
  PROVE  c = d /\ p = q /\ n = k
<1>1. /\ RequestOf(c, p, n).call = RequestOf(d, q, k).call
      /\ RequestOf(c, p, n).profile = RequestOf(d, q, k).profile
      /\ RequestOf(c, p, n).number = RequestOf(d, q, k).number
  OBVIOUS
<1> QED
  BY <1>1 DEF RequestOf

LEMMA RequestFields ==
  ASSUME NEW c, NEW p, NEW n
  PROVE  /\ RequestOf(c, p, n).call = c
         /\ RequestOf(c, p, n).profile = p
         /\ RequestOf(c, p, n).number = n
BY DEF RequestOf

LEMMA RuleNumbersNat ==
  ASSUME NEW p \in Profile
  PROVE  /\ Len(p.rules) \in Nat
         /\ RuleNumbers(p) \subseteq Nat
         /\ \A n \in RuleNumbers(p) : 0..(n - 1) \subseteq RuleNumbers(p)
<1>1. Len(p.rules) \in Nat
  BY ProfileAssumption
<1> QED
  BY <1>1 DEF RuleNumbers

\* A message appended to the topic is on it, after what was there.
LEMMA AppendTopic ==
  ASSUME TypeOK, NEW m \in Message, topic' = Append(topic, m)
  PROVE  /\ Len(topic) \in Nat
         /\ DOMAIN topic = 1..Len(topic)
         /\ DOMAIN topic' = 1..(Len(topic) + 1)
         /\ \A i \in DOMAIN topic : topic'[i] = topic[i]
         /\ topic'[Len(topic) + 1] = m
         /\ \A x : InTopic(x)' <=> InTopic(x) \/ x = m
<1>1. topic \in Seq(Message)
  BY DEF TypeOK
<1>2. /\ Len(topic) \in Nat
      /\ DOMAIN topic = 1..Len(topic)
      /\ DOMAIN topic' = 1..(Len(topic) + 1)
      /\ \A i \in DOMAIN topic : topic'[i] = topic[i]
      /\ topic'[Len(topic) + 1] = m
  BY <1>1
<1>3. ASSUME NEW x PROVE InTopic(x)' <=> InTopic(x) \/ x = m
  BY <1>2 DEF InTopic
<1> QED
  BY <1>2, <1>3

LEMMA AppendDelivers ==
  ASSUME TypeOK, NEW c \in Call, NEW p \in Profile, NEW n \in RuleNumbers(p),
         topic' = Append(topic, RequestOf(c, p, n))
  PROVE  \A d \in Call, q \in Profile : \A k \in RuleNumbers(q) :
           Delivered(d, q, k)' <=>
             Delivered(d, q, k) \/ (d = c /\ q = p /\ k = n)
<1>1. RequestOf(c, p, n) \in Message
  BY RequestType
<1>2. \A x : InTopic(x)' <=> InTopic(x) \/ x = RequestOf(c, p, n)
  BY <1>1, AppendTopic
<1> QED
  BY <1>2, RequestInjective DEF Delivered

\* The next request of a call for a profile keeps the topic in order.
LEMMA AppendInOrder ==
  ASSUME TypeOK, RequestsInOrder,
         NEW c \in Call, NEW p \in Profile, NEW n \in RuleNumbers(p),
         ~ Delivered(c, p, n),
         \A k \in 0..(n - 1) : Delivered(c, p, k),
         topic' = Append(topic, RequestOf(c, p, n))
  PROVE  RequestsInOrder'
<1> DEFINE m == RequestOf(c, p, n)
<1>1. /\ Len(topic) \in Nat
      /\ DOMAIN topic = 1..Len(topic)
      /\ DOMAIN topic' = 1..(Len(topic) + 1)
      /\ \A i \in DOMAIN topic : topic'[i] = topic[i]
      /\ topic'[Len(topic) + 1] = m
  BY RequestType, AppendTopic
<1>2. m.call = c /\ m.profile = p /\ m.number = n /\ IsRequest(m)
  BY RequestFields DEF IsRequest
<1> HIDE DEF m
<1> SUFFICES ASSUME NEW j \in DOMAIN topic'
             PROVE  /\ IsRequest(topic'[j])
                    /\ \A k \in 0..(topic'[j].number - 1) :
                         \E i \in 1..(j - 1) :
                           topic'[i] = RequestOf(topic'[j].call,
                                                 topic'[j].profile, k)
                    /\ \A i \in 1..(j - 1) : topic'[i] # topic'[j]
  BY DEF RequestsInOrder, IsRequest
<1>3. CASE j \in DOMAIN topic
  <2>1. topic'[j] = topic[j] /\ \A i \in 1..(j - 1) : topic'[i] = topic[i]
    BY <1>1, <1>3
  <2> QED
    BY <1>3, <2>1 DEF RequestsInOrder
<1>4. CASE j = Len(topic) + 1
  <2>1. topic'[j] = m /\ 1..(j - 1) = DOMAIN topic
    BY <1>1, <1>4
  <2>2. ASSUME NEW k \in 0..(n - 1)
        PROVE  \E i \in DOMAIN topic : topic'[i] = RequestOf(c, p, k)
    <3>1. PICK i \in DOMAIN topic : topic[i] = RequestOf(c, p, k)
      BY DEF Delivered, InTopic
    <3> QED
      BY <1>1, <3>1
  <2>3. \A i \in DOMAIN topic : topic'[i] # m
    BY <1>1 DEF Delivered, InTopic, m
  <2> QED
    BY <1>2, <2>1, <2>2, <2>3
<1> QED
  BY <1>1, <1>3, <1>4

-----------------------------------------------------------------------------
(* Every step keeps the invariant                                          *)

LEMMA DispatchInit == Init => DispatchInv
BY HolderAssumption
DEF Init, DispatchInv, RequestsInOrder, LoopInv, LogInv, SentInv, LimboInv,
    Delivered, InTopic, Accepted

\* A step that leaves the tasks, the topic and the accepted calls alone.
LEMMA DispatchFrame ==
  ASSUME DispatchInv,
         UNCHANGED <<snapshot, todo, profile, sended_count, logged, topic, limbo>>,
         \A c \in Call : \/ call'[c] = call[c]
                         \/ {call[c], call'[c]} \subseteq
                              {"idle", "locking", "copying"}
  PROVE  DispatchInv'
<1>1. RequestsInOrder' /\ \A m \in limbo' : IsRequest(m)
  BY DEF DispatchInv, RequestsInOrder
<1>2. ASSUME NEW c \in Call PROVE LoopInv(c)' /\ LogInv(c)'
  BY DEF DispatchInv, LoopInv, LogInv, Delivered, InTopic
<1>3. ASSUME NEW c \in Call, NEW p \in Profile, NEW n \in RuleNumbers(p)
      PROVE  SentInv(c, p, n)' /\ LimboInv(c, p, n)'
  BY DEF DispatchInv, SentInv, LimboInv, Delivered, InTopic, Accepted
<1> QED
  BY <1>1, <1>2, <1>3 DEF DispatchInv, IsRequest

LEMMA DispatchPush ==
  ASSUME TypeOK, DispatchInv, NEW u \in Push, PushStep(u)
  PROVE  DispatchInv'
BY DispatchFrame
DEF PushStep, OpenStream, ReadProfile, EndOfStream, LockForUpdate, ReleaseOld,
    AdoptReceived, callVars, taskVars, kafkaVars

LEMMA DispatchCall ==
  ASSUME TypeOK, DispatchInv, NEW c \in Call, CallStep(c)
  PROVE  DispatchInv'
<1>1. CASE ReceiveTransaction(c)
  BY <1>1, DispatchFrame DEF ReceiveTransaction, taskVars, kafkaVars, TypeOK
<1>2. CASE LockForCopy(c)
  BY <1>2, DispatchFrame DEF LockForCopy, taskVars, kafkaVars, TypeOK
<1>3. CASE CopyProfile(c)
  <2>1. /\ UNCHANGED <<call, todo, profile, sended_count, logged, topic, limbo>>
        /\ call[c] = "copying"
        /\ \A d \in Call : d # c => snapshot'[d] = snapshot[d]
        /\ snapshot[c] \subseteq snapshot'[c]
    BY <1>3 DEF CopyProfile, callVars, taskVars, kafkaVars, TypeOK
  <2>2. RequestsInOrder' /\ \A m \in limbo' : IsRequest(m)
    BY <2>1 DEF DispatchInv, RequestsInOrder
  <2>3. ASSUME NEW d \in Call PROVE LoopInv(d)' /\ LogInv(d)'
    BY <2>1 DEF DispatchInv, LoopInv, LogInv, Delivered, InTopic
  <2>4. ASSUME NEW d \in Call, NEW p \in Profile, NEW n \in RuleNumbers(p)
        PROVE  SentInv(d, p, n)' /\ LimboInv(d, p, n)'
    BY <2>1 DEF DispatchInv, SentInv, LimboInv, Delivered, InTopic, Accepted
  <2> QED
    BY <2>2, <2>3, <2>4 DEF DispatchInv, IsRequest
<1>4. CASE SpawnTask(c)
  <2>1. /\ UNCHANGED <<snapshot, profile, sended_count, logged, topic, limbo>>
        /\ call[c] = "copying" /\ call'[c] = "running"
        /\ todo'[c] = snapshot[c]
        /\ \A d \in Call : d # c => call'[d] = call[d] /\ todo'[d] = todo[d]
        /\ profile[c] = NoProfile
    BY <1>4 DEF SpawnTask, kafkaVars, TypeOK, DispatchInv, LoopInv
  <2>2. RequestsInOrder' /\ \A m \in limbo' : IsRequest(m)
    BY <2>1 DEF DispatchInv, RequestsInOrder
  <2>3. ASSUME NEW d \in Call PROVE LoopInv(d)' /\ LogInv(d)'
    BY <2>1 DEF DispatchInv, LoopInv, LogInv, Delivered, InTopic
  <2>4. ASSUME NEW d \in Call, NEW p \in Profile, NEW n \in RuleNumbers(p)
        PROVE  SentInv(d, p, n)' /\ LimboInv(d, p, n)'
    <3>1. d = c => ~ Delivered(d, p, n) /\ RequestOf(d, p, n) \notin limbo
      BY <2>1 DEF DispatchInv, SentInv, LimboInv, Accepted
    <3> QED
      BY <2>1, <3>1
      DEF DispatchInv, SentInv, LimboInv, Delivered, InTopic, Accepted
  <2> QED
    BY <2>2, <2>3, <2>4 DEF DispatchInv, IsRequest
<1> QED
  BY <1>1, <1>2, <1>3, <1>4 DEF CallStep

\* What a task that waits for Send knows about the request it sends.
LEMMA InFlightNext ==
  ASSUME TypeOK, DispatchInv, NEW c \in Call, Sending(c)
  PROVE  /\ profile[c] \in Profile
         /\ sended_count[c] \in RuleNumbers(profile[c])
         /\ profile[c] \in snapshot[c] \ todo[c]
         /\ ~ Delivered(c, profile[c], sended_count[c])
         /\ \A k \in 0..(sended_count[c] - 1) : Delivered(c, profile[c], k)
         /\ \A n \in RuleNumbers(profile[c]) :
              RequestOf(c, profile[c], n) \notin limbo
<1>1. /\ profile[c] \in Profile
      /\ sended_count[c] \in RuleNumbers(profile[c])
  BY InFlightType
<1>2. /\ profile[c] \in snapshot[c] \ todo[c]
      /\ \A k \in 0..(sended_count[c] - 1) : Delivered(c, profile[c], k)
  BY DEF DispatchInv, LoopInv, Sending
<1>3. ~ Delivered(c, profile[c], sended_count[c])
  BY <1>1, RuleNumbersNat DEF DispatchInv, SentInv
<1>4. \A n \in RuleNumbers(profile[c]) : RequestOf(c, profile[c], n) \notin limbo
  BY <1>1 DEF DispatchInv, LimboInv
<1> QED
  BY <1>1, <1>2, <1>3, <1>4

LEMMA DispatchNextProfile ==
  ASSUME TypeOK, DispatchInv, NEW c \in Call, NextProfile(c)
  PROVE  DispatchInv'
<1>1. PICK q \in todo[c] : profile'[c] = q /\ todo'[c] = todo[c] \ {q}
  BY DEF NextProfile, TypeOK
<1>2. /\ UNCHANGED <<call, snapshot, logged, topic, limbo>>
      /\ call[c] = "running" /\ profile[c] = NoProfile
      /\ sended_count'[c] = 0
      /\ \A d \in Call : d # c => /\ profile'[d] = profile[d]
                                  /\ todo'[d] = todo[d]
                                  /\ sended_count'[d] = sended_count[d]
  BY DEF NextProfile, callVars, kafkaVars, TypeOK
<1>3. RequestsInOrder' /\ \A m \in limbo' : IsRequest(m)
  BY <1>2 DEF DispatchInv, RequestsInOrder
<1>4. q \in Profile /\ q \in snapshot[c] /\ Len(q.rules) \in Nat
  BY RuleNumbersNat DEF TypeOK, DispatchInv, LoopInv
<1>5. ASSUME NEW d \in Call PROVE LoopInv(d)' /\ LogInv(d)'
  <2>1. CASE d = c
    <3>1. LoopInv(d)'
      <4>1. 0..(sended_count'[c] - 1) = {}
        BY <1>2
      <4> QED
        BY <1>1, <1>2, <1>4, <2>1, <4>1 DEF DispatchInv, LoopInv
    <3>2. LogInv(d)'
      <4>1. NoProfile \notin snapshot[c]
        BY ProfileAssumption DEF TypeOK
      <4> QED
        BY <1>1, <1>2, <2>1, <4>1 DEF DispatchInv, LogInv, Delivered, InTopic
    <3> QED
      BY <3>1, <3>2
  <2>2. CASE d # c
    BY <1>2, <2>2 DEF DispatchInv, LoopInv, LogInv, Delivered, InTopic
  <2> QED
    BY <2>1, <2>2
<1>6. ASSUME NEW d \in Call, NEW p \in Profile, NEW n \in RuleNumbers(p)
      PROVE  SentInv(d, p, n)' /\ LimboInv(d, p, n)'
  <2>1. d = c /\ p = q => ~ Delivered(d, p, n) /\ RequestOf(d, p, n) \notin limbo
    BY DEF DispatchInv, SentInv, LimboInv
  <2> QED
    BY <1>1, <1>2, <2>1
    DEF DispatchInv, SentInv, LimboInv, Delivered, InTopic, Accepted
<1> QED
  BY <1>3, <1>5, <1>6 DEF DispatchInv, IsRequest

LEMMA DispatchSendSucceeds ==
  ASSUME TypeOK, DispatchInv, NEW c \in Call, SendSucceeds(c)
  PROVE  DispatchInv'
<1>0. PICK q \in Profile, s \in Nat : q = profile[c] /\ s = sended_count[c]
  BY InFlightType DEF SendSucceeds, TypeOK
<1>1. /\ q \in Profile /\ s \in RuleNumbers(q) /\ q \in snapshot[c] \ todo[c]
      /\ ~ Delivered(c, q, s)
      /\ \A k \in 0..(s - 1) : Delivered(c, q, k)
      /\ \A n \in RuleNumbers(q) : RequestOf(c, q, n) \notin limbo
  BY <1>0, InFlightNext DEF SendSucceeds
<1>2. /\ UNCHANGED <<call, snapshot, todo, profile, logged, limbo>>
      /\ topic' = Append(topic, RequestOf(c, q, s))
      /\ call[c] = "running" /\ q # NoProfile /\ s < Len(q.rules)
      /\ sended_count'[c] = s + 1
      /\ \A d \in Call : d # c => sended_count'[d] = sended_count[d]
  BY <1>0 DEF SendSucceeds, Sending, InFlight, callVars, TypeOK
<1>3. s \in Nat /\ Len(q.rules) \in Nat
  BY <1>1, RuleNumbersNat
<1>4. RequestsInOrder'
  BY <1>1, <1>2, AppendInOrder DEF DispatchInv
<1>5. \A d \in Call, p \in Profile : \A n \in RuleNumbers(p) :
        Delivered(d, p, n)' <=>
          Delivered(d, p, n) \/ (d = c /\ p = q /\ n = s)
  BY <1>1, <1>2, AppendDelivers
<1>6. ASSUME NEW d \in Call PROVE LoopInv(d)' /\ LogInv(d)'
  <2>1. LoopInv(d)'
    <3>1. CASE d = c
      <4>1. profile'[d] = q /\ sended_count'[d] <= Len(q.rules)
        BY <1>0, <1>2, <1>3, <3>1
      <4>2. ASSUME NEW k \in 0..(sended_count'[d] - 1)
            PROVE  Delivered(c, q, k)'
        <5>1. k \in RuleNumbers(q) /\ (k \in 0..(s - 1) \/ k = s)
          BY <1>2, <1>3, <3>1 DEF RuleNumbers
        <5> QED
          BY <1>1, <1>5, <5>1
      <4> QED
        BY <1>0, <1>1, <1>2, <3>1, <4>1, <4>2 DEF DispatchInv, LoopInv
    <3>2. CASE d # c
      <4>1. ASSUME profile[d] # NoProfile,
                   NEW k \in 0..(sended_count[d] - 1)
            PROVE  Delivered(d, profile[d], k)'
        <5>1. /\ profile[d] \in Profile /\ Len(profile[d].rules) \in Nat
              /\ sended_count[d] \in Nat
              /\ sended_count[d] <= Len(profile[d].rules)
          BY <4>1, RuleNumbersNat DEF TypeOK, DispatchInv, LoopInv
        <5>2. k \in RuleNumbers(profile[d])
          BY <5>1 DEF RuleNumbers
        <5> QED
          BY <1>2, <1>5, <4>1, <5>1, <5>2 DEF DispatchInv, LoopInv
      <4> QED
        BY <1>2, <3>2, <4>1 DEF DispatchInv, LoopInv
    <3> QED
      BY <3>1, <3>2
  <2>2. LogInv(d)'
    BY <1>0, <1>2, <1>5 DEF DispatchInv, LogInv, TypeOK
  <2> QED
    BY <2>1, <2>2
<1>7. ASSUME NEW d \in Call, NEW p \in Profile, NEW n \in RuleNumbers(p)
      PROVE  SentInv(d, p, n)' /\ LimboInv(d, p, n)'
  <2>1. n \in Nat
    BY RuleNumbersNat
  <2>2. SentInv(d, p, n)'
    BY <1>0, <1>1, <1>2, <1>3, <1>5, <2>1 DEF DispatchInv, SentInv, Accepted
  <2>3. LimboInv(d, p, n)'
    <3>1. \A k \in 0..(n - 1) : k \in RuleNumbers(p)
      BY RuleNumbersNat
    <3> QED
      BY <1>1, <1>2, <1>5, <3>1 DEF DispatchInv, LimboInv, Accepted
  <2> QED
    BY <2>2, <2>3
<1> QED
  BY <1>2, <1>4, <1>6, <1>7 DEF DispatchInv, IsRequest

\* A failed send: the profile is left and reported.
LEMMA DispatchSendFails ==
  ASSUME TypeOK, DispatchInv, NEW c \in Call,
         SendFailsRetryable(c) \/ SendFailsNonRetryable(c)
  PROVE  DispatchInv'
<1>0. PICK q \in Profile, s \in Nat : q = profile[c] /\ s = sended_count[c]
  BY InFlightType DEF SendFailsRetryable, SendFailsNonRetryable, TypeOK
<1>1. /\ s \in RuleNumbers(q) /\ q \in snapshot[c] \ todo[c]
      /\ ~ Delivered(c, q, s)
      /\ \A k \in 0..(s - 1) : Delivered(c, q, k)
      /\ \A n \in RuleNumbers(q) : RequestOf(c, q, n) \notin limbo
  BY <1>0, InFlightNext DEF SendFailsRetryable, SendFailsNonRetryable
<1>2. /\ UNCHANGED <<call, snapshot, todo, topic>>
      /\ limbo' \in {limbo, limbo \cup {RequestOf(c, q, s)}}
      /\ call[c] = "running"
      /\ profile'[c] = NoProfile
      /\ logged'[c] = logged[c] \cup {q}
      /\ \A d \in Call : d # c => /\ profile'[d] = profile[d]
                                  /\ logged'[d] = logged[d]
                                  /\ sended_count'[d] = sended_count[d]
  BY <1>0 DEF SendFailsRetryable, SendFailsNonRetryable, Sending, InFlight,
              callVars, kafkaVars, TypeOK
<1>3. NoProfile \notin Profile
  BY ProfileAssumption
<1>4. RequestsInOrder'
  BY <1>2 DEF DispatchInv, RequestsInOrder
<1>5. \A m \in limbo' : IsRequest(m)
  BY <1>1, <1>2 DEF DispatchInv, IsRequest
<1>6. ASSUME NEW d \in Call PROVE LoopInv(d)' /\ LogInv(d)'
  <2>1. CASE d = c
    <3>1. LoopInv(d)'
      BY <1>2, <2>1 DEF DispatchInv, LoopInv
    <3>2. LogInv(d)'
      BY <1>0, <1>2, <2>1 DEF DispatchInv, LogInv, Delivered, InTopic
    <3> QED
      BY <3>1, <3>2
  <2>2. CASE d # c
    BY <1>2, <2>2 DEF DispatchInv, LoopInv, LogInv, Delivered, InTopic
  <2> QED
    BY <2>1, <2>2
<1>7. ASSUME NEW d \in Call, NEW p \in Profile, NEW n \in RuleNumbers(p)
      PROVE  SentInv(d, p, n)' /\ LimboInv(d, p, n)'
  <2>1. SentInv(d, p, n)'
    BY <1>2, <1>3 DEF DispatchInv, SentInv, Delivered, InTopic, Accepted
  <2>2. LimboInv(d, p, n)'
    <3>1. CASE RequestOf(d, p, n) \in limbo
      BY <1>2, <1>3, <3>1
      DEF DispatchInv, LimboInv, Delivered, InTopic, Accepted
    <3>2. CASE RequestOf(d, p, n) = RequestOf(c, q, s)
      <4>1. d = c /\ p = q /\ n = s
        BY <3>2, RequestInjective
      <4> QED
        BY <1>1, <1>2, <1>3, <4>1
        DEF DispatchInv, LimboInv, Delivered, InTopic, Accepted
    <3> QED
      BY <1>2, <3>1, <3>2 DEF LimboInv
  <2> QED
    BY <2>1, <2>2
<1> QED
  BY <1>4, <1>5, <1>6, <1>7 DEF DispatchInv, IsRequest

LEMMA DispatchEndProfile ==
  ASSUME TypeOK, DispatchInv, NEW c \in Call, EndProfile(c)
  PROVE  DispatchInv'
<1>1. /\ UNCHANGED <<call, snapshot, todo, sended_count, logged, topic, limbo>>
      /\ call[c] = "running"
      /\ profile[c] # NoProfile /\ profile'[c] = NoProfile
      /\ sended_count[c] = Len(profile[c].rules)
      /\ \A d \in Call : d # c => profile'[d] = profile[d]
  BY DEF EndProfile, callVars, kafkaVars, TypeOK
<1>2. \A n \in RuleNumbers(profile[c]) : Delivered(c, profile[c], n)
  BY <1>1 DEF DispatchInv, LoopInv, RuleNumbers
<1>3. RequestsInOrder' /\ \A m \in limbo' : IsRequest(m)
  BY <1>1 DEF DispatchInv, RequestsInOrder
<1>4. ASSUME NEW d \in Call PROVE LoopInv(d)' /\ LogInv(d)'
  <2>1. CASE d = c
    BY <1>1, <1>2, <2>1 DEF DispatchInv, LoopInv, LogInv, Delivered, InTopic
  <2>2. CASE d # c
    BY <1>1, <2>2 DEF DispatchInv, LoopInv, LogInv, Delivered, InTopic
  <2> QED
    BY <2>1, <2>2
<1>5. ASSUME NEW d \in Call, NEW p \in Profile, NEW n \in RuleNumbers(p)
      PROVE  SentInv(d, p, n)' /\ LimboInv(d, p, n)'
  <2>1. NoProfile \notin Profile
    BY ProfileAssumption
  <2> QED
    BY <1>1, <2>1 DEF DispatchInv, SentInv, LimboInv, Delivered, InTopic, Accepted
<1> QED
  BY <1>3, <1>4, <1>5 DEF DispatchInv, IsRequest

LEMMA DispatchFinishTask ==
  ASSUME TypeOK, DispatchInv, NEW c \in Call, FinishTask(c)
  PROVE  DispatchInv'
<1>1. /\ UNCHANGED <<snapshot, todo, profile, sended_count, logged, topic, limbo>>
      /\ call[c] = "running" /\ call'[c] = "finished"
      /\ profile[c] = NoProfile /\ todo[c] = {}
      /\ \A d \in Call : d # c => call'[d] = call[d]
  BY DEF FinishTask, taskVars, kafkaVars, TypeOK
<1>2. RequestsInOrder' /\ \A m \in limbo' : IsRequest(m)
  BY <1>1 DEF DispatchInv, RequestsInOrder
<1>3. ASSUME NEW d \in Call PROVE LoopInv(d)' /\ LogInv(d)'
  BY <1>1 DEF DispatchInv, LoopInv, LogInv, Delivered, InTopic
<1>4. ASSUME NEW d \in Call, NEW p \in Profile, NEW n \in RuleNumbers(p)
      PROVE  SentInv(d, p, n)' /\ LimboInv(d, p, n)'
  BY <1>1 DEF DispatchInv, SentInv, LimboInv, Delivered, InTopic, Accepted
<1> QED
  BY <1>2, <1>3, <1>4 DEF DispatchInv, IsRequest

\* A request that lands late is the next one of its call for its profile.
LEMMA DispatchLateDelivery ==
  ASSUME TypeOK, DispatchInv, LateDelivery
  PROVE  DispatchInv'
<1>1. PICK m \in limbo : topic' = Append(topic, m) /\ limbo' = limbo \ {m}
  BY DEF LateDelivery
<1>2. PICK c \in Call, q \in Profile : \E n \in RuleNumbers(q) :
        m = RequestOf(c, q, n)
  BY DEF DispatchInv, IsRequest
<1>3. PICK s \in RuleNumbers(q) : m = RequestOf(c, q, s)
  BY <1>2
<1>4. UNCHANGED <<call, snapshot, todo, profile, sended_count, logged>>
  BY DEF LateDelivery, callVars, taskVars
<1>5. /\ ~ Delivered(c, q, s)
      /\ \A k \in 0..(s - 1) : Delivered(c, q, k)
      /\ Accepted(c) /\ q \in snapshot[c] \ todo[c] /\ profile[c] # q
  BY <1>3 DEF DispatchInv, LimboInv
<1>6. RequestsInOrder'
  BY <1>1, <1>3, <1>5, AppendInOrder DEF DispatchInv
<1>7. \A d \in Call, p \in Profile : \A n \in RuleNumbers(p) :
        Delivered(d, p, n)' <=>
          Delivered(d, p, n) \/ (d = c /\ p = q /\ n = s)
  BY <1>1, <1>3, AppendDelivers
<1>8. ASSUME NEW d \in Call PROVE LoopInv(d)' /\ LogInv(d)'
  <2>1. ASSUME profile[d] # NoProfile, NEW k \in 0..(sended_count[d] - 1)
        PROVE  Delivered(d, profile[d], k)'
    <3>1. /\ profile[d] \in Profile /\ Len(profile[d].rules) \in Nat
          /\ sended_count[d] \in Nat
          /\ sended_count[d] <= Len(profile[d].rules)
      BY <2>1, RuleNumbersNat DEF TypeOK, DispatchInv, LoopInv
    <3>2. k \in RuleNumbers(profile[d])
      BY <3>1 DEF RuleNumbers
    <3> QED
      BY <1>4, <1>7, <2>1, <3>1, <3>2 DEF DispatchInv, LoopInv
  <2>2. LoopInv(d)'
    BY <1>4, <2>1 DEF DispatchInv, LoopInv
  <2>3. LogInv(d)'
    BY <1>4, <1>7 DEF DispatchInv, LogInv, TypeOK
  <2> QED
    BY <2>2, <2>3
<1>9. ASSUME NEW d \in Call, NEW p \in Profile, NEW n \in RuleNumbers(p)
      PROVE  SentInv(d, p, n)' /\ LimboInv(d, p, n)'
  <2>1. SentInv(d, p, n)'
    BY <1>4, <1>5, <1>7 DEF DispatchInv, SentInv, Accepted
  <2>2. LimboInv(d, p, n)'
    <3>1. \A k \in 0..(n - 1) : k \in RuleNumbers(p)
      BY RuleNumbersNat
    <3>2. RequestOf(d, p, n) \in limbo' =>
            RequestOf(d, p, n) \in limbo /\ ~ (d = c /\ p = q /\ n = s)
      BY <1>1, <1>3
    <3> QED
      BY <1>4, <1>7, <3>1, <3>2 DEF DispatchInv, LimboInv, Accepted
  <2> QED
    BY <2>1, <2>2
<1> QED
  BY <1>1, <1>6, <1>8, <1>9 DEF DispatchInv, IsRequest

LEMMA DispatchRestart ==
  ASSUME TypeOK, DispatchInv, Restart
  PROVE  DispatchInv'
<1>1. /\ UNCHANGED <<snapshot, logged, topic>>
      /\ \A c \in Call : todo'[c] = {} /\ profile'[c] = NoProfile
      /\ \A c \in Call : call'[c] # "running"
      /\ \A c \in Call : call'[c] = "finished" <=> call[c] = "finished"
      /\ \A c \in Call : Accepted(c)' <=> Accepted(c)
      /\ limbo' = limbo \cup {InFlight(c) : c \in {d \in Call : Sending(d)}}
  BY DEF Restart, Accepted, TypeOK
<1>2. NoProfile \notin Profile
  BY ProfileAssumption
<1>3. RequestsInOrder'
  BY <1>1 DEF DispatchInv, RequestsInOrder
<1>4. \A m \in limbo' : IsRequest(m)
  <2>1. ASSUME NEW c \in Call, Sending(c) PROVE IsRequest(InFlight(c))
    BY <2>1, InFlightType DEF InFlight, IsRequest
  <2> QED
    BY <1>1, <2>1 DEF DispatchInv
<1>5. ASSUME NEW c \in Call PROVE LoopInv(c)' /\ LogInv(c)'
  <2>1. LoopInv(c)'
    BY <1>1 DEF LoopInv
  <2>2. LogInv(c)'
    <3>1. call[c] = "finished" => profile[c] = NoProfile /\ todo[c] = {}
      BY DEF DispatchInv, LoopInv
    <3> QED
      BY <1>1, <3>1 DEF DispatchInv, LogInv, Delivered, InTopic
  <2> QED
    BY <2>1, <2>2
<1>6. ASSUME NEW c \in Call, NEW p \in Profile, NEW n \in RuleNumbers(p)
      PROVE  SentInv(c, p, n)' /\ LimboInv(c, p, n)'
  <2>1. SentInv(c, p, n)'
    BY <1>1, <1>2 DEF DispatchInv, SentInv, Delivered, InTopic
  <2>2. LimboInv(c, p, n)'
    <3>1. CASE RequestOf(c, p, n) \in limbo
      BY <1>1, <1>2, <3>1 DEF DispatchInv, LimboInv, Delivered, InTopic
    <3>2. ASSUME NEW d \in Call, Sending(d),
                 RequestOf(c, p, n) = InFlight(d)
          PROVE  LimboInv(c, p, n)'
      <4>1. d = c /\ p = profile[c] /\ n = sended_count[c]
        BY <3>2, RequestInjective DEF InFlight
      <4>2. /\ ~ Delivered(c, p, n)
            /\ \A k \in 0..(n - 1) : Delivered(c, p, k)
            /\ p \in snapshot[c]
        BY <3>2, <4>1, InFlightNext
      <4>3. Accepted(c)
        BY <3>2, <4>1 DEF Sending, Accepted
      <4> QED
        BY <1>1, <1>2, <4>2, <4>3 DEF LimboInv, Delivered, InTopic
    <3> QED
      BY <1>1, <3>1, <3>2 DEF LimboInv
  <2> QED
    BY <2>1, <2>2
<1> QED
  BY <1>3, <1>4, <1>5, <1>6 DEF DispatchInv, IsRequest

LEMMA DispatchStep ==
  ASSUME TypeOK, DispatchInv, [Next]_vars
  PROVE  DispatchInv'
<1>1. CASE UNCHANGED vars
  BY <1>1, DispatchFrame DEF vars
<1> QED
  BY <1>1, DispatchPush, DispatchCall, DispatchNextProfile,
     DispatchSendSucceeds, DispatchSendFails, DispatchEndProfile,
     DispatchFinishTask, DispatchLateDelivery, DispatchRestart
  DEF Next, TaskStep, Quiescent

THEOREM DispatchInvariant == Spec => []DispatchInv
<1>1. Init => DispatchInv
  BY DispatchInit
<1>2. TypeOK /\ DispatchInv /\ [Next]_vars => DispatchInv'
  BY DispatchStep
<1> QED
  BY <1>1, <1>2, TypeCorrect, PTL DEF Spec

\* For each call and profile the topic holds the requests numbered from 0, with
\* no gap and no repetition, in order, through failed sends, requests that
\* land late and restarts (RuleRequestProducer::operator()).
THEOREM TopicInOrder == Spec => []RequestsInOrder
BY DispatchInvariant, PTL DEF DispatchInv

\* Each request on the topic is for a profile of the version its call works on.
THEOREM TopicFromSnapshots == Spec => []RequestsFromSnapshot
<1>1. DispatchInv => RequestsFromSnapshot
  <2> SUFFICES ASSUME DispatchInv, NEW j \in DOMAIN topic
               PROVE  /\ Accepted(topic[j].call)
                      /\ topic[j].profile \in snapshot[topic[j].call]
    BY DEF RequestsFromSnapshot
  <2>1. PICK c \in Call, p \in Profile : \E n \in RuleNumbers(p) :
          topic[j] = RequestOf(c, p, n)
    BY DEF DispatchInv, RequestsInOrder, IsRequest
  <2>2. PICK n \in RuleNumbers(p) : topic[j] = RequestOf(c, p, n)
    BY <2>1
  <2>3. Accepted(c) /\ p \in snapshot[c]
    BY <2>2 DEF DispatchInv, SentInv, Delivered, InTopic
  <2> QED
    BY <2>2, <2>3, RequestFields
<1> QED
  BY <1>1, DispatchInvariant, PTL

\* When a task is over, a profile that misses a request on the topic is one the
\* task reported an error for (the loop of Director::ProcessTransaction).
THEOREM MissingIsLogged == Spec => []NothingMissingUnlogged
<1>1. TypeOK /\ DispatchInv => NothingMissingUnlogged
  <2> SUFFICES ASSUME TypeOK, DispatchInv, NEW c \in Call,
                      call[c] = "finished", NEW p \in snapshot[c] \ logged[c],
                      NEW n \in RuleNumbers(p)
               PROVE  InTopic(RequestOf(c, p, n))
    BY DEF NothingMissingUnlogged
  <2>1. profile[c] = NoProfile /\ todo[c] = {} /\ LogInv(c)
    BY DEF DispatchInv, LoopInv
  <2>2. p # NoProfile
    BY ProfileAssumption DEF TypeOK
  <2> QED
    BY <2>1, <2>2 DEF LogInv, Delivered
<1> QED
  BY <1>1, DispatchInvariant, TypeCorrect, PTL

-----------------------------------------------------------------------------
(***************************************************************************)
(* The director implements module FanOut: to every accepted call it looks  *)
(* as if the set of profiles were replaced and read in one step, and as if *)
(* each request reached the topic in its turn.                             *)
(***************************************************************************)
-----------------------------------------------------------------------------
(* The refinement mapping                                                  *)

\* One handler at most is between the two halves of an update.
LEMMA AdoptingIsUnique ==
  ASSUME LockInv, NEW u \in Adopting
  PROVE  Adopting = {u}
BY DEF LockInv, Adopting

LEMMA CurrentWhileAdopting ==
  ASSUME NEW u \in Push, Adopting = {u}
  PROVE  FanOutCurrent = received[u]
<1>1. (CHOOSE v \in {u} : TRUE) = u
  OBVIOUS
<1> QED
  BY <1>1 DEF FanOutCurrent

\* A step that moves nobody in or out of the half-done update.
LEMMA CurrentStutters ==
  ASSUME UNCHANGED profiles, Adopting' = Adopting,
         \A u \in Adopting : received'[u] = received[u]
  PROVE  UNCHANGED FanOutCurrent
<1>1. CASE Adopting = {}
  BY <1>1 DEF FanOutCurrent
<1>2. CASE Adopting # {}
  <2>1. (CHOOSE u \in Adopting : TRUE) \in Adopting
    BY <1>2
  <2> QED
    BY <1>2, <2>1 DEF FanOutCurrent
<1> QED
  BY <1>1, <1>2

LEMMA ViewStutters ==
  ASSUME \A c \in Call : /\ Accepted(c)' <=> Accepted(c)
                         /\ Accepted(c) => snapshot'[c] = snapshot[c]
  PROVE  UNCHANGED FanOutView
BY DEF FanOutView

LEMMA GivenUpStutters ==
  ASSUME UNCHANGED <<snapshot, logged>>,
         \A c \in Call : (call[c] = "lost") <=> (call'[c] = "lost")
  PROVE  UNCHANGED FanOutGivenUp
BY DEF FanOutGivenUp

LEMMA EmittedStutters ==
  ASSUME UNCHANGED topic
  PROVE  UNCHANGED FanOutEmitted
BY DEF FanOutEmitted

LEMMA EmittedType ==
  ASSUME TypeOK
  PROVE  /\ FanOutEmitted \in Seq(Call \X Profile \X Nat)
         /\ Len(FanOutEmitted) = Len(topic)
         /\ DOMAIN FanOutEmitted = 1..Len(topic)
<1>1. /\ topic \in Seq(Message)
      /\ DOMAIN topic = 1..Len(topic) /\ Len(topic) \in Nat
      /\ \A i \in DOMAIN topic : topic[i] \in Message
  BY DEF TypeOK
<1>2. \A i \in 1..Len(topic) :
        /\ FanOutEmitted[i] = <<topic[i].call, topic[i].profile, topic[i].number>>
        /\ FanOutEmitted[i] \in Call \X Profile \X Nat
  BY <1>1 DEF FanOutEmitted, Message
<1>3. FanOutEmitted \in [1..Len(topic) -> Call \X Profile \X Nat]
  BY <1>1, <1>2 DEF FanOutEmitted
<1> QED
  BY <1>1, <1>3

\* A request is on the topic exactly if it is emitted in the abstract one.
LEMMA EmittedIffDelivered ==
  ASSUME RequestsInOrder,
         NEW c \in Call, NEW p \in Profile, NEW n \in RuleNumbers(p)
  PROVE  Abstract!IsEmitted(c, p, n) <=> Delivered(c, p, n)
<1>1. ASSUME NEW i \in DOMAIN topic
      PROVE  <<topic[i].call, topic[i].profile, topic[i].number>> = <<c, p, n>>
               <=> topic[i] = RequestOf(c, p, n)
  <2>1. PICK d \in Call, q \in Profile : \E k \in RuleNumbers(q) :
          topic[i] = RequestOf(d, q, k)
    BY DEF RequestsInOrder, IsRequest
  <2>2. PICK k \in RuleNumbers(q) : topic[i] = RequestOf(d, q, k)
    BY <2>1
  <2> QED
    BY <2>2, RequestFields, RequestInjective
<1> QED
  BY <1>1 DEF Abstract!IsEmitted, FanOutEmitted, Delivered, InTopic

-----------------------------------------------------------------------------
(* Each step is an abstract step or a stutter                              *)

LEMMA RefineInit ==
  ASSUME Init
  PROVE  Abstract!FanOutInit
<1>1. FanOutCurrent = {}
  BY DEF Init, FanOutCurrent, Adopting
<1>2. FanOutView = [c \in Call |-> NoProfile]
  BY DEF Init, FanOutView, Accepted
<1>3. FanOutEmitted = <<>>
  <2>1. FanOutEmitted \in Seq(Call \X Profile \X Nat) /\ Len(FanOutEmitted) = 0
    BY TypeInit, EmittedType DEF Init
  <2> QED
    BY <2>1
<1>4. FanOutGivenUp = [c \in Call |-> {}]
  BY DEF Init, FanOutGivenUp
<1> QED
  BY <1>1, <1>2, <1>3, <1>4 DEF Abstract!FanOutInit

\* The next request of an accepted call that lands is an abstract Emit.
LEMMA RefineAppend ==
  ASSUME TypeOK, RequestsInOrder,
         NEW c \in Call, NEW p \in Profile, NEW n \in RuleNumbers(p),
         ~ Delivered(c, p, n),
         \A k \in 0..(n - 1) : Delivered(c, p, k),
         Accepted(c), p \in snapshot[c],
         topic' = Append(topic, RequestOf(c, p, n)),
         UNCHANGED <<profiles, push, received, call, snapshot, logged>>
  PROVE  Abstract!FanOutNext
<1>1. UNCHANGED FanOutCurrent
  <2>1. Adopting' = Adopting
    BY DEF Adopting
  <2> QED
    BY <2>1, CurrentStutters
<1>2. UNCHANGED FanOutView
  BY ViewStutters DEF Accepted
<1>3. FanOutView[c] = snapshot[c] /\ FanOutView[c] # NoProfile
  BY ProfileAssumption DEF FanOutView, TypeOK
<1>4. n \in 0..(Len(p.rules) - 1)
  BY DEF RuleNumbers
<1>5. ~ Abstract!IsEmitted(c, p, n)
  BY EmittedIffDelivered
<1>6. \A k \in 0..(n - 1) : Abstract!IsEmitted(c, p, k)
  BY EmittedIffDelivered, RuleNumbersNat
<1>7. FanOutEmitted' = Append(FanOutEmitted, <<c, p, n>>)
  <2>1. /\ Len(topic) \in Nat
        /\ DOMAIN topic = 1..Len(topic)
        /\ DOMAIN topic' = 1..(Len(topic) + 1)
        /\ \A i \in DOMAIN topic : topic'[i] = topic[i]
        /\ topic'[Len(topic) + 1] = RequestOf(c, p, n)
    BY RequestType, AppendTopic
  <2>2. /\ FanOutEmitted \in Seq(Call \X Profile \X Nat)
        /\ Len(FanOutEmitted) = Len(topic)
    BY EmittedType
  <2>3. <<c, p, n>> \in Call \X Profile \X Nat
    BY RuleNumbersNat
  <2>4. FanOutEmitted' = [i \in 1..(Len(topic) + 1) |->
          <<topic'[i].call, topic'[i].profile, topic'[i].number>>]
    BY <2>1 DEF FanOutEmitted
  <2>5. Append(FanOutEmitted, <<c, p, n>>) = [i \in 1..(Len(topic) + 1) |->
          IF i \in 1..Len(topic) THEN FanOutEmitted[i] ELSE <<c, p, n>>]
    BY <2>1, <2>2, <2>3
  <2>6. \A i \in 1..(Len(topic) + 1) :
          <<topic'[i].call, topic'[i].profile, topic'[i].number>> =
            IF i \in 1..Len(topic) THEN FanOutEmitted[i] ELSE <<c, p, n>>
    BY <2>1, RequestFields DEF FanOutEmitted
  <2> QED
    BY <2>4, <2>5, <2>6
<1>8. UNCHANGED FanOutGivenUp
  BY GivenUpStutters
<1>9. Abstract!Emit(c, p)
  BY <1>1, <1>2, <1>3, <1>4, <1>5, <1>6, <1>7, <1>8
  DEF Abstract!Emit, Abstract!InView
<1> QED
  BY <1>9 DEF Abstract!FanOutNext

\* A failure of Send gives up the profile in dispatch.
LEMMA RefineGiveUp ==
  ASSUME TypeOK, DispatchInv, NEW c \in Call, Sending(c),
         logged' = [logged EXCEPT ![c] = @ \cup {profile[c]}],
         UNCHANGED <<profiles, push, received, call, snapshot, topic>>
  PROVE  Abstract!FanOutNext
<1> DEFINE p == profile[c]  n == sended_count[c]
<1>1. /\ p \in Profile /\ n \in RuleNumbers(p) /\ p \in snapshot[c]
      /\ ~ Delivered(c, p, n)
  BY InFlightNext
<1>2. call[c] = "running"
  BY DEF Sending
<1>3. UNCHANGED FanOutCurrent
  <2>1. Adopting' = Adopting
    BY DEF Adopting
  <2> QED
    BY <2>1, CurrentStutters
<1>4. UNCHANGED FanOutView /\ UNCHANGED FanOutEmitted
  BY ViewStutters, EmittedStutters DEF Accepted
<1>5. FanOutView[c] = snapshot[c] /\ FanOutView[c] # NoProfile
  BY <1>2, ProfileAssumption DEF FanOutView, Accepted, TypeOK
<1>6. ~ Abstract!IsEmitted(c, p, n)
  BY <1>1, EmittedIffDelivered DEF DispatchInv
<1>7. ~ Abstract!Complete(c, p)
  BY <1>1, <1>6 DEF Abstract!Complete, RuleNumbers
<1>8. FanOutGivenUp' = [FanOutGivenUp EXCEPT ![c] = @ \cup {p}]
  BY <1>2 DEF FanOutGivenUp, TypeOK
<1>9. Abstract!GiveUp(c, p)
  BY <1>1, <1>3, <1>4, <1>5, <1>7, <1>8 DEF Abstract!GiveUp, Abstract!InView
<1> QED
  BY <1>1, <1>9 DEF Abstract!FanOutNext

LEMMA RefinePush ==
  ASSUME TypeOK, VersionInv, NEW u \in Push, PushStep(u)
  PROVE  [Abstract!FanOutNext]_Abstract!fanOutVars
<1>1. UNCHANGED <<call, snapshot, topic, logged>>
  BY DEF PushStep, OpenStream, ReadProfile, EndOfStream, LockForUpdate,
     ReleaseOld, AdoptReceived, callVars, kafkaVars, taskVars
<1>2. /\ UNCHANGED FanOutView /\ UNCHANGED FanOutEmitted
      /\ UNCHANGED FanOutGivenUp
  BY <1>1, ViewStutters, EmittedStutters, GivenUpStutters DEF Accepted
<1>3. CASE OpenStream(u) \/ ReadProfile(u) \/ EndOfStream(u) \/ LockForUpdate(u)
  <2>1. /\ UNCHANGED profiles
        /\ push[u] # "adopting" /\ push'[u] # "adopting"
        /\ \A v \in Push : v # u => /\ push'[v] = push[v]
                                    /\ received'[v] = received[v]
    BY <1>3 DEF OpenStream, ReadProfile, EndOfStream, LockForUpdate, TypeOK
  <2>2. Adopting' = Adopting /\ u \notin Adopting
    BY <2>1 DEF Adopting
  <2>3. \A v \in Adopting : received'[v] = received[v]
    BY <2>1, <2>2 DEF Adopting
  <2>4. UNCHANGED FanOutCurrent
    BY <2>1, <2>2, <2>3, CurrentStutters
  <2> QED
    BY <1>2, <2>4 DEF Abstract!fanOutVars
<1>4. CASE ReleaseOld(u)
  <2>1. Adopting' = {u}
    <3>1. \A v \in Push : push[v] # "adopting"
      BY <1>4 DEF ReleaseOld, VersionInv, LockInv
    <3> QED
      BY <1>4, <3>1 DEF ReleaseOld, Adopting, TypeOK
  <2>2. FanOutCurrent' = received'[u]
    <3>1. (CHOOSE v \in {u} : TRUE) = u
      OBVIOUS
    <3> QED
      BY <2>1, <3>1 DEF FanOutCurrent
  <2>3. received'[u] \in SUBSET Profile
    BY <1>4 DEF ReleaseOld, TypeOK
  <2>4. Abstract!Replace
    BY <1>2, <2>2, <2>3 DEF Abstract!Replace
  <2> QED
    BY <2>4 DEF Abstract!FanOutNext
<1>5. CASE AdoptReceived(u)
  <2>1. Adopting = {u}
    BY <1>5, AdoptingIsUnique DEF AdoptReceived, Adopting, VersionInv
  <2>2. FanOutCurrent = received[u]
    BY <2>1, CurrentWhileAdopting
  <2>3. Adopting' = {}
    BY <1>5, <2>1 DEF AdoptReceived, Adopting, TypeOK
  <2>4. FanOutCurrent' = received[u]
    BY <1>5, <2>3 DEF AdoptReceived, FanOutCurrent
  <2> QED
    BY <1>2, <2>2, <2>4 DEF Abstract!fanOutVars
<1> QED
  BY <1>3, <1>4, <1>5 DEF PushStep

LEMMA RefineCall ==
  ASSUME TypeOK, VersionInv, NEW c \in Call, CallStep(c)
  PROVE  [Abstract!FanOutNext]_Abstract!fanOutVars
<1>1. UNCHANGED <<profiles, push, received, topic, logged>>
  BY DEF CallStep, ReceiveTransaction, LockForCopy, CopyProfile, SpawnTask,
     pushVars, kafkaVars, taskVars
<1>2. UNCHANGED FanOutCurrent
  <2>1. Adopting' = Adopting
    BY <1>1 DEF Adopting
  <2> QED
    BY <1>1, <2>1, CurrentStutters
<1>3. UNCHANGED FanOutEmitted
  BY <1>1, EmittedStutters
<1>4. CASE ReceiveTransaction(c) \/ LockForCopy(c) \/ CopyProfile(c)
  <2>1. /\ ~ Accepted(c) /\ ~ Accepted(c)'
        /\ \A d \in Call : d # c => /\ call'[d] = call[d]
                                    /\ snapshot'[d] = snapshot[d]
    BY <1>4 DEF ReceiveTransaction, LockForCopy, CopyProfile, callVars,
       Accepted, TypeOK
  <2>2. UNCHANGED FanOutView
    BY <2>1, ViewStutters DEF Accepted
  <2>3. UNCHANGED FanOutGivenUp
    BY <1>1, <2>1 DEF FanOutGivenUp, Accepted
  <2> QED
    BY <1>2, <1>3, <2>2, <2>3 DEF Abstract!fanOutVars
<1>5. CASE SpawnTask(c)
  <2>1. FanOutCurrent = profiles /\ snapshot[c] = profiles
    <3>1. Adopting = {}
      BY <1>5, HolderAssumption DEF SpawnTask, VersionInv, LockInv, Adopting
    <3> QED
      BY <1>5, <3>1 DEF SpawnTask, VersionInv, CopyInv, FanOutCurrent
  <2>2. FanOutView[c] = NoProfile
    BY <1>5 DEF SpawnTask, FanOutView, Accepted
  <2>3. FanOutView' = [FanOutView EXCEPT ![c] = snapshot[c]]
    <3>1. /\ Accepted(c)' /\ UNCHANGED snapshot
          /\ \A d \in Call : d # c => call'[d] = call[d]
      BY <1>5 DEF SpawnTask, Accepted, TypeOK
    <3> QED
      BY <3>1 DEF FanOutView, Accepted
  <2>4. UNCHANGED FanOutGivenUp
    BY <1>1, <1>5, GivenUpStutters DEF SpawnTask, TypeOK
  <2>5. Abstract!Bind(c)
    BY <1>2, <1>3, <2>1, <2>2, <2>3, <2>4 DEF Abstract!Bind
  <2> QED
    BY <2>5 DEF Abstract!FanOutNext
<1> QED
  BY <1>4, <1>5 DEF CallStep

LEMMA RefineTask ==
  ASSUME TypeOK, DispatchInv, NEW c \in Call, TaskStep(c)
  PROVE  [Abstract!FanOutNext]_Abstract!fanOutVars
<1>1. UNCHANGED <<profiles, push, received, snapshot>>
  BY DEF TaskStep, NextProfile, SendSucceeds, SendFailsRetryable,
     SendFailsNonRetryable, EndProfile, FinishTask, pushVars, callVars
<1>2. CASE SendSucceeds(c)
  <2>1. /\ UNCHANGED <<call, logged>> /\ Sending(c)
        /\ topic' = Append(topic, InFlight(c))
    BY <1>2 DEF SendSucceeds, callVars
  <2>2. Accepted(c)
    BY <2>1 DEF Sending, Accepted
  <2>3. Abstract!FanOutNext
    BY <1>1, <2>1, <2>2, InFlightNext, RefineAppend DEF InFlight, DispatchInv
  <2> QED
    BY <2>3
<1>3. CASE SendFailsRetryable(c) \/ SendFailsNonRetryable(c)
  <2>1. /\ Sending(c) /\ UNCHANGED <<call, topic>>
        /\ logged' = [logged EXCEPT ![c] = @ \cup {profile[c]}]
    BY <1>3 DEF SendFailsRetryable, SendFailsNonRetryable, callVars, kafkaVars
  <2> QED
    BY <1>1, <2>1, RefineGiveUp
<1>4. CASE NextProfile(c) \/ EndProfile(c) \/ FinishTask(c)
  <2>1. /\ UNCHANGED <<topic, logged>>
        /\ \/ UNCHANGED call
           \/ /\ call[c] = "running"
              /\ call' = [call EXCEPT ![c] = "finished"]
    BY <1>4 DEF NextProfile, EndProfile, FinishTask, callVars, kafkaVars, taskVars
  <2>2. Adopting' = Adopting
    BY <1>1 DEF Adopting
  <2>3. UNCHANGED FanOutCurrent
    BY <1>1, <2>2, CurrentStutters
  <2>4. UNCHANGED FanOutView /\ UNCHANGED FanOutGivenUp
    BY <1>1, <2>1, ViewStutters, GivenUpStutters DEF Accepted, TypeOK
  <2> QED
    BY <2>1, <2>3, <2>4, EmittedStutters DEF Abstract!fanOutVars
<1> QED
  BY <1>2, <1>3, <1>4 DEF TaskStep

LEMMA RefineRest ==
  ASSUME TypeOK, DispatchInv, LateDelivery \/ Restart \/ UNCHANGED vars
  PROVE  [Abstract!FanOutNext]_Abstract!fanOutVars
<1>1. CASE LateDelivery
  <2>1. UNCHANGED <<profiles, push, received, call, snapshot, logged>>
    BY <1>1 DEF LateDelivery, pushVars, callVars, taskVars
  <2>2. PICK m \in limbo : topic' = Append(topic, m) /\ IsRequest(m)
    BY <1>1 DEF LateDelivery, DispatchInv
  <2>3. PICK c \in Call, p \in Profile : \E n \in RuleNumbers(p) :
          m = RequestOf(c, p, n)
    BY <2>2 DEF IsRequest
  <2>4. PICK n \in RuleNumbers(p) : m = RequestOf(c, p, n)
    BY <2>3
  <2>5. /\ ~ Delivered(c, p, n)
        /\ \A k \in 0..(n - 1) : Delivered(c, p, k)
        /\ Accepted(c) /\ p \in snapshot[c]
    BY <2>4 DEF DispatchInv, LimboInv
  <2>6. Abstract!FanOutNext
    BY <2>1, <2>2, <2>4, <2>5, RefineAppend DEF DispatchInv
  <2> QED
    BY <2>6
<1>2. CASE Restart
  <2> DEFINE running == {c \in Call : call[c] = "running"}
  <2>1. /\ profiles' = {} /\ UNCHANGED <<snapshot, topic, logged>>
        /\ \A u \in Push : push'[u] # "adopting"
        /\ \A c \in Call : Accepted(c)' <=> Accepted(c)
        /\ \A c \in Call : (call'[c] = "lost") <=> (call[c] = "lost" \/ c \in running)
    BY <1>2 DEF Restart, Accepted, TypeOK
  <2>2. FanOutCurrent' = {}
    BY <2>1 DEF FanOutCurrent, Adopting
  <2>3. UNCHANGED FanOutView /\ UNCHANGED FanOutEmitted
    BY <2>1, ViewStutters, EmittedStutters
  <2>4. \A c \in running : FanOutView[c] = snapshot[c] /\ FanOutView[c] # NoProfile
    BY ProfileAssumption DEF FanOutView, Accepted, TypeOK
  <2>5. FanOutGivenUp' =
          [c \in Call |-> IF c \in running THEN FanOutView[c] ELSE FanOutGivenUp[c]]
    BY <2>1, <2>4 DEF FanOutGivenUp
  <2>6. running \in SUBSET {c \in Call : FanOutView[c] # NoProfile}
    BY <2>4
  <2>7. Abstract!Crash
    BY <2>2, <2>3, <2>5, <2>6 DEF Abstract!Crash
  <2> QED
    BY <2>7 DEF Abstract!FanOutNext
<1>3. CASE UNCHANGED vars
  <2>1. /\ UNCHANGED <<profiles, push, received, call, snapshot, topic, logged>>
        /\ Adopting' = Adopting
    BY <1>3 DEF vars, Adopting
  <2> QED
    BY <2>1, CurrentStutters, ViewStutters, EmittedStutters, GivenUpStutters
    DEF Abstract!fanOutVars, Accepted
<1> QED
  BY <1>1, <1>2, <1>3

\* The director implements the atomic fan-out: the mutex makes update and copy
\* look like one step each, and whatever fails, what reaches the topic is the
\* next request of an accepted call for a profile of its version.
THEOREM DirectorImplementsFanOut == Spec => Implements
<1>1. Init => Abstract!FanOutInit
  BY RefineInit
<1>2. TypeOK /\ VersionInv /\ DispatchInv /\ [Next]_vars
        => [Abstract!FanOutNext]_Abstract!fanOutVars
  BY RefinePush, RefineCall, RefineTask, RefineRest DEF Next, Quiescent
<1> QED
  BY <1>1, <1>2, TypeCorrect, VersionInvariant, DispatchInvariant, PTL
  DEF Spec, Implements, Abstract!FanOutSpec

=============================================================================
