----------------------------- MODULE ProfilePush -----------------------------
(***************************************************************************)
(* The push of profiles from the admin panel to the director, while        *)
(* operators go on editing: send_selected_profiles and                     *)
(* send_profiles_to_director in the panel, ProcessProfileStream in the     *)
(* director.                                                               *)
(*                                                                         *)
(* The panel reads its tables statement by statement, outside any          *)
(* transaction, in the thread that feeds the stream.  The director         *)
(* installs what came through when the stream is over, however it ended,   *)
(* in one step (Director!Implements).                                      *)
(***************************************************************************)
EXTENDS Naturals, Sequences, FiniteSets

CONSTANTS
  Push,       \* the pushes
  Profile,    \* rows of Profile
  Rule,       \* rows of RuleConfig
  ProfileOf,  \* the profile each rule belongs to
  Present,    \* the rules there are at first
  Selected,   \* Selected[u]: the profiles the operator selects for push u
  NoProfile,  \* no profile in work
  Gone,       \* the object a rule refers to was deleted
  MaxEdits,   \* bound on the edits in the panel
  MaxDeaths   \* bound on the deaths of the director

\* What a rule refers to: an expression, and whether it fits the schema.
Object == [version : Nat, parses : BOOLEAN]

ASSUME PushAssumption ==
  /\ ProfileOf \in [Rule -> Profile] /\ Present \subseteq Rule
  /\ Selected \in [Push -> SUBSET Profile]
  /\ NoProfile \notin Profile /\ Gone \notin Object
  /\ MaxEdits \in Nat /\ MaxDeaths \in Nat

VARIABLES
  profiles,  \* the table of profiles
  configs,   \* configs[r]: a RuleConfig is not there yet, there, or deleted
  object,    \* object[r]: the rule that RuleConfig r refers to
  edits,
  push,      \* push[u]: where the panel is with push u
  handler,   \* handler[u]: where the director is with it
  current,   \* the profiles the director works with
  deaths

\* History variables: the tables when a push began, and whether it was alone
\* since: no other stream open or opened, no death of the director.
VARIABLES before, alone

tableVars == <<profiles, configs, object, edits>>
pushVars == <<push, before>>
directorVars == <<handler, current, alone, deaths>>
vars == <<tableVars, pushVars, directorVars>>

-----------------------------------------------------------------------------

\* The director may still install something of push u.
MayInstall(u) ==
  \/ handler[u] = "open"
  \/ /\ handler[u] = "none" /\ push[u].stage # "idle"
     /\ push[u].outcome \in {"none", "error"}

Tables == [profiles |-> profiles, configs |-> configs, object |-> object]

Init ==
  /\ profiles = Profile
  /\ configs = [r \in Rule |-> IF r \in Present THEN "there" ELSE "unborn"]
  /\ object = [r \in Rule |-> [version |-> 0, parses |-> TRUE]]
  /\ edits = 0
  /\ push = [u \in Push |->
       [stage |-> "idle", loaded |-> {}, queue |-> {}, at |-> NoProfile,
        todo |-> {}, rules |-> {}, sent |-> <<>>, outcome |-> "none", reported |-> 0]]
  /\ before = [u \in Push |-> Tables]
  /\ handler = [u \in Push |-> "none"]
  /\ current = {}
  /\ alone = [u \in Push |-> FALSE]
  /\ deaths = 0

-----------------------------------------------------------------------------
(* The operators                                                           *)

Edit ==
  /\ edits < MaxEdits
  /\ edits' = edits + 1
  /\ UNCHANGED <<pushVars, directorVars>>

\* An expression is saved anew; the schema may not have all of it.
SaveExpression(r) ==
  /\ Edit
  /\ object[r] # Gone
  /\ \E parses \in BOOLEAN :
       object' = [object EXCEPT ![r] = [version |-> edits + 1, parses |-> parses]]
  /\ UNCHANGED <<profiles, configs>>

\* Deleting the rule itself leaves the RuleConfig that refers to it.
DeleteObject(r) ==
  /\ Edit
  /\ object' = [object EXCEPT ![r] = Gone]
  /\ UNCHANGED <<profiles, configs>>

AddConfig(r) ==
  /\ Edit
  /\ configs[r] = "unborn" /\ ProfileOf[r] \in profiles
  /\ configs' = [configs EXCEPT ![r] = "there"]
  /\ UNCHANGED <<profiles, object>>

DeleteConfig(r) ==
  /\ Edit
  /\ configs[r] = "there"
  /\ configs' = [configs EXCEPT ![r] = "deleted"]
  /\ UNCHANGED <<profiles, object>>

\* on_delete=CASCADE takes the RuleConfigs of the profile along.
DeleteProfile(p) ==
  /\ Edit
  /\ p \in profiles
  /\ profiles' = profiles \ {p}
  /\ configs' = [r \in Rule |-> IF ProfileOf[r] = p THEN "deleted" ELSE configs[r]]
  /\ UNCHANGED object

-----------------------------------------------------------------------------
(* The panel                                                               *)

\* queryset.exists(), and the call to the director; the selection was made on a
\* page that may be out of date.
BeginPush(u) ==
  /\ push[u].stage = "idle"
  /\ push' = IF Selected[u] \cap profiles = {}
             THEN [push EXCEPT ![u].stage = "over", ![u].outcome = "warning"]
             ELSE [push EXCEPT ![u].stage = "calling"]
  /\ before' = [before EXCEPT ![u] = Tables]
  /\ alone' = [v \in Push |-> v = u /\ \A w \in Push : ~ MayInstall(w)]
  /\ UNCHANGED <<tableVars, handler, current, deaths>>

\* The first step of the iteration fetches all profiles into the result cache.
FetchProfiles(u) ==
  /\ push[u].stage = "calling"
  /\ push' = [push EXCEPT ![u].stage = "iterating",
                          ![u].queue = Selected[u] \cap profiles,
                          ![u].loaded = Selected[u] \cap profiles]
  /\ UNCHANGED <<tableVars, before, directorVars>>

\* profile.rules.all(): the rules of the next profile.
FetchRules(u) ==
  /\ push[u].stage = "iterating"
  /\ \E p \in push[u].queue :
       push' = [push EXCEPT ![u].stage = "converting", ![u].at = p,
                            ![u].queue = @ \ {p},
                            ![u].todo = {r \in Rule : ProfileOf[r] = p /\ configs[r] = "there"},
                            ![u].rules = {}]
  /\ UNCHANGED <<tableVars, before, directorVars>>

\* The push is over, and the iterator is gone.
Failed(u) ==
  [push EXCEPT ![u].stage = "over", ![u].outcome = "error", ![u].queue = {},
               ![u].at = NoProfile, ![u].todo = {}, ![u].rules = {}]

\* config.rule, and its conversion: one that is gone leaves the oneof empty,
\* one that does not parse ends the push.
Converts(r) == object[r] = Gone \/ object[r].parses

\* MUTANT: the error is only printed, and the rule left out.
ConvertRuleSwallowing(u) ==
  /\ push[u].stage = "converting"
  /\ \E r \in push[u].todo :
       push' = [push EXCEPT ![u].todo = @ \ {r},
                            ![u].rules = IF Converts(r) THEN @ \cup {<<r, object[r]>>} ELSE @]
  /\ UNCHANGED <<tableVars, before, directorVars>>

ConvertRule(u) ==
  /\ push[u].stage = "converting"
  /\ \E r \in push[u].todo :
       push' = IF Converts(r)
               THEN [push EXCEPT ![u].todo = @ \ {r},
                                 ![u].rules = @ \cup {<<r, object[r]>>}]
               ELSE Failed(u)
  /\ UNCHANGED <<tableVars, before, directorVars>>

\* MUTANT: the uuid is not copied.
MessageWithoutUuid(u) == [uuid |-> NoProfile, rules |-> push[u].rules]

Message(u) == [uuid |-> push[u].at, rules |-> push[u].rules]

SendProfile(u) ==
  /\ push[u].stage = "converting" /\ push[u].todo = {}
  /\ push' = [push EXCEPT ![u].stage = "iterating",
                          ![u].at = NoProfile, ![u].rules = {},
                          ![u].sent = Append(@, Message(u))]
  /\ UNCHANGED <<tableVars, before, directorVars>>

EndIteration(u) ==
  /\ push[u].stage = "iterating" /\ push[u].queue = {}
  /\ push' = [push EXCEPT ![u].stage = "sent"]
  /\ UNCHANGED <<tableVars, before, directorVars>>

\* MUTANT: the rows are counted again.
CountedAgain(u) == Cardinality(Selected[u] \cap profiles)

\* queryset.count() after the iteration is the length of the result cache.
Counted(u) == Cardinality(push[u].loaded)

\* The answer of the director arrives.
Succeed(u) ==
  /\ push[u].stage = "sent" /\ handler[u] = "answered"
  /\ push' = [push EXCEPT ![u].stage = "over", ![u].outcome = "success",
                          ![u].reported = Counted(u)]
  /\ UNCHANGED <<tableVars, before, directorVars>>

\* The 30 seconds are over, or the call fails in another way, at any point.
Fail(u) ==
  /\ push[u].stage \notin {"idle", "over"}
  /\ push' = Failed(u)
  /\ UNCHANGED <<tableVars, before, directorVars>>

-----------------------------------------------------------------------------
(* The director                                                            *)

\* A call may reach the director after the panel has given it up.
OpenStream(u) ==
  /\ handler[u] = "none" /\ MayInstall(u)
  /\ handler' = [handler EXCEPT ![u] = "open"]
  /\ UNCHANGED <<tableVars, pushVars, current, alone, deaths>>

WholeStream(u) == push[u].stage = "sent"

\* MUTANT: the director waits for the end of the stream.
StreamIsOverWhole(u) == WholeStream(u)

\* reader.Read answers false to a finished stream and to a broken one.
StreamIsOver(u) == WholeStream(u) \/ push[u].stage = "over"

\* MUTANT: they are added to those there are.
ReceivedMore(u, n) == current \cup {push[u].sent[i] : i \in 1..n}

\* The first n profiles sent.
Received(u, n) == {push[u].sent[i] : i \in 1..n}

\* What came through before the stream was over replaces the profiles.
Install(u) ==
  /\ handler[u] = "open" /\ StreamIsOver(u)
  /\ \E n \in 0..Len(push[u].sent) :
       /\ WholeStream(u) => n = Len(push[u].sent)
       /\ current' = Received(u, n)
  /\ handler' = [handler EXCEPT ![u] = IF WholeStream(u) THEN "answered" ELSE "closed"]
  /\ UNCHANGED <<tableVars, pushVars, alone, deaths>>

DirectorDies ==
  /\ deaths < MaxDeaths
  /\ deaths' = deaths + 1
  /\ current' = {}
  /\ handler' = [u \in Push |-> IF handler[u] = "open" THEN "closed" ELSE handler[u]]
  /\ alone' = [u \in Push |-> FALSE]
  /\ UNCHANGED <<tableVars, pushVars>>

\* No push is on its way.
Quiescent ==
  /\ \A u \in Push : push[u].stage \in {"idle", "over"} /\ handler[u] # "open"
  /\ UNCHANGED vars

PanelStep(u) ==
  FetchProfiles(u) \/ FetchRules(u) \/ ConvertRule(u) \/ SendProfile(u)
    \/ EndIteration(u) \/ Succeed(u) \/ Fail(u)

Next ==
  \/ \E r \in Rule : SaveExpression(r) \/ DeleteObject(r) \/ AddConfig(r) \/ DeleteConfig(r)
  \/ \E p \in Profile : DeleteProfile(p)
  \/ \E u \in Push : BeginPush(u) \/ PanelStep(u)
                    \/ OpenStream(u) \/ Install(u)
  \/ DirectorDies \/ Quiescent

Spec == Init /\ [][Next]_vars

\* The deadline passes, and a handler whose stream is over goes on.
FairSpec ==
  /\ Spec
  /\ \A u \in Push : WF_vars(Fail(u)) /\ WF_vars(Install(u))

-----------------------------------------------------------------------------
(* Properties                                                              *)

Sent(u) == {push[u].sent[i] : i \in DOMAIN push[u].sent}

\* Every variable keeps its type.
TypeOK ==
  LET message == [uuid : Profile, rules : SUBSET (Rule \X (Object \cup {Gone}))] IN
  /\ profiles \in SUBSET Profile
  /\ configs \in [Rule -> {"unborn", "there", "deleted"}]
  /\ object \in [Rule -> Object \cup {Gone}]
  /\ edits \in Nat /\ deaths \in Nat
  /\ push \in [Push ->
       [stage : {"idle", "calling", "iterating", "converting", "sent", "over"},
        loaded : SUBSET Profile, queue : SUBSET Profile,
        at : Profile \cup {NoProfile}, todo : SUBSET Rule,
        rules : SUBSET (Rule \X (Object \cup {Gone})), sent : Seq(message),
        outcome : {"none", "warning", "error", "success"}, reported : Nat]]
  /\ handler \in [Push -> {"none", "open", "answered", "closed"}]
  /\ current \in SUBSET message
  /\ alone \in [Push -> BOOLEAN]

\* A push that is reported as a success has sent every selected profile that was
\* there all the time, with every rule that was there all the time, each as it
\* was when the push began or as it was edited since; a rule that does not
\* convert makes the whole push fail.
SuccessIsComplete ==
  \A u \in Push : push[u].outcome = "success" =>
    \A p \in Selected[u] \cap before[u].profiles \cap profiles :
      \E m \in Sent(u) :
        /\ m.uuid = p
        /\ \A r \in Rule :
             ProfileOf[r] = p /\ before[u].configs[r] = "there" /\ configs[r] = "there" =>
               \E x \in m.rules :
                 /\ x[1] = r
                 /\ x[2] # Gone =>
                      /\ x[2].parses /\ before[u].object[r] # Gone
                      /\ x[2].version >= before[u].object[r].version

\* The number of profiles the operator is told is the number the director was
\* sent, though rows may be deleted between the two (queryset.count() after the
\* iteration).
ReportedIsSent ==
  \A u \in Push :
    push[u].outcome = "success" => push[u].reported = Cardinality(Sent(u))

\* What a successful push sent is what the director works with, until it dies or
\* another push begins, if no earlier stream was left open: the answer comes
\* after the installation, and the installation replaces everything.
LastSuccessStands ==
  \A u \in Push : push[u].outcome = "success" /\ alone[u] => current = Sent(u)

\* A push comes to its end, and the director is not left with an open stream.
EveryPushEnds ==
  \A u \in Push :
    push[u].stage # "idle" ~> push[u].stage = "over" /\ handler[u] # "open"

=============================================================================
