------------------------------- MODULE FanOut -------------------------------
(***************************************************************************)
(* What the director promises to the rest of finrad++, with the mutex, the *)
(* streams, the tasks and the failures left out:                           *)
(*                                                                         *)
(*   - at any time there is one current version of the set of profiles,    *)
(*     and it is replaced as a whole;                                      *)
(*   - a call that is accepted is bound, at one instant, to the version    *)
(*     that is current then, for ever;                                     *)
(*   - the call puts on the request topic, for each profile of its         *)
(*     version, rule requests numbered 0, 1, 2, ... with no gap and no     *)
(*     repetition;                                                         *)
(*   - a profile is dispatched to its end, or given up: because one of its *)
(*     requests could not be sent, or because the process died.            *)
(*                                                                         *)
(* Module Director implements this (Director!Implements and                *)
(* Director!DispatchEnds); module FraudPipeline is built on it.            *)
(***************************************************************************)
EXTENDS Naturals, Sequences

CONSTANTS
  Call,     \* the ProcessTransaction calls
  Profile,  \* the profiles, records with a field rules that is a sequence
  NoView    \* the view of a call that is not bound to a version

VARIABLES
  current,   \* the current version of the set of profiles
  view,      \* the version each call is bound to
  given_up,  \* the profiles of it that need not be dispatched to their end
  emitted    \* the topic, a sequence of <<call, profile, rule number>>

fanOutVars == <<current, view, given_up, emitted>>

-----------------------------------------------------------------------------

FanOutInit ==
  /\ current = {}
  /\ view = [c \in Call |-> NoView]
  /\ given_up = [c \in Call |-> {}]
  /\ emitted = <<>>

IsEmitted(c, p, n) ==
  \E i \in DOMAIN emitted : emitted[i] = <<c, p, n>>

InView(c, p) == view[c] # NoView /\ p \in view[c]

\* A push replaces the whole version.
Replace ==
  /\ \E version \in SUBSET Profile : current' = version
  /\ UNCHANGED <<view, given_up, emitted>>

\* A call is bound to the version in force.
Bind(c) ==
  /\ view[c] = NoView
  /\ view' = [view EXCEPT ![c] = current]
  /\ UNCHANGED <<current, given_up, emitted>>

\* The next rule of profile p, in order, goes to the topic on behalf of c.
Emit(c, p) ==
  /\ InView(c, p)
  /\ \E n \in 0..(Len(p.rules) - 1) :
       /\ ~ IsEmitted(c, p, n)
       /\ \A k \in 0..(n - 1) : IsEmitted(c, p, k)
       /\ emitted' = Append(emitted, <<c, p, n>>)
  /\ UNCHANGED <<current, view, given_up>>

Complete(c, p) == \A n \in 0..(Len(p.rules) - 1) : IsEmitted(c, p, n)

\* A request of the profile could not be sent.
GiveUp(c, p) ==
  /\ InView(c, p) /\ ~ Complete(c, p)
  /\ given_up' = [given_up EXCEPT ![c] = @ \cup {p}]
  /\ UNCHANGED <<current, view, emitted>>

\* The process dies: no version is left, and the calls it was still working on
\* are given up.
Crash ==
  /\ current' = {}
  /\ \E running \in SUBSET {c \in Call : view[c] # NoView} :
       given_up' = [c \in Call |-> IF c \in running THEN view[c] ELSE given_up[c]]
  /\ UNCHANGED <<view, emitted>>

FanOutNext ==
  \/ Replace \/ Crash
  \/ \E c \in Call : Bind(c)
  \/ \E c \in Call, p \in Profile : Emit(c, p) \/ GiveUp(c, p)

FanOutSpec == FanOutInit /\ [][FanOutNext]_fanOutVars

\* Every profile of the version a call is bound to has all its requests on the
\* topic in the end, or is given up.
DispatchEnds ==
  \A c \in Call, p \in Profile :
    InView(c, p) ~> Complete(c, p) \/ p \in given_up[c]

=============================================================================
