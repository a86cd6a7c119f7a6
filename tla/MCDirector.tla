----------------------------- MODULE MCDirector -----------------------------
(* Small instances of Director for TLC.                                    *)
EXTENDS Director, TLC

CONSTANTS u1, u2, c1, c2, ua, ub, na, nb, r1, r2, r3, tx

MCUuid == {ua, ub}
MCName == {na, nb}
MCRule == {r1, r2, r3}
MCTransaction == {tx}

\* Two versions of one profile, with two rules and with one, and a second
\* profile; Blank has no rule at all.
First == [uuid |-> ua, name |-> na, rules |-> <<r1, r2>>]
FirstEdited == [uuid |-> ua, name |-> na, rules |-> <<r2>>]
Second == [uuid |-> ub, name |-> nb, rules |-> <<r3>>]
Blank == [uuid |-> ub, name |-> nb, rules |-> <<>>]

MCProfile == {First, FirstEdited, Second, Blank}

\* One push, two calls with the same transaction id (a client that tries again).
OnePushProfile == {First, Second}
OnePushFeed == [u \in Push |-> <<First, Second>>]

\* Two pushes; the second edits a profile and repeats its uuid.
TwoPushFeed ==
  (u1 :> <<First, Second>>) @@ (u2 :> <<FirstEdited, Blank, First>>)

MCTransactionOf == [c \in Call |-> tx]

=============================================================================
