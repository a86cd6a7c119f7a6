--------------------------- MODULE MCFraudPipeline ---------------------------
(* Small instances of FraudPipeline for TLC.                               *)
EXTENDS FraudPipeline, TLC

CONSTANTS c1, c2, c3

MCCall == {c1, c2, c3}

\* Two good posts, one of them perhaps the retry of the other, and a bad one.
MCBody == (c1 :> [amount |-> 5, well_formed |-> TRUE])
       @@ (c2 :> [amount |-> 5, well_formed |-> TRUE])
       @@ (c3 :> [amount |-> 0, well_formed |-> TRUE])

\* A profile whose rule cannot be applied, and its edited form.
Before == [name |-> "a", rules |-> <<[sound |-> FALSE]>>]
After == [name |-> "a", rules |-> <<[sound |-> TRUE]>>]

MCProfile == {Before, After}
MCVersion == {{Before}, {After}}

=============================================================================
