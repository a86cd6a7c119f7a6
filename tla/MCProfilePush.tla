---------------------------- MODULE MCProfilePush ----------------------------
(* Small instances of ProfilePush for TLC.                                 *)
EXTENDS ProfilePush, TLC

CONSTANTS u1, u2, p, q, r1, r2

MCPush == {u1, u2}
MCProfile == {p, q}
MCRule == {r1, r2}

\* One profile of two rules, one without.
MCProfileOf == (r1 :> p) @@ (r2 :> p)

\* r2 may be added; the second push is of one profile only.
MCPresent == {r1}
MCSelected == (u1 :> {p, q}) @@ (u2 :> {p})

=============================================================================
