--------------------------- MODULE MCRulesService ---------------------------
(* Small instances of RulesService for TLC.                                *)
EXTENDS RulesService, TLC

CONSTANTS t1, t2, v1, v2, ma, mb, mc, empty

MCTransaction == {t1, t2}
MCContent == {v1, v2}
MCModelUuid == {ma, mb, mc, empty}

\* Model mc lost its booster; no file has the empty uuid in its name.
MCDisk == [u \in MCModelUuid |->
             CASE u = empty -> {} [] u = mc -> {"columns"} [] OTHER -> {"columns", "xgb"}]

Ask(t, v, n, type, body, u, critical) ==
  [transaction |-> t, content |-> v, profile |-> "p", number |-> n,
   rule_type |-> type, body |-> body, model_uuid |-> u, is_critical |-> critical]

\* A critical rule, one whose type is not its body, rules of three models one of
\* which does not load, and a client that repeats an id with other data.
MCRequest == {
  Ask(t1, v1, 0, "THRESHOLD", "THRESHOLD", empty, TRUE),
  Ask(t1, v1, 1, "PATTERN", "COMPOSITE", empty, FALSE),
  Ask(t1, v1, 2, "ML", "ML", ma, FALSE),
  Ask(t1, v2, 0, "ML", "ML", mb, FALSE),
  Ask(t2, v1, 0, "ML", "ML", mc, FALSE)}

=============================================================================
