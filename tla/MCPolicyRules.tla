--------------------------- MODULE MCPolicyRules ---------------------------
(* A default warning for every command, which the workspace may replace by *)
(* an error and then change, and a warning for risky ones; the tools       *)
(* replace the first and add a rule with a long id.                        *)
EXTENDS PolicyRules
Rule(id, action, mode, pattern, priority) ==
  [id |-> id, enabled |-> TRUE, action |-> action, mode |-> mode, pattern |-> pattern, priority |-> priority]
MCInstalled ==
  [global |-> {Rule(1, "warning", "both", "any", 7), Rule(2, "warning", "safe", "risky", 3)}, workspace |-> {}]
MCConfigWrites ==
  {<<"workspace", [id |-> 1, action |-> "block", pattern |-> "any", priority |-> 5]>>,
   <<"workspace", [id |-> 1, action |-> "log"]>>}
MCToolRules == {Rule(1, "warn", "safe", "risky", 1000), Rule(3, "log", "both", "any", 0)}
MCEdits == {[field |-> "enabled", value |-> FALSE], [field |-> "action", value |-> "error"], [field |-> "id", value |-> 0],
   [field |-> "id", value |-> 1]}
MCLongIds == {3}
(* A file that uses the other name of a warning. *)
MCInstalledWarn == [global |-> {Rule(1, "warn", "both", "any", 7)}, workspace |-> {}]
=============================================================================
