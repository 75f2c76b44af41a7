----------------------------- MODULE MCRuleStore -----------------------------
(***************************************************************************)
(* Instances of RuleStore: two demo rules, every kind of rule to add.      *)
(***************************************************************************)
EXTENDS RuleStore

rule(id, type, tool, config) ==
  [id |-> id, type |-> type, toolName |-> tool, enabled |-> TRUE, config |-> config]

validation(pattern, prefix, max) ==
  [field |-> "details", pattern |-> pattern, allowedPrefix |-> prefix, maxLength |-> max]

MCApprove == rule("approve", "REQUIRE_APPROVAL", "block_ip",
                  [approverFallback |-> "AUTO_DENY", timeoutSeconds |-> 120])
MCLength == rule("length", "INPUT_VALIDATION", "create_incident", validation(Null, Null, 2))
MCBudget == rule("budget", "BUDGET_LIMIT", Wildcard,
                 [maxTokens |-> Null, maxToolCalls |-> 2, scope |-> "CONVERSATION"])
MCBlock == rule("block", "BLOCK_TOOL", "block_ip", Null)
MCAllowed == rule("pattern", "INPUT_VALIDATION", "create_incident",
                  validation({<<"a">>, <<"a", "b">>}, <<"a">>, Null))
MCApproveAny == rule("any", "REQUIRE_APPROVAL", Wildcard,
                     [approverFallback |-> "AUTO_ALLOW", timeoutSeconds |-> 10])
MCTokens == rule("tokens", "BUDGET_LIMIT", "create_incident",
                 [maxTokens |-> 1, maxToolCalls |-> Null, scope |-> "GLOBAL"])

MCIds == {"approve", "length", "budget", "block", "pattern", "any", "tokens"}

MCDemo == <<MCApprove, MCBudget>>
MCNewRules == {MCBlock, MCAllowed, MCLength, MCApproveAny, MCTokens}

call(tool, details, suspicious) ==
  [toolName |-> tool, suspicious |-> suspicious,
   args |-> IF details = <<>> THEN <<>> ELSE [details |-> details]]

MCProposals == { call("block_ip", <<>>, FALSE),
                 call("create_incident", <<"a", "b">>, FALSE),
                 call("create_incident", <<"b">>, TRUE),
                 call("create_incident", <<"b", "b", "b">>, FALSE) }

MCUsages == { [tokensUsed |-> 0, toolCallsMade |-> 1],
              [tokensUsed |-> 1, toolCallsMade |-> 2] }
=============================================================================
