----------------------------- MODULE MCRulePages -----------------------------
(***************************************************************************)
(* Instances of RulePages: one rule, one page, every kind of form.         *)
(***************************************************************************)
EXTENDS RulePages

MCRows == { [id |-> "approve", type |-> "REQUIRE_APPROVAL", toolName |-> "block_ip",
             enabled |-> TRUE,
             config |-> [approverFallback |-> "AUTO_DENY", timeoutSeconds |-> 120]] }

MCForms == {
  BlankForm,
  [BlankForm EXCEPT !.type = "REQUIRE_APPROVAL", !.toolName = Wildcard],
  [BlankForm EXCEPT !.type = "INPUT_VALIDATION", !.toolName = "create_incident",
                    !.field = "details", !.allowedPrefix = <<"a">>, !.maxLength = 2],
  [BlankForm EXCEPT !.type = "BUDGET_LIMIT", !.toolName = "block_ip", !.maxTokens = 1],
  [BlankForm EXCEPT !.type = "INPUT_VALIDATION", !.pattern = BadPattern, !.maxLength = 0] }

MCUuids == <<"new1", "new2">>
MCIds == {"approve", "new1", "new2"}

call(tool, details, suspicious) ==
  [toolName |-> tool, suspicious |-> suspicious, args |-> [details |-> details]]

MCProposals == { call("block_ip", <<>>, FALSE),
                 call("create_incident", <<"a", "b">>, FALSE),
                 call("create_incident", <<"b">>, TRUE),
                 call("create_incident", <<"a", "b", "b">>, FALSE) }

MCUsages == { [tokensUsed |-> 0, toolCallsMade |-> 2], [tokensUsed |-> 1, toolCallsMade |-> 1] }
=============================================================================
