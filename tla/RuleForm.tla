------------------------------ MODULE RuleForm ------------------------------
(***************************************************************************)
(* The form of the create dialog (packages/dashboard/src/components/rules/ *)
(* create-rule-dialog.tsx): what its fields hold, what the browser lets    *)
(* through, and the rule buildRule makes of them.                          *)
(*                                                                         *)
(* A field is its trimmed text, Null when that is blank.  A number field   *)
(* holds a number or, as the browser empties anything else, Null.          *)
(***************************************************************************)
EXTENDS PolicyEngine

CONSTANT BadPattern    \* a text RegExp does not compile

\* What a form must have for the checks to make sense: its type is one of the four.
IsForm(f) ==
  f.type \in {"BLOCK_TOOL", "REQUIRE_APPROVAL", "INPUT_VALIDATION", "BUDGET_LIMIT"}

\* What reset() leaves in the fields, and what a fresh dialog holds.
BlankForm ==
  [type |-> "BLOCK_TOOL", toolName |-> Null, approverFallback |-> "AUTO_DENY",
   timeoutSeconds |-> 60, field |-> Null, pattern |-> Null, allowedPrefix |-> Null,
   maxLength |-> Null, scope |-> "CONVERSATION", maxTokens |-> Null, maxToolCalls |-> Null]

\* The number inputs a type shows, each with min={1}: the browser does not submit the
\* form while one of them holds less.  (It would not submit a fraction either.)
numbers(f) ==
  CASE f.type = "BLOCK_TOOL"       -> {}
    [] f.type = "REQUIRE_APPROVAL" -> {f.timeoutSeconds}
    [] f.type = "INPUT_VALIDATION" -> {f.maxLength}
    [] f.type = "BUDGET_LIMIT"     -> {f.maxTokens, f.maxToolCalls}
browserAccepts(f) == \A n \in numbers(f) \ {Null} : n >= 1

\* buildRule throws.
invalid(f) ==
  \/ f.type = "REQUIRE_APPROVAL" /\ f.timeoutSeconds = Null
  \/ f.type = "INPUT_VALIDATION" /\ (f.field = Null \/ f.pattern = BadPattern)
  \/ f.type = "BUDGET_LIMIT" /\ f.maxTokens = Null /\ f.maxToolCalls = Null

config(f) ==
  CASE f.type = "BLOCK_TOOL"       -> Null
    [] f.type = "REQUIRE_APPROVAL" ->
         [approverFallback |-> f.approverFallback, timeoutSeconds |-> f.timeoutSeconds]
    [] f.type = "INPUT_VALIDATION" ->
         [field |-> f.field, pattern |-> f.pattern, allowedPrefix |-> f.allowedPrefix,
          maxLength |-> f.maxLength]
    [] f.type = "BUDGET_LIMIT"     ->
         [scope |-> f.scope, maxTokens |-> f.maxTokens, maxToolCalls |-> f.maxToolCalls]

\* Mutation of buildRule: a blank tool name stays blank.
buildRuleBlankTool(f, id) ==
  [id |-> id, type |-> f.type, toolName |-> f.toolName, enabled |-> TRUE, config |-> config(f)]

\* The rule, with the fresh id it is given; a blank tool name means every tool, as * does.
buildRule(f, id) ==
  [id |-> id, type |-> f.type, toolName |-> IF f.toolName = Null THEN Wildcard ELSE f.toolName,
   enabled |-> TRUE, config |-> config(f)]

-----------------------------------------------------------------------------
(* Reference: what the labels of the filled fields tell the operator       *)

Says(f, p, usage) ==
  LET named == f.toolName \in {Null, Wildcard, p.toolName}
      value == p.args[f.field]
      breaks == /\ f.field \in DOMAIN p.args
                /\ \/ f.pattern # Null /\ value \notin f.pattern
                   \/ f.allowedPrefix # Null /\ ~isPrefix(f.allowedPrefix, value)
                   \/ f.maxLength # Null /\ Len(value) > f.maxLength
      spent == \/ f.maxTokens # Null /\ usage.tokensUsed >= f.maxTokens
               \/ f.maxToolCalls # Null /\ usage.toolCallsMade >= f.maxToolCalls
  IN  CASE named /\ f.type = "BLOCK_TOOL"                 -> "DENY"
        [] named /\ f.type = "REQUIRE_APPROVAL"           -> "PENDING_APPROVAL"
        [] named /\ f.type = "INPUT_VALIDATION" /\ breaks -> "DENY"
        [] named /\ f.type = "BUDGET_LIMIT" /\ spent      -> "DENY"
        [] OTHER                                          -> "ALLOW"
=============================================================================
