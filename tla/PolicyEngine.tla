---------------------------- MODULE PolicyEngine ----------------------------
(***************************************************************************)
(* The pure decision function of packages/policy-engine: given a proposed  *)
(* tool call, the loaded rule list and a context, one of ALLOW, DENY and   *)
(* PENDING_APPROVAL.  No variables: RuleStore evaluates it over the rule   *)
(* table, GuardedTurn inside a running turn.                               *)
(*                                                                         *)
(* Data.  A rule is a record [id, type, toolName, enabled, config]; a      *)
(* proposal a record [toolName, args, suspicious, ...] where args maps the *)
(* supplied fields to values, a value being a sequence of letters.  A      *)
(* `pattern' is the set of values the regular expression matches (a        *)
(* pattern that does not compile matches none: the code denies), and       *)
(* `suspicious' says whether the injection heuristic's expressions match   *)
(* the proposal's reasoning or its arguments.  The wording of `reason' is  *)
(* left out.                                                               *)
(***************************************************************************)
EXTENDS Integers, Sequences

CONSTANTS
  Null,      \* null and undefined: no opinion, no such option, no such id
  Wildcard,  \* the tool name '*'
  RuleIds    \* the ids of the rows the rule table can ever hold

-----------------------------------------------------------------------------
(* Decisions                                                               *)

Deny(ruleId)    == [status |-> "DENY", matchedRuleId |-> ruleId]
Pending(ruleId) == [status |-> "PENDING_APPROVAL", matchedRuleId |-> ruleId]
DefaultAllow    == [status |-> "ALLOW", matchedRuleId |-> Null]

Decision == [status : {"ALLOW", "DENY", "PENDING_APPROVAL"},
             matchedRuleId : RuleIds \cup {Null}]

ASSUME NullIsNoDecision == Null \notin Decision

-----------------------------------------------------------------------------
(* The rule checks: a decision, or Null for "no opinion"                   *)

toolMatches(ruleToolName, toolName) == ruleToolName \in {Wildcard, toolName}

applies(rule, type, p) == rule.type = type /\ toolMatches(rule.toolName, p.toolName)

\* Mutation of checkBlock: the tool is not matched.
checkBlockEveryTool(p, rule) == IF rule.type = "BLOCK_TOOL" THEN Deny(rule.id) ELSE Null

checkBlock(p, rule) == IF applies(rule, "BLOCK_TOOL", p) THEN Deny(rule.id) ELSE Null

isPrefix(s, t) == Len(s) <= Len(t) /\ \A i \in 1 .. Len(s) : s[i] = t[i]

\* What an INPUT_VALIDATION config rejects; every option of it may be absent.
rejects(config, value) ==
  \/ config.pattern # Null /\ value \notin config.pattern
  \/ config.allowedPrefix # Null /\ ~isPrefix(config.allowedPrefix, value)
  \/ config.maxLength # Null /\ Len(value) > config.maxLength

\* A field the call does not supply is not validated.
checkInputValidation(p, rule) ==
  IF /\ applies(rule, "INPUT_VALIDATION", p)
     /\ rule.config.field \in DOMAIN p.args
     /\ rejects(rule.config, p.args[rule.config.field])
  THEN Deny(rule.id) ELSE Null

\* Mutation of exhausted: the limit is exclusive.
exhaustedLate(config, usage) ==
  \/ config.maxTokens # Null /\ usage.tokensUsed > config.maxTokens
  \/ config.maxToolCalls # Null /\ usage.toolCallsMade > config.maxToolCalls

\* The limit is inclusive: a snapshot already at the cap is denied.
exhausted(config, usage) ==
  \/ config.maxTokens # Null /\ usage.tokensUsed >= config.maxTokens
  \/ config.maxToolCalls # Null /\ usage.toolCallsMade >= config.maxToolCalls

\* config.scope is not read: see the README's finding on GLOBAL budgets.
checkBudget(p, rule, usage) ==
  IF applies(rule, "BUDGET_LIMIT", p) /\ exhausted(rule.config, usage)
  THEN Deny(rule.id) ELSE Null

checkInjectionHeuristic(p) == IF p.suspicious THEN Deny(Null) ELSE Null

checkApproval(p, rule) ==
  IF applies(rule, "REQUIRE_APPROVAL", p) THEN Pending(rule.id) ELSE Null

-----------------------------------------------------------------------------
(* evaluate: the tiers in their fixed order, first opinion wins            *)

\* The first opinion of a sequence of opinions, Null when nobody has one.
FirstOf(opinions) ==
  LET hits == {i \in DOMAIN opinions : opinions[i] # Null}
  IN  IF hits = {} THEN Null
      ELSE opinions[CHOOSE i \in hits : \A j \in hits : i <= j]

\* One `for (const rule of activeRules)' loop: disabled rules do not count.
Consult(rules, check(_)) ==
  FirstOf([i \in DOMAIN rules |-> IF rules[i].enabled THEN check(rules[i]) ELSE Null])

\* Mutation of evaluate: the approval tier comes right after BLOCK_TOOL.
evaluateApprovalEarly(p, rules, usage, open) ==
  FirstOf(<< IF open THEN Deny(Null) ELSE Null,
             Consult(rules, LAMBDA r : checkBlock(p, r)),
             Consult(rules, LAMBDA r : checkApproval(p, r)),
             Consult(rules, LAMBDA r : checkInputValidation(p, r)),
             Consult(rules, LAMBDA r : checkBudget(p, r, usage)),
             checkInjectionHeuristic(p),
             DefaultAllow >>)

\* `open' is what circuitBreaker.isOpen answers for the proposal's server.
evaluate(p, rules, usage, open) ==
  FirstOf(<< IF open THEN Deny(Null) ELSE Null,
             Consult(rules, LAMBDA r : checkBlock(p, r)),
             Consult(rules, LAMBDA r : checkInputValidation(p, r)),
             Consult(rules, LAMBDA r : checkBudget(p, r, usage)),
             checkInjectionHeuristic(p),
             Consult(rules, LAMBDA r : checkApproval(p, r)),
             DefaultAllow >>)

-----------------------------------------------------------------------------
(* Reference: what the outcome should be, as a property of the SET of      *)
(* rules, with no order in it                                              *)

RuleSet(rules) == {rules[i] : i \in DOMAIN rules}

\* The enabled rules of a set that forbid the call.
Forbidding(p, R, usage) ==
  {r \in R : /\ r.enabled
             /\ \/ applies(r, "BLOCK_TOOL", p)
                \/ /\ applies(r, "INPUT_VALIDATION", p)
                   /\ r.config.field \in DOMAIN p.args
                   /\ rejects(r.config, p.args[r.config.field])
                \/ applies(r, "BUDGET_LIMIT", p) /\ exhausted(r.config, usage)}

\* The enabled rules of a set that ask for a human.
Escalating(p, R) == {r \in R : r.enabled /\ applies(r, "REQUIRE_APPROVAL", p)}

\* Every reason to deny beats approval, and approval beats the default.
ReferenceStatus(p, R, usage, open) ==
  IF open \/ p.suspicious \/ Forbidding(p, R, usage) # {} THEN "DENY"
  ELSE IF Escalating(p, R) # {} THEN "PENDING_APPROVAL"
  ELSE "ALLOW"

\* The rule d names is r, which calls for d's status all by itself.
Justifies(r, d, p, usage, open) ==
  r.id = d.matchedRuleId /\ ReferenceStatus(p, {r}, usage, open) = d.status
=============================================================================
