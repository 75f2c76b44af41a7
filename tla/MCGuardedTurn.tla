---------------------------- MODULE MCGuardedTurn ----------------------------
(***************************************************************************)
(* Instances of GuardedTurn: one MCP server, two tools, two turns.         *)
(***************************************************************************)
EXTENDS GuardedTurn, TLC

CONSTANTS t1, t2, c1

MCTurns == {t1, t2}
MCConv == {c1}

MCShared == [t \in MCTurns |-> c1]

rule(id, type, tool, enabled, config) ==
  [id |-> id, type |-> type, toolName |-> tool, enabled |-> enabled, config |-> config]

budget(cap, scope) ==
  rule("budget", "BUDGET_LIMIT", Wildcard, TRUE,
       [maxTokens |-> Null, maxToolCalls |-> cap, scope |-> scope])

MCApprove == rule("approve", "REQUIRE_APPROVAL", "block_ip", TRUE,
                  [approverFallback |-> "AUTO_DENY", timeoutSeconds |-> 120])
MCBlock == rule("block", "BLOCK_TOOL", "scan_logs", FALSE, Null)
MCPrefix == rule("prefix", "INPUT_VALIDATION", "block_ip", TRUE,
                 [field |-> "ip", pattern |-> Null, allowedPrefix |-> <<"a">>,
                  maxLength |-> Null])

MCIds == {"approve", "block", "budget", "prefix"}

MCRules == <<MCApprove, MCPrefix, MCBlock>>
MCBudgetHeld == <<budget(1, "CONVERSATION"), MCApprove>>

call(tool, ip, suspicious) ==
  [toolName |-> tool, suspicious |-> suspicious, args |-> [ip |-> ip]]

MCScan == call("scan_logs", <<>>, FALSE)
MCScanInjected == call("scan_logs", <<>>, TRUE)
MCBlockIp == call("block_ip", <<"a">>, FALSE)
MCBlockOther == call("block_ip", <<"b">>, FALSE)

MCAllCalls == {MCScan, MCScanInjected, MCBlockIp, MCBlockOther}
MCTwoCalls == {MCScan, MCBlockIp}
=============================================================================
