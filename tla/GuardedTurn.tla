----------------------------- MODULE GuardedTurn -----------------------------
(***************************************************************************)
(* The guardrail loop: runTurn of packages/server/src/orchestrator.ts with *)
(* everything it calls.  Turns are the POST /conversations/:id/messages    *)
(* requests being handled at once by one server process; they share the    *)
(* rule table, the usage counters, the breaker and the audit log.          *)
(*                                                                         *)
(* Each action is what one turn does between two awaits:                   *)
(*                                                                         *)
(*   idle -> thinking -> proposing -> proposed -> [judging] -> deciding    *)
(*        -> decided -> [parked -> resolving -> resolved]                  *)
(*        -> [calling -> reporting -> reported] -> thinking ...            *)
(*                                                                         *)
(* where thinking awaits the model, proposing, deciding, resolving and     *)
(* reporting await an audit append, judging the semantic firewall, parked  *)
(* a human, calling the MCP server.                                        *)
(*                                                                         *)
(* Other components appear as what their own modules show them to be: an   *)
(* audit append happens once or not at all (AuditChain), a parked call     *)
(* gets one verdict (ApprovalRegistry), the breaker is CircuitBreaker's    *)
(* record of the one server.  An exception anywhere ends the turn (500).   *)
(***************************************************************************)
EXTENDS PolicyEngine, CircuitBreaker, FiniteSets

CONSTANTS
  Turns,          \* the turns
  Convs,          \* the conversations
  conversation,   \* conversation[t]: the conversation turn t belongs to
  Calls,          \* the tool calls the model may propose: [toolName, args, suspicious]
  MaxSteps,       \* maxSteps, 8 by default
  SemanticGuard,  \* SEMANTIC_GUARD is not 'off'
  InitialRules,   \* the rule list at the start
  Toggleable,     \* ids of the rules operators toggle during the run
  MaxRestarts     \* bound: restarts of the server process

ASSUME GuardedTurnAssumption ==
  /\ IsFiniteSet(Turns) /\ conversation \in [Turns -> Convs]
  /\ MaxSteps \in Nat /\ MaxRestarts \in Nat
  /\ SemanticGuard \in BOOLEAN
  /\ \A c \in Calls : c.suspicious \in BOOLEAN
  /\ DOMAIN InitialRules \subseteq Nat
  /\ \A i \in DOMAIN InitialRules :
       /\ {"id", "enabled"} \subseteq DOMAIN InitialRules[i]
       /\ InitialRules[i].id \in RuleIds /\ InitialRules[i].enabled \in BOOLEAN

VARIABLES
  rules,       \* the rule table, in the order loadRules returns it
  loaded,      \* loaded[t]: the rules turn t was given
  turn,        \* turn[t]: the other locals of turn t
  usage,       \* conversationStore: the tallies of each conversation
  breaker,     \* the breaker's state for the server
  trail,       \* the audit entries of each proposal, oldest first
  stream,      \* the decision statuses and executions emitted for each proposal
  effects,     \* history: the proposals whose tool ran on the server
  restarts     \* history: number of restarts

vars == <<rules, loaded, turn, usage, breaker, trail, stream, effects, restarts>>

Recording == {"proposing", "deciding", "resolving", "reporting"}
Recorded == {"proposed", "decided", "resolved", "reported"}
Ended == {"done", "maxsteps", "failed"}
Pcs == {"idle", "thinking", "judging", "parked", "calling"} \cup Recording \cup Recorded
         \cup Ended

\* Proposal ids are fresh UUIDs: the turn and its step name one.
ProposalIds == Turns \X (0 .. MaxSteps)
current(t) == <<t, turn[t].step>>

Statuses == {"ALLOW", "DENY", "PENDING_APPROVAL"}
entry(type, status, signed) == [type |-> type, status |-> status, signed |-> signed]

NewTurn == [pc |-> "idle", step |-> 0, call |-> Null, decision |-> Null,
            signed |-> Null, success |-> FALSE]

Entries == [type : {"PROPOSAL"}, status : {Null}, signed : {Null}]
             \cup [type : {"DECISION", "APPROVAL"}, status : Statuses, signed : Statuses]
             \cup [type : {"EXECUTION"}, status : {"success", "failure"}, signed : {Null}]

Emissions == Statuses \cup {"success", "failure"}

TurnState ==
  [pc : Pcs, step : 0 .. MaxSteps, call : Calls \cup {Null}, decision : Decision \cup {Null},
   signed : Statuses \cup {Null}, success : BOOLEAN]

IsRuleTable(list) ==
  /\ DOMAIN list \subseteq Nat
  /\ \A i \in DOMAIN list : /\ {"id", "enabled"} \subseteq DOMAIN list[i]
                            /\ list[i].id \in RuleIds /\ list[i].enabled \in BOOLEAN

TypeOK ==
  /\ IsRuleTable(rules)
  /\ DOMAIN loaded = Turns /\ \A t \in Turns : IsRuleTable(loaded[t])
  /\ turn \in [Turns -> TurnState]
  /\ usage \in [Convs -> [tokensUsed : Nat, toolCallsMade : Nat]]
  /\ breaker \in BreakerState
  /\ trail \in [ProposalIds -> Seq(Entries)]
  /\ stream \in [ProposalIds -> SUBSET Emissions]
  /\ effects \subseteq ProposalIds
  /\ restarts \in 0 .. MaxRestarts

NoUsage == [c \in Convs |-> [tokensUsed |-> 0, toolCallsMade |-> 0]]

Init ==
  /\ rules = InitialRules
  /\ loaded = [t \in Turns |-> <<>>]
  /\ turn = [t \in Turns |-> NewTurn]
  /\ usage = NoUsage
  /\ breaker = Closed
  /\ trail = [p \in ProposalIds |-> <<>>]
  /\ stream = [p \in ProposalIds |-> {}]
  /\ effects = {}
  /\ restarts = 0

-----------------------------------------------------------------------------
(* The request, and the model (proposeNextStep)                            *)

\* The rules are loaded once, for the whole turn.
Start(t) ==
  /\ turn[t].pc = "idle"
  /\ turn' = [turn EXCEPT ![t].pc = "thinking"]
  /\ loaded' = [loaded EXCEPT ![t] = rules]
  /\ UNCHANGED <<rules, usage, breaker, trail, stream, effects, restarts>>

\* A model reply costs a token of the modelled count.
spendToken(t) == usage' = [usage EXCEPT ![conversation[t]].tokensUsed = @ + 1]

\* A text ends the turn; after the last step it is appended to the history too, but
\* the turn ends with an error all the same.
ReplyText(t) ==
  /\ turn[t].pc = "thinking"
  /\ spendToken(t)
  /\ turn' = [turn EXCEPT ![t].pc = IF turn[t].step < MaxSteps THEN "done" ELSE "maxsteps"]
  /\ UNCHANGED <<rules, loaded, breaker, trail, stream, effects, restarts>>

ReplyCall(t, c) ==
  /\ turn[t].pc = "thinking"
  /\ spendToken(t)
  /\ turn' = IF turn[t].step < MaxSteps
             THEN [turn EXCEPT ![t].pc = "proposing", ![t].call = c]
             ELSE [turn EXCEPT ![t].pc = "maxsteps"]
  /\ UNCHANGED <<rules, loaded, breaker, trail, stream, effects, restarts>>

\* The model call fails, or it names an unknown tool.
ReplyUnusable(t) ==
  /\ turn[t].pc = "thinking"
  /\ turn' = [turn EXCEPT ![t].pc = "failed"]
  /\ spendToken(t) \/ usage' = usage
  /\ UNCHANGED <<rules, loaded, breaker, trail, stream, effects, restarts>>

\* Everything about the proposal is done with, the model is asked for the next step.
NextStep(t) ==
  turn' = [turn EXCEPT ![t].pc = "thinking", ![t].step = @ + 1, ![t].call = Null,
                       ![t].decision = Null, ![t].signed = Null, ![t].success = FALSE]

\* Mutation of FeedBack: failed and denied calls count too.
FeedBackCountsAll(t, success) ==
  /\ NextStep(t)
  /\ usage' = [usage EXCEPT ![conversation[t]].toolCallsMade = @ + 1]

\* What the end of a loop iteration does: the result becomes a tool message and a
\* successful one counts as a tool call.
FeedBack(t, success) ==
  /\ NextStep(t)
  /\ usage' = IF success THEN [usage EXCEPT ![conversation[t]].toolCallsMade = @ + 1]
              ELSE usage

-----------------------------------------------------------------------------
(* The audit appends a turn awaits                                         *)

\* A decision is attested when it is recorded: signed is the attested status.
entryOf(t) ==
  CASE turn[t].pc = "proposing" -> entry("PROPOSAL", Null, Null)
    [] turn[t].pc = "deciding"  -> entry("DECISION", turn[t].decision.status, turn[t].signed)
    [] turn[t].pc = "resolving" -> entry("APPROVAL", turn[t].decision.status, turn[t].signed)
    [] turn[t].pc = "reporting" ->
         entry("EXECUTION", IF turn[t].success THEN "success" ELSE "failure", Null)

after(pc) ==
  CASE pc = "proposing" -> "proposed" [] pc = "deciding" -> "decided"
    [] pc = "resolving" -> "resolved" [] pc = "reporting" -> "reported"

append(t) == trail' = [trail EXCEPT ![current(t)] = Append(@, entryOf(t))]

Record(t) ==
  /\ turn[t].pc \in Recording
  /\ append(t)
  /\ turn' = [turn EXCEPT ![t].pc = after(@)]
  /\ UNCHANGED <<rules, loaded, usage, breaker, stream, effects, restarts>>

\* record() throws; the row may be there all the same.
RecordFails(t) ==
  /\ turn[t].pc \in Recording
  /\ append(t) \/ trail' = trail
  /\ turn' = [turn EXCEPT ![t].pc = "failed"]
  /\ UNCHANGED <<rules, loaded, usage, breaker, stream, effects, restarts>>

-----------------------------------------------------------------------------
(* Deciding                                                                *)

\* evaluate runs without a pause on the snapshot of the rules and the usage and
\* breaker of this moment; the semantic firewall looks at what it allows.
Evaluate(t) ==
  /\ turn[t].pc = "proposed"
  /\ LET d == evaluate(turn[t].call, loaded[t], usage[conversation[t]], isOpen(breaker))
     IN  turn' = [turn EXCEPT
                    ![t].decision = d, ![t].signed = d.status,
                    ![t].pc = IF d.status = "ALLOW" /\ SemanticGuard THEN "judging"
                              ELSE "deciding"]
  /\ breaker' = afterIsOpen(breaker)
  /\ UNCHANGED <<rules, loaded, usage, trail, stream, effects, restarts>>

\* judgeIntent fails open: no answer is an ALLOW.
Judge(t) ==
  /\ turn[t].pc = "judging"
  /\ \/ turn' = [turn EXCEPT ![t].pc = "deciding"]
     \/ turn' = [turn EXCEPT ![t].pc = "deciding", ![t].decision = Deny(Null),
                             ![t].signed = "DENY"]
  /\ UNCHANGED <<rules, loaded, usage, breaker, trail, stream, effects, restarts>>

\* Mutations of Act: whatever is not denied is called; a denial is not handled.
ActUnlessDenied(t) ==
  /\ turn[t].pc \in {"decided", "resolved"}
  /\ stream' = [stream EXCEPT ![current(t)] = @ \cup {turn[t].decision.status}]
  /\ IF turn[t].decision.status = "DENY" THEN FeedBack(t, FALSE)
     ELSE /\ turn' = [turn EXCEPT ![t].pc = "calling"]
          /\ UNCHANGED usage
  /\ UNCHANGED <<rules, loaded, breaker, trail, effects, restarts>>
ActUnlessHandled(t) ==
  /\ turn[t].pc \in {"decided", "resolved"}
  /\ turn[t].decision.status # "DENY"
  /\ stream' = [stream EXCEPT ![current(t)] = @ \cup {turn[t].decision.status}]
  /\ turn' = [turn EXCEPT ![t].pc = IF turn[t].decision.status = "ALLOW" THEN "calling"
                                    ELSE "parked"]
  /\ UNCHANGED <<rules, loaded, usage, breaker, trail, effects, restarts>>

\* A recorded decision is emitted and acted upon: park, call, or feed the denial back.
Act(t) ==
  /\ turn[t].pc \in {"decided", "resolved"}
  /\ stream' = [stream EXCEPT ![current(t)] = @ \cup {turn[t].decision.status}]
  /\ CASE turn[t].decision.status = "PENDING_APPROVAL" ->
            /\ turn' = [turn EXCEPT ![t].pc = "parked"]
            /\ UNCHANGED usage
       [] turn[t].decision.status = "ALLOW" ->
            /\ turn' = [turn EXCEPT ![t].pc = "calling"]
            /\ UNCHANGED usage
       [] turn[t].decision.status = "DENY" -> FeedBack(t, FALSE)
  /\ UNCHANGED <<rules, loaded, breaker, trail, effects, restarts>>

\* Mutation of Resolve: the resolved verdict is not attested anew.
ResolveUnsigned(t, verdict) ==
  /\ turn[t].pc = "parked"
  /\ turn' = [turn EXCEPT ![t].pc = "resolving", ![t].decision.status = verdict]
  /\ UNCHANGED <<rules, loaded, usage, breaker, trail, stream, effects, restarts>>

\* A human's answer or the fallback of the timer; the result is attested anew.
Resolve(t, verdict) ==
  /\ turn[t].pc = "parked"
  /\ turn' = [turn EXCEPT ![t].pc = "resolving", ![t].decision.status = verdict,
                          ![t].signed = verdict]
  /\ UNCHANGED <<rules, loaded, usage, breaker, trail, stream, effects, restarts>>

-----------------------------------------------------------------------------
(* Executing (executeTool)                                                 *)

\* The server runs the tool: from here on there is no way back.
Run(t) ==
  /\ turn[t].pc = "calling"
  /\ current(t) \notin effects
  /\ effects' = effects \cup {current(t)}
  /\ UNCHANGED <<rules, loaded, turn, usage, breaker, trail, stream, restarts>>

\* Mutation of Return: the result is emitted before it is recorded.
ReturnEmits(t) ==
  /\ turn[t].pc = "calling"
  /\ current(t) \in effects
  /\ turn' = [turn EXCEPT ![t].pc = "reporting", ![t].success = TRUE]
  /\ stream' = [stream EXCEPT ![current(t)] = @ \cup {"success"}]
  /\ breaker' = recordSuccess(breaker)
  /\ UNCHANGED <<rules, loaded, usage, trail, effects, restarts>>

\* The call returned: the tool's result or its domain error.
Return(t) ==
  /\ turn[t].pc = "calling"
  /\ \E ok \in BOOLEAN :
       /\ ok => current(t) \in effects
       /\ turn' = [turn EXCEPT ![t].pc = "reporting", ![t].success = ok]
  /\ breaker' = recordSuccess(breaker)
  /\ UNCHANGED <<rules, loaded, usage, trail, stream, effects, restarts>>

\* The transport failed, before or after the tool ran; or the server is not connected,
\* nothing is sent, and the breaker is left untouched.
Break(t) ==
  /\ turn[t].pc = "calling"
  /\ turn' = [turn EXCEPT ![t].pc = "reporting", ![t].success = FALSE]
  /\ breaker' = recordFailure(breaker) \/ (current(t) \notin effects /\ UNCHANGED breaker)
  /\ UNCHANGED <<rules, loaded, usage, trail, stream, effects, restarts>>

Report(t) ==
  /\ turn[t].pc = "reported"
  /\ stream' = [stream EXCEPT ![current(t)] =
                  @ \cup {IF turn[t].success THEN "success" ELSE "failure"}]
  /\ FeedBack(t, turn[t].success)
  /\ UNCHANGED <<rules, loaded, breaker, trail, effects, restarts>>

-----------------------------------------------------------------------------
(* The environment                                                         *)

\* PATCH /rules/:id.
Toggle(i) ==
  /\ rules[i].id \in Toggleable
  /\ rules' = [rules EXCEPT ![i].enabled = ~@]
  /\ UNCHANGED <<loaded, turn, usage, breaker, trail, stream, effects, restarts>>

Tick ==
  /\ breaker' = aged(breaker)
  /\ UNCHANGED <<rules, loaded, turn, usage, trail, stream, effects, restarts>>

\* The process dies: its turns, the conversations and the breaker go; the rule table,
\* the audit log and what the tools did stay.
Restart ==
  /\ restarts < MaxRestarts
  /\ restarts' = restarts + 1
  /\ turn' = [t \in Turns |-> IF turn[t].pc \in {"idle"} \cup Ended THEN turn[t]
                              ELSE [turn[t] EXCEPT !.pc = "failed"]]
  /\ usage' = NoUsage
  /\ breaker' = Closed
  /\ UNCHANGED <<rules, loaded, trail, stream, effects>>

TurnStep(t) ==
  \/ Start(t) \/ ReplyText(t) \/ ReplyUnusable(t) \/ \E c \in Calls : ReplyCall(t, c)
  \/ Record(t) \/ RecordFails(t)
  \/ Evaluate(t) \/ Judge(t) \/ Act(t)
  \/ Resolve(t, "ALLOW") \/ Resolve(t, "DENY")
  \/ Run(t) \/ Return(t) \/ Break(t) \/ Report(t)

Next == Tick \/ Restart \/ (\E i \in DOMAIN rules : Toggle(i)) \/ \E t \in Turns : TurnStep(t)

Spec == Init /\ [][Next]_vars

\* A turn that has started is driven on: model calls, the judge and tool calls return
\* or time out, the database answers, a parked call gets a verdict by its timer.
Continue(t) == turn[t].pc # "idle" /\ TurnStep(t)
FairSpec == Spec /\ \A t \in Turns : WF_vars(Continue(t))

-----------------------------------------------------------------------------
(* Safety                                                                  *)

\* What the audit log can tell of a proposal, from its first entry to its last.
verdict(type, status) == entry(type, status, status)
executed(status) == entry("EXECUTION", status, Null)

Stories ==
  LET proposed == entry("PROPOSAL", Null, Null)
  IN  {<<proposed, verdict("DECISION", "DENY")>>,
       <<proposed, verdict("DECISION", "PENDING_APPROVAL"), verdict("APPROVAL", "DENY")>>}
      \cup UNION {{<<proposed, verdict("DECISION", "ALLOW"), executed(x)>>,
                   <<proposed, verdict("DECISION", "PENDING_APPROVAL"),
                     verdict("APPROVAL", "ALLOW"), executed(x)>>} : x \in {"success", "failure"}}

\* Whatever throws or dies halfway, the entries of a proposal read as the beginning of
\* one of these stories: each verdict is signed as what it says, a human is heard only
\* about a held call, and nothing follows a denial.
TrailTellsAStory == \A p \in ProposalIds : \E s \in Stories : isPrefix(trail[p], s)

\* The trail holds a signed ALLOW for p.
Allowed(p) ==
  \E i \in DOMAIN trail[p] : trail[p][i] \in {verdict("DECISION", "ALLOW"),
                                             verdict("APPROVAL", "ALLOW")}

\* "The ONLY place a tool is actually executed": a tool never runs before an ALLOW for
\* that very proposal is signed and on the audit log.
EffectsWereAllowed == \A p \in effects : Allowed(p)

\* The dashboard is never told of a verdict or a result that is not on the audit log.
EmittedIsAudited ==
  \A p \in ProposalIds : \A s \in stream[p] : \E i \in DOMAIN trail[p] : trail[p][i].status = s

\* A call that got as far as the MCP server is one no BLOCK_TOOL or INPUT_VALIDATION
\* rule of the turn's rules forbids, and if one of them asks for a human, a human (or
\* the fallback) said yes on the record: neither the judge nor an approver can talk
\* it past a hard rule.
RunningCallsRespectRules ==
  \A t \in Turns : turn[t].pc \in {"calling", "reporting", "reported"} =>
    LET R == RuleSet(loaded[t])
        p == current(t)
    IN  /\ ~turn[t].call.suspicious
        /\ Forbidding(turn[t].call, {r \in R : r.type # "BUDGET_LIMIT"}, Null) = {}
        /\ Escalating(turn[t].call, R) # {} =>
             \E i \in DOMAIN trail[p] : trail[p][i] = verdict("APPROVAL", "ALLOW")

\* The turns of a conversation that can be at work at once.
turnsOf(c) == {t \in Turns : conversation[t] = c}

\* The budgets on tool calls that cover every tool and are always on.
StandingBudgets ==
  {r \in RuleSet(InitialRules) :
     /\ r.enabled /\ r.id \notin Toggleable
     /\ r.type = "BUDGET_LIMIT" /\ r.toolName = Wildcard /\ r.config.maxToolCalls # Null}

\* The schema admits any number; a cap is taken to be a count.
ASSUME BudgetAssumption == \A r \in StandingBudgets : r.config.maxToolCalls \in Nat

\* The budget is read before the call and counted after it, so turns of one
\* conversation can overshoot it together: by one call for each turn but the first,
\* and by no more however long calls and approvals are held.
OvershootBounded ==
  \A r \in StandingBudgets, c \in Convs : turnsOf(c) # {} =>
    usage[c].toolCallsMade <= r.config.maxToolCalls + Cardinality(turnsOf(c)) - 1

\* The tally never counts a call the audit log does not show as a success ("denied or
\* failed results don't burn the tool budget").
succeeded(c) ==
  {p \in ProposalIds : /\ conversation[p[1]] = c
                       /\ \E i \in DOMAIN trail[p] : trail[p][i] = executed("success")}
TallyIsOnRecord == \A c \in Convs : usage[c].toolCallsMade <= Cardinality(succeeded(c))

-----------------------------------------------------------------------------
(* Liveness                                                                *)

\* A turn that starts ends: with a reply, at the step limit or with an error.
EveryTurnEnds == \A t \in Turns : turn[t].pc # "idle" ~> turn[t].pc \in Ended
=============================================================================
