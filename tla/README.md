# Formal models of the guarded agent

This directory holds TLA+ models of the guarded agent: the guardrail loop that stands
between a language model and the tools of its MCP servers, and the services that loop
relies on. The models are checked with TLC on small instances; the theorems about them are
checked with TLAPS for every value of their constants.

"README.md:n" in a module's comments is line n of the repository's README; all other paths
are those of the repository's source tree. `PROJECT.json` maps each definition of the
models to the source lines it stands for.

## 1. The system

One Node process (`packages/server`) serves a REST API and a socket.io event stream to a
Next.js dashboard, drives the agent, holds MCP clients and writes to Postgres.

```
  dashboard ──POST message──▶ app.ts ──▶ runTurn ──▶ proposeNextStep ──▶ model (external)
     ▲   │                                 │  │ evaluate(rules, usage, breaker)
     │   └─POST approval─▶ approvals ─────▶│  │ judgeIntent ──▶ model (external)
     │                     (timer)         │  │ attestDecision
     └────── events (socket) ◀── emit ─────┤  └ executeTool ──▶ MCP server ──▶ hooks ─▶ breaker
                                           └ recordAudit ──▶ (lock) ──▶ Postgres
```

| component | state it keeps | operations | interacts with |
|---|---|---|---|
| guardrail loop (`server/orchestrator.ts`) | the locals of each running turn | `runTurn` | everything below |
| policy decision (`policy-engine`) | none | `evaluate` and one check per rule type | called by the loop with the loaded rules, the usage snapshot and the breaker |
| circuit breaker (`circuitBreaker.ts`) | per server: failure count, time of opening | `isOpen`, `recordFailure`, `recordSuccess` | asked by `evaluate`, told by the MCP registry's hooks |
| approval registry (`approvals.ts`) | Map of pending calls, a timer each | `waitForApproval`, `resolve`, `list` | awaited by the loop, answered over HTTP |
| rule table (`rules.ts`, `seed.ts`) | rows in Postgres | seed at boot, POST, PATCH, DELETE, load | edited by operators, read once per turn |
| audit service (`auditService.ts`, `audit`) | rows in Postgres, a promise lock | `record`, `verify`, `getAll` | awaited by the loop before every emission |
| hash chain (`hashChain.ts`) | none | `createEntry`, `verifyChain` | used by the audit service |
| attestation (`attestation.ts`) | a key pair on disk | `attestDecision` | every recorded verdict |
| semantic firewall (`semanticGuard.ts`) | none | `judgeIntent` | asked about what `evaluate` allows |
| agent (`agent`) | conversation histories, token and call tallies | `proposeNextStep` | called by the loop |
| MCP registry (`mcp-client`, `server/mcp.ts`) | clients and cached tool lists, by server id | `connect`, `disconnect`, `executeTool`, the boot loop over the configured servers | called by the loop; its hooks feed the breaker |
| security-ops server (`mcp-servers`) | a block list, quarantined devices, incidents, in the memory of one process | five tools | called by the MCP registry |
| dashboard console (`dashboard`) | the timeline's event state, running and busy flags | the stream reducer, `send`, `newSession`, approval buttons | REST and socket |
| dashboard policy pages | a switch per rule, the create dialog's fields | optimistic toggle, `buildRule`, `router.refresh` | REST |
| dashboard verification | a cached public key, a badge per decision | verify in the browser, else ask the server | REST |

### What is hard about it, and what makes it correct

The process is single-threaded, but it interleaves: every `await` of `runTurn` is a point at
which another turn, an operator or a timer may run. A turn has up to eight of them per step,
one of which may last as long as a human takes.

* **Guardrail loop.** Between the verdict and the tool lie the judge, two audit appends and
  perhaps a human, and each may throw or the process may die. Correct means: no tool runs
  before its signed ALLOW is on the log; nothing is shown that is not on the log; the log of
  a proposal always reads as the beginning of a complete story; a hard rule cannot be talked
  past; the budget is overshot by no more than the concurrency explains; a turn ends.
* **Policy decision.** Tiers in a fixed order over a list that comes in no order. Correct
  means: the status is a function of the *set* of rules, every reason to deny beats approval,
  and the rule a verdict names is a reason for it.
* **Circuit breaker.** Calls admitted before the breaker opens report after it opened, or
  after it closed again. Correct means: it opens on a streak only, it closes on a recovery
  only, late reports cannot bring its two fields out of step, and it never cuts a server off
  for good.
* **Approvals.** Two operators, a timer and a restart race for one promise. Correct means:
  who was told 200 was right, nothing else approves, and no call waits for good.
* **Rule table.** Two processes seed it at once, row by row and without a transaction.
* **Audit service.** Calls from concurrent turns, inserts whose answer is lost but that run
  later, restarts. Correct means: the stored chain verifies at every moment, a call that
  returned is on the log, an append that failed blocks none behind it, and as a whole it is
  an append-only log.
* **Hash chain.** Several changes of stored entries might cancel out for one of the three
  checks. Correct means: an unchanged hash vouches for everything up to it, and the number
  reported for a broken chain is that of an entry not before the first change.
* **Conversation history.** Nothing keeps two turns of a conversation from appending to one
  history, and a turn may be cut short or capped with a call open. Correct means: an
  undisturbed conversation always sends the model a history its API takes, and whatever
  overlaps, no answer is lost, doubled or given to another call.
* **MCP registry.** Connects, disconnects and calls interleave at their awaits; processes die
  and replies get lost. Correct means: no call runs its tool twice, a server's memory is what
  its runs made of it, a call is turned away as not connected for a reason only, no client
  is lost track of without a cause, and one bad endpoint cannot keep the server from booting.
* **Attestation.** The key file survives restarts or does not, the page caches a key. Correct
  means: "valid" is shown of nothing but what a key of the system signed, and "invalid" of
  something genuine for a reason only.
* **Policy pages.** Requests, answers and refreshes are lost, late and overtaken by other
  tabs. Correct means: a switch at rest shows what is stored, a form submitted once makes one
  rule, and the rule does to a call what the form's labels say.
* **Dashboard console.** Its events are lost while it is disconnected and not yet in the room,
  its requests overtake them, and replies to its answers get lost. Correct means: a tab that
  missed nothing shows what the server decided, and a call that waits can be answered; but a
  gate counts down by rules of its own, so its buttons may lock before the call's time is up.

`PROJECT.json` lists each hazard at its line, with the properties that would catch it, or a
note where none does yet.

## 2. The modules

| module | models | builds on |
|---|---|---|
| `PolicyEngine` | `evaluate` and its checks as operators; `ReferenceStatus`, what the status should be as a function of the set of rules, and `Justifies`, when a rule is a reason for a verdict | |
| `RuleTable` | the rows and what POST, PATCH and DELETE do to them, as operators | `PolicyEngine` |
| `RuleStore` | the rule table: seeding statement by statement by the server and `seed.ts`, operators, and the verdicts its rows give | `RuleTable` |
| `RuleForm` | the create dialog's fields, what the browser lets through, `buildRule`, and `Says`, what the labels tell the operator, as operators | `PolicyEngine` |
| `RulePages` | one policy page: switches, dialog, their requests and refreshes, and other clients | `RuleTable`, `RuleForm` |
| `CircuitBreaker` | the breaker's record for one server and its methods, as operators | |
| `BreakerClients` | the breaker of the process under calls that are admitted, sent and reported in any order | `CircuitBreaker` |
| `ApprovalRegistry` | `waitForApproval`, its timers, `resolve`, and requests that travel | |
| `HashChain` | the events and `createEntry`, `computeHash`, `verifyChain`, as operators | |
| `AuditChain` | `recordAudit` over a table with a unique index | `HashChain`, refines `AppendOnlyLog` |
| `AppendOnlyLog` | the abstract promise of the audit service | |
| `ChainAlterations` | a written chain whose stored entries then change | `HashChain` |
| `GuardedTurn` | `runTurn`: concurrent turns sharing rule table, usage tallies, breaker, log | `PolicyEngine`, `CircuitBreaker` |
| `ConversationHistory` | the message list and tally of one conversation under overlapping turns | |
| `SecurityOps` | the memory of one security-ops process and its tools, as operators | |
| `McpRegistry` | the boot loop, `connect`, `disconnect`, `executeTool`, and the processes they reach | `SecurityOps` |
| `Attestation` | the key file, `attestDecision`, and the badges that verify | |
| `ConsoleStream` | one browser tab: the event reducer, its socket, `send`, `newSession` and the approval buttons, against what `runTurn` emits | |
| `PolicyEngineProofs`, `GuardedTurnProofs`, `ConversationHistoryProofs`, `ApprovalRegistryProofs` | the theorems | the module each is named for |
| `RuleProofs` | the theorems about what becomes of the rules | `RuleStore`, `RulePages`, `PolicyEngineProofs` |
| `AuditProofs` | the theorems about the chain, written and altered | `AuditChain`, `ChainAlterations` |
| `McpProofs` | the theorems about the MCP servers, called and cut off | `McpRegistry`, `BreakerClients` |
| `DashboardProofs` | the theorems about what the dashboard shows | `Attestation`, `ConsoleStream` |
| `MC...` | constants for TLC | |

Two components that share a proof module are told apart by their names: the specifications of
`ChainAlterations`, `RulePages`, `McpRegistry` and `ConsoleStream` are `AlterationSpec`,
`PagesSpec`, `RegistrySpec` and `ConsoleSpec`, all others are `Spec`.

### How state and actions correspond to the code

**GuardedTurn.** `turn[t]` holds the locals of one `runTurn` call; its `pc` is the `await` it
is in. An action is what runs between two awaits, in the code's order:

| action | code |
|---|---|
| `Start` | POST /conversations/:id/messages: `loadRules` once, then the first model call |
| `ReplyText`, `ReplyCall`, `ReplyUnusable` | `proposeNextStep` returns a text or a call, or throws; the last call of the model comes after the last step and its answer is not used |
| `Record`, `RecordFails` | an `audit.record` that returns, or throws with the row written or not |
| `Evaluate` | `evaluate` on the turn's rules and on the usage and breaker of that moment |
| `Judge` | `judgeIntent`, failing open; its denial is signed as such |
| `Act` | the emission of a recorded verdict and what follows: park, call, or feed the denial back |
| `Resolve` | the parked call gets a verdict, which is attested anew |
| `Run`, `Return`, `Break` | the MCP server runs the tool; the call returns or the transport fails, before or after the tool ran |
| `Report` | the emission of the result, `FeedBack` and the next model call |
| `Toggle`, `Tick`, `Restart` | an operator, the clock, the death of the process |

`trail` is the log restricted to each proposal, `stream` what was emitted about it, and
`effects` (a history variable) the proposals whose tool really ran. The audit service, the
approval registry and the breaker appear as what their own modules show them to be: an
append happens once or not at all, a parked call gets one verdict, the breaker is
`CircuitBreaker`'s record of the one server of the instance.

**RuleStore.** `table` is the set of rows. `CountRows` and `CreateDemoRule` are single
statements of `seedRulesIfEmpty`; the seeder that hits a primary key dies as the code does.
`PostRule`, `PatchRule` and `DeleteRule` are the three handlers. `loadRules` is a `findMany`
without `orderBy`, so `evaluate` is asked about the rows in *every* order.

**BreakerClients.** `Admit` is the question `evaluate` asks; `Drop` an admitted call that is
never sent (denied later, or its turn failed); `Send`, `Fail` and `Succeed` the transport
and the registry's hooks. `openFor` stands for `Date.now() - openedAt`.

**ApprovalRegistry.** `pending` is the Map, `timer` the Node timers (a delay Node cannot
count becomes 0), `requests` the answers under way. `Answer` and `resolve` are the two ends
of POST /approvals/:id.

**AuditChain.** `chain` is the promise lock as the queue of unsettled calls. `Insert` reads
the tip and sends the row; `Execute` is the database running it, perhaps after the process
gave up (`Fail`) or died (`Restart`). The unique index is `Execute`'s refusal.

**ConsoleStream.** `turn`, `decision`, `executed`, `pending` and `verdict` are the server's
side, with the emissions of `orchestrator.ts` in their order (audit appends only appear as a
turn that throws); `wire` is what the socket has not delivered; `rows`, `running`, `sending`
and `busy` are the tab's React state. `Receive` is `guardrailReducer`; `Join` the handling of
the socket's `join`, after which it is in the room; `respond`, `resolve` and `GiveUp` are a
click, its request at the server and a request that fails in the browser. A held call is
timed twice: `timeout` and `waited` are those of its timer on the server (`unpark` ends them),
`timeoutFor` the timeouts the tab has read (`LoadRules`) and `elapsed` the countdown of each
gate, which locks the buttons (`expired`); `Second` lets a second go by for a call and, unless
the browser is late, for its gate. `missed` and `broken` are histories: a turn of which the tab
lost an event, and one that threw.

**ConversationHistory.** `messages` is the record's list, `turn[t]` where a turn is. `Begin` and
`FeedBack` are the two ways to call `proposeNextStep`, each an append followed by the request,
which takes a copy of the list (`sent`). `ReplyText`, `ReplyCall`, `ReplyUnknownTool` and
`ModelFails` are its outcomes; `Refuse` is the API turning down a list that is not `Acceptable`
(a call directly followed by its answer: the contract the code's ids are threaded for).
`CutShort` is an append to the audit log that throws, `Restart` the loss of the store.
`disturbed` is a history: turns overlapped, or one ended with a call open.

**McpRegistry.** A connect makes a new entry of `client`, with a process of its own: `Open`,
then `Handshake` or `ConnectFails`, then `Register` (both maps at once) or `ListFails`.
`BootConnect` and `Listen` are the loop of `connectConfiguredServers`; `Connect` and the two
halves of `disconnect` around its `await close()` (`BeginDisconnect`, `FinishDisconnect`, or
`DisconnectFails` when `close()` rejects and both maps stay as they are) are open to any user of
the package. `Propose` reads the tool cache, `Execute` the map of clients,
later; `Serve` is the process running the tool, perhaps after the caller gave up; `Return`
and `Break` are the two hooks. `ran` is a history of what ran. The tools are
`SecurityOps`' operators.

**Attestation.** `file` is `policy-key.json`: absent, torn by a crash while it was written, or a
key pair. `LoadKeys` and `CreateKeys` are `loadOrCreateKeys`; a torn file stops every boot until
`LoseFile` removes it. `Alter` changes a stored attestation. `Load`, `Verify`, `Answer`,
`KeyArrives` and `AnswerArrives` are the badge: fetch the key once per page, check, and ask the
server when there is no key or the browser cannot check.

**RulePages.** `page[id]` is a mounted switch, `dialog` the dialog, `requests` what is under way.
`Toggle` moves the switch and sends; `Reply` and `Lose` are the await that returns or throws, with
`Confirmed` and `Rejected` for what follows; `Arrive` is the server taking a request, also one
the page has given up on. `Refresh` mounts and unmounts switches and changes none that stays, as
`useState` does. `Fill`, `Open`, `Close` and `Submit` are the dialog, `OtherPatch` and
`OtherDelete` everybody else. `doubt`, `made` and `slipped` are histories: rules the page cannot
know the state of, forms sent, and a dialog that was closed over a request or told of a failure
that was none.

**Abstractions.** A rule's regular expression is the set of values it matches; the
injection heuristic's verdict is a flag of the proposed call; the judge, the model, the
tool's result and the human are free choices. SHA-256 is ideal: the hash *is* the hashed
material. A signature is the status that was signed and, in `Attestation`, the key that signed
it: Ed25519 is ideal. A model reply costs one token. The console's timeouts are whole seconds.
A page of `RulePages` reads the rules and mounts its switches in one step (`Load`, `Refresh`): a
change made between the two by another client has the effect of one made right after the step,
which leaves the rule in `doubt`.
Wording, formatting and logging are left out.

## 3. The runs

`tlc -workers 2 -config <cfg> <module>` runs any of them. All bounds are constants of the
cfg.

| run | instance | what it shows |
|---|---|---|
| `turn_safety` | 2 turns of one conversation, 1 step each, 4 calls (plain, injected, held, held with a forbidden argument), the judge on, a rule that is switched on and off | `TrailTellsAStory`, `EmittedIsAudited`, `RunningCallsRespectRules` and, under fairness, `EveryTurnEnds` |
| `turn_budget` | 2 turns, 2 steps each, a budget of one call, one of two tools held, the judge off, one restart | `EffectsWereAllowed`, `OvershootBounded`, `TallyIsOnRecord` |
| `history` | 3 turns of one conversation, 1 step each, one restart | `UndisturbedIsAccepted`, `HistoryThreads`, `TallyMatchesHistory` |
| `rules` | two seeders, one of which may die, 2 demo rows and 5 kinds of rule that operators create, toggle and delete, 3 rows at a time in every order; 4 calls, 2 usages | `VerdictIsHonest`, `SeedingIsAllOrNothing` |
| `rule_pages` | one switch, 5 fillings of the form, 2 rules sent, other clients | `ToggleTellsTheTruth`, `DuplicatesAreExplained`, `FormMeansWhatItSays` |
| `breaker` | 3 turns, 2 servers, threshold 2, cooldown 2 | `OpenNeedsStreak`, `LateFailuresBounded`, `ClosesOnlyOnRecovery` and `NeverCutOffForGood` |
| `tools` | 2 servers named by the file (the environment's list is unusable), 3 clients, 2 calls of any tool, 1 disconnect, which may fail | `RunsAtMostOnce`, `MemoryIsTheRecord`, `NotConnectedIsExplained`, `OrphansAreExplained`, `EveryBootListens` |
| `approval` | 2 parked calls, 2 operators, timeouts of 1, 60 (the default) and 61 where 60 is the most a timer counts, restarts without a bound | `AcceptedIsTheVerdict`, `AllowIsJustified`, `PendingIsAwaited`, `EveryParkSettles` |
| `console` | 1 tab, 2 sessions, 2 messages that may overlap, 1 call, timeouts of 0 and 1, 2 broken connections or restarts | `RowsAreAccurate`, `PendingIsAnswerable`, `RowsOfThisSession`, `RunningIsExplained` |
| `audit` | 4 `record` calls, 3 faults | `ChainVerifies`, `FailsOnlyOnFault`, `ImplementsLog`, `EveryRecordSettles` |
| `alterations` | 3 entries about 2 events, 4 changes of any kind | `HashCommitsToHistory`, `BreakIsLocated` |
| `attestation` | 2 badges, 2 key pairs, 1 alteration, restarts without a bound | `ValidMeansSigned`, `InvalidIsExplained` |

The largest are `tools` (4.7 million states), `console` (3.6 million), `rule_pages` (2.4
million) and `approval` (0.9 million); each of them takes one to two minutes.

**Why these bounds are enough.** Everything the loop shares is shared pairwise, so two turns
show each race; three callers are needed for the breaker because two failures open it and
a third call must still be under way. Two steps suffice to carry a tally, a breaker state
and a history from one step into the next, and MaxSteps = 1 reaches the step limit. In
`history` a third turn follows two that overlapped, with the history they left. Three rows
leave room for both demo rules and one that an operator added, and every precedence question
asks which of two rules wins. Two servers let one fail to connect while the other one works,
and the third client is a reconnect under an id that is taken, closing or free. In
`rule_pages` the rules do not depend on each other, so one switch is enough; the second rule
sent is what a duplicate needs. Two key pairs are one that signed and one that did not. Three
faults allow a lost insert, a restart and a late insert in one behaviour; four events leave two
calls queued behind a failing one. Four alterations are one more than re-writing an entry
consistently takes (edit, re-hash, re-link the next one). The rows of the console do not
depend on each other, so one call is enough there; two messages overlap when the reply to the
first POST is lost. With timeouts of 0 and 1 the one the tab counts from is shorter than the
one that holds the call, the same, longer or unknown, and a countdown is over at once or later.

Deadlock checking is off where the system really comes to rest: all events recorded
(`audit`), the bounded list changed (`alterations`), all messages sent (`console`, `history`), all
calls made and every client gone (`tools`), a torn key file and no key pair left to make
(`attestation`). Symmetry is used for the interchangeable events of `alterations`, turns of
`console` and `history` and badges of `attestation`, which state no liveness.

### Fairness

* `GuardedTurn`: a turn that has *started* is driven on. The model and MCP requests time out
  or return, the judge fails open, the database answers or throws, a parked call gets its
  verdict from its timer (`EveryParkSettles`) and an append settles (`EveryRecordSettles`).
  No request need be made and no rule toggled. The restart bound is zero in that run:
  a restart only ends turns.
* `BreakerClients`: the clock runs, a call under way ends. Nobody is obliged to call; that
  an open breaker closes holds for a server in demand only, and the property says so.
* `ApprovalRegistry`: the clock runs, due timers run, resolved promises continue. Operators
  need not answer and their requests need not arrive.
* `AuditChain`: resolved promises continue and the database answers.
* `McpRegistry`: the boot loop goes on, and each connect it waits for is answered or times out
  (the SDK's request timeout). Nothing is assumed of calls, disconnects or other connects.

## 4. What is proved

TLAPS checks these for every number of turns, steps, conversations, rules, servers, callers,
calls, operators, entries, faults, badges, keys, clients, switches and conversations. The only
assumptions are those about the constants that the modules name (`...Assumption`), which TLC
evaluates in every run. Every safety property of section 3 is one of these theorems.

* **`StatusIsOrderFree`** (PolicyEngineProofs): the status `evaluate` returns is
  `ReferenceStatus` of the *set* of rules. `FirstOf` is a CHOOSE of a least index;
  `FirstOfFinds` and `FirstOfNone` say what it returns, `TierOpinion` lifts that to one
  loop over the rules, and the theorem goes through the seven tiers.
* **`VerdictNamesItsRule`** (PolicyEngineProofs): the rule a verdict names is in the table, enabled,
  and a reason for that verdict (`Justifies`): each tier names a rule of its own
  (`TierNamesARule`), and the tier that opines first is the one that decides (`OneRuleDecides`).
* **Rule table.** `VerdictIsHonestHolds` joins the two: every list `loadRules` may give of a
  finite table of rules (`TableOK`) is one the theorems above speak of.
  `SeedingIsAllOrNothingHolds` needs to know who is seeding: while nothing crashed the table is
  untouched, all seeded, or one seeder is past its first row and every other one still before
  it, to die of a primary key (`SeedingInv`). With the server not yet listening the table is
  what that seeder made of it, which is why the operators cannot be in its way (`UnderWay`).
* **Policy pages.** `PagesInv` says that a rule under way is one of the forms sent, under an id
  nothing else was ever about (`IdsAreFresh`); that a switch that waits shows what its request
  asks for, and its row the opposite until the server has taken it (`PatchIsSound`); that a
  stored rule made here is still what its form built, but for the switch (`RulesAreForms`); and,
  for `DuplicatesAreExplainedHolds`, that the dialog waits for the last rule sent and for no
  other (`Tidy`). `FormMeansWhatItSaysHolds` is then about `buildRule` and the checks of
  `PolicyEngine` only.
* **GuardedTurn.** `TypeOK` is not inductive: that a called turn has a call and a decision,
  that its step is below the limit, and that its signature fits its decision depend on where
  it is. `Coherent` says so per turn; `TypeInv` is both (`TypeCorrect`). On it rests
  `RecordInv`: what each turn's position implies about its trail (`OnRecord`) and about the
  rules it was vetted by (`Vetted`), together with the two statements about effects and
  emissions. It gives `EffectsWereAllowedHolds`, `EmittedIsAuditedHolds` and, with
  `StatusIsOrderFree`, `RunningCallsRespectRulesHolds`. A trail only grows (`TrailGrows`), and
  a step of one turn leaves the facts of the others alone (`OtherTurn`), so each action is
  looked at for its own turn only (`OwnTurn`).
* **`OvershootBoundedHolds`**: the tally alone is not inductive, because calls that passed the
  check have yet to count. `FlightBounded` adds the turns in flight to the tally: together
  they never exceed the cap by more than the number of the conversation's turns less one.
  `BudgetsStand` says a standing budget is still on in every rule list a turn holds.
* **`TrailTellsAStoryHolds`**: that a trail begins a story is not inductive, because the same
  beginning may go on differently. `StoryInv` says what the trail of the current proposal reads
  as at each place a turn may be (`ReadsAs`), that every earlier one is a beginning, and that
  later ones are empty. Each action then writes the next chapter (`NextChapter`), none
  (`Untold`), or moves on to a new proposal (`MovedOn`).
* **`TallyIsOnRecordHolds`**: `TallyInv` compares the tally with the successes recorded at steps
  the turns have left behind, because the success of the current step is recorded before it is
  counted; it stands on `RecordInv` for what a turn that reports has on its trail.
* **Breaker.** `IInv` is the type invariant, the two fields in step, the count within the
  streak and the count plus the calls under way within their bound; it gives the three
  invariants, and `ClosesOnlyOnRecoveryHolds`, an action property, follows step by step.
* **MCP registry.** `RegistryInv`: the two maps agree, and a client in them is open or about to be
  closed (`MapsInv`); a call knows of its client and its answer what its place says (`CallOK`);
  and it ran exactly if it was answered, and then at one place of the record (`RunsOK`), which
  is `RunsAtMostOnceHolds`. `MemoryIsTheRecordHolds` compares each process's memory with the
  record of what it ran; its lemmas say of every tool what it does to the memory (`Handled`)
  and of `RemoveFirst` that it takes one address off a list that holds none twice.
  `OrphansAreExplainedHolds` allows a client to be lost track of only when another connection was
  made under its id; it speaks of one whose `close()` is awaited or was rejected, too.
* **Approvals.** `IInv` adds to the three invariants that a call not yet parked has left no
  trace (`NewIsUntouched`), and that a running timer plus the time waited is the whole delay
  (`TimerCountsDown`), without which an expired timer would not show that anybody waited.
* **Conversation history.** `HistoryThreads` needs that a turn's messages tell where it is
  (`TurnOK`): its steps only grow, and a working turn's last message is the call it is at; and
  that no two calls are alike (`CallsDiffer`). All appends are one case (`Says`).
  `UndisturbedIsAcceptedHolds` adds `Threaded`: while nothing is disturbed at most one turn runs
  and, unless it works on a call, the whole list is one the model takes.
* **Audit service.** `IInv`: the table is a chain 0 .. n-1 (`ChainOK`); an insert that is on its way
  continues it at n or comes too late and is refused (`SentOK`); no event is inserted twice
  (`OncePerEvent`). It gives `ChainVerifiesHolds`, and `ImplementsLogHolds`: initial states map
  to the empty log and every step appends one new event or stutters. `FailsOnlyOnFaultHolds` adds
  what is true before the first fault (`Undisturbed`): the insert on its way is the one whose
  call holds the lock, and it is at n.
* **Chain alterations.** Both theorems are inductions along the chain, stated as arguments by the
  least number of a set (`SmallestOf`): the nearest distance at which two lists that share a
  hash could differ, and the first entry that differs from what was written. `BreakIsLocated`
  speaks of the number `verifyChain` reports: it is that of a stored entry not before the first
  difference, which is less than the place of the break (section 6).
* **Attestation.** `IInv` says where each key in the page comes from (the server had it since the
  page was loaded), what each state of a badge and each answer under way tells of its
  attestation (`Truthful`), and that as long as nobody removes the file there is one key pair
  (`OneKeyPair`).
* **Console.** That the rows are right once everything has arrived is not inductive: `ConsoleInv`
  says what they are while events are on their way. The events on the wire are so of the server
  (`EventOK`), and what is so of a call stays so (`Grows`). A row and the events about it
  together say what the server decided (`WillBeRight`): a field is right unless an event that
  sets it is on its way, the last decision on its way is the server's, a proposal comes before
  and an execution after everything else about its call. So the row is there when an event
  about it arrives, and the execution that closes its gate is the last to arrive. Five lemmas
  follow an event onto the wire (`RightWhenProposed`, `...Decided`, `...Held`, `...Executed`,
  `RightAfterOthers`) and one off it (`RightWhenReceived`). A message sent is followed from the
  start: its row is blank and nothing was said of it. `ClocksInv` says that a countdown is never
  ahead of its call's timer, since the gate appears after the call is parked and nothing is
  counted without a gate; so buttons that lock too soon were given a shorter timeout. For the
  indicator, `WillRun` says that
  the console will be left running, from the last event that switches it.

### What is model-checked only

Liveness: `EveryTurnEnds`, `NeverCutOffForGood`, `EveryParkSettles`, `EveryRecordSettles` and
`EveryBootListens` rest on fairness and are out of the prover's reach.

## 5. What is not modelled

| part | why |
|---|---|
| canonical JSON and Postgres's `jsonb` round trip | recursion over arbitrary JSON; that a stored value comes back with the same canonical text is a property of Postgres. The hash is ideal |
| the status indicators and the verify-chain button | each shows the answer of one request and keeps nothing else |
| the second create dialog, of a page without rules | the same component over the same API; it would only double the state |
| handlers that only read (lists of rules, audit entries, tools) | no state |
| zod schemas' parsing | rows and requests that do not parse are rejected before any action |
| a clock that jumps | the breaker and the timers are modelled over a clock that only goes forward |
| the model, Postgres, socket.io, the MCP SDK and its transports | external; their outcomes are free choices |
| dashboard views and formatting, UI components, styles | no state of the system in them |

## 6. Where documents and code part

These were met while modelling. The models do what the code does; no property claims what
the documents say here.

* The repository's README lists the semantic firewall before REQUIRE_APPROVAL (README.md:52-58),
  but `orchestrator.ts:102` asks it about allowed calls only; a held call is never judged.
* It also says that the order of the rule list is irrelevant (README.md:49-50). The status is; with
  two approval rules on one tool the first row's fallback and timeout apply (`evaluate.ts:72`),
  and `findMany` gives no order.
* `proposal-row.tsx:140` expects the stream to clear a gate after the answer, but
  `use-guardrail-stream.ts:86` keeps the approval id of a resolved decision and only an
  execution clears it, so the gate of a denied call stays open.
* `proposal-row.tsx:118` takes a gate's countdown from the `timeoutSeconds` of the matching
  REQUIRE_APPROVAL rule. `console.tsx:54-65` reads the rules once and takes the last row for the
  tool, enabled or not, while the call is held by the first enabled match of the rules its turn
  loaded (`evaluate.ts:72`). With the shorter timeout in the tab the buttons lock
  (`proposal-row.tsx:147,165,175`) and the call still waits; `PendingIsAnswerable` allows for
  that, and for nothing else but an answer on its way or a time that is up.
* `hashChain.ts:64` says that `verifyChain` returns the first place the chain breaks. It reports
  the sequence that the entry there carries (`hashChain.ts:85`), which need not be its place: of
  a chain whose entry 0 is stored twice it reports 0, and the first entry that differs is the
  second one. `BreakIsLocated` says what the number does tell.
* `app.ts:146`: rules are loaded once per message, so a toggle does not reach a running turn;
  `create-rule-dialog.tsx:321` says that rules apply immediately to new tool calls.
* `registry.ts:97` says that the list of tools always reflects what is currently live; a server
  whose process died stays listed until it is disconnected, and calls to it fail.
* The browser checks a signature only, the server also that the attestation names the server's
  key id (`attestation.ts`, `verify-signature.ts`): of an attestation whose key id alone was
  altered one says valid and the other invalid. `ValidMeansSigned` holds for both.
* `circuitBreaker.ts:3` speaks of letting one call probe the server after the cooldown;
  `isOpen` closes the breaker, and every call gets through until one reports
  (`LateFailuresBounded` says how many that can be).
* `approvals.ts:28`: `timeoutSeconds` has no upper bound, and `setTimeout` runs a timer of more
  than 2^31-1 ms at once; the fallback then decides immediately (`delayOf` does the same).
* `use-guardrail-stream.ts:65`: `running` ends with `turn:end` or `error` only; a turn that throws
  emits neither, and a message that never reached the server starts none.
* `budgetRule.ts:18` never reads `config.scope`: a GLOBAL budget is one per conversation.
* The usage snapshot is read before and counted after an execution (`orchestrator.ts:96`), so
  concurrent turns exceed a cap; `OvershootBounded` says by how much.
* `orchestrator.ts:153`: a text the model gives right after the last step goes into the
  history, but the turn reports that there was no final reply.
* `rules.ts:41`: demo rules are seeded whenever the table is empty, not on the first boot
  only; and a crash between two rows leaves half of them for good.
* `hashChain.ts:80`: a chain whose newest entries were deleted verifies, as nothing keeps its
  length.

## 7. Plan

Done, in this order: the loop and the four services it awaits; the console, the other end of its
events; the history, the MCP registry with its server, the policy pages and the attestation; the
proofs of section 4, which state every safety property of the runs. Left, the first ones first:

1. **What the loop assumes of its services**: `GuardedTurn` takes an append that happens once or
   not at all, and a parked call that gets one verdict, from `AuditChain` and `ApprovalRegistry`;
   that these modules implement what the loop assumes could be stated as refinements, as
   `ImplementsLog` is for the log.
2. **What the console assumes of the loop**: `ConsoleStream`'s server side is what `GuardedTurn`
   emits; a refinement mapping from the one to the other would tie the two together.
3. **Action properties**: what a step may never do to a trail, a table row or a parked call, from
   the invariants that are there.
