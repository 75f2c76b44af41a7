--------------------------- MODULE ConsoleStream ---------------------------
(***************************************************************************)
(* The Live Console (packages/dashboard): one browser tab, the events that *)
(* runTurn emits to its conversation's room, the approval buttons, and the *)
(* requests the tab makes.                                                 *)
(*                                                                         *)
(* The tab follows one conversation at a time; "New session" turns to a    *)
(* fresh one.  What the server emits while the tab's socket is not in the  *)
(* room is lost, as is what is under way when the connection breaks; the   *)
(* socket reconnects and joins again.  Requests travel over HTTP, in any   *)
(* order with the events.  The server's side is what GuardedTurn shows     *)
(* runTurn to emit; audit appends are left out, they only let a turn throw.*)
(*                                                                         *)
(* A held call is timed twice: by its timer on the server, from the rule   *)
(* that holds it, and by the countdown of its gate, which locks the        *)
(* buttons, from the rules the tab has read.  Both clocks are taken to run *)
(* alike, the tab's possibly late.  The texts of the timeline are left out.*)
(***************************************************************************)
EXTENDS Naturals, Sequences, FiniteSets

CONSTANTS
  Turns,        \* the messages the tab may send
  MaxSteps,     \* the steps of a turn
  Tools,        \* the tools the model may call
  toolName,     \* toolName[p]: the tool of proposal p
  Timeouts,     \* the timeoutSeconds of REQUIRE_APPROVAL rules
  None,
  MaxProposals, \* bound: calls proposed in all
  MaxSessions,  \* bound: conversations the tab opens
  MaxLosses     \* bound: broken connections and server restarts

Ids == Turns \X (1 .. MaxSteps)
Verdicts == {"ALLOW", "DENY"}
Statuses == Verdicts \cup {"PENDING_APPROVAL"}

ASSUME ConsoleAssumption ==
  /\ MaxSteps \in Nat \ {0} /\ MaxSessions \in Nat \ {0} /\ {MaxProposals, MaxLosses} \subseteq Nat
  /\ toolName \in [Ids -> Tools] /\ Timeouts \subseteq Nat
  /\ None \notin Turns \cup Ids \cup Statuses \cup Nat

VARIABLES
  turn,       \* turn[t]: runTurn on the server: [pc, step, conv]
  decision,   \* decision[p]: the last decision emitted about proposal p
  executed,   \* the proposals an execution was emitted about
  pending,    \* the approval registry's Map
  verdict,    \* verdict[p]: what its parked promise resolved to
  timeout,    \* timeout[p]: while p is parked, that of the rule which holds it
  waited,     \* waited[p]: the seconds p has been parked, up to its timeout
  conv,       \* the tab's conversation
  joined,     \* the tab's socket is in the room of conv
  wire,       \* events on their way to the tab, in order
  rows,       \* rows[p]: the timeline's row of p
  running,    \* the stream's `running'
  sending,    \* the turn whose POST the tab awaits
  busy,       \* busy[p]: the answer the row's buttons wait for
  timeoutFor, \* approvalTimeoutFor: the tab's timeout for each tool, None if not known
  elapsed,    \* elapsed[p]: the seconds counted off in the gate of p
  posts,      \* answers on their way to the server
  missed,     \* history: turns of which the tab missed an event
  broken,     \* history: turns that threw, died or never started
  losses      \* history: number of broken connections and restarts

serverVars == <<turn, decision, executed, pending, verdict>>
tab == <<conv, rows, running, sending, busy>>
clocks == <<timeout, waited, timeoutFor, elapsed>>
consoleVars == <<serverVars, joined, wire, tab, clocks, posts, missed, broken, losses>>

current(t) == <<t, turn[t].step>>
\* turn[t].pc is "unsent", "posted", one of these, or "ended".
Active == {"thinking", "proposed", "held", "calling"}

NoRow == [shown |-> FALSE, decision |-> None, approvalId |-> FALSE, result |-> FALSE]

event(type, t, p, value) == [type |-> type, turn |-> t, id |-> p, value |-> value]

ConsoleInit ==
  /\ turn = [t \in Turns |-> [pc |-> "unsent", step |-> 0, conv |-> 0]]
  /\ decision = [p \in Ids |-> None] /\ executed = {}
  /\ pending = {} /\ verdict = [p \in Ids |-> None]
  /\ timeout = [p \in Ids |-> 0] /\ waited = [p \in Ids |-> 0]
  /\ conv = 1 /\ joined = FALSE /\ wire = <<>>
  /\ rows = [p \in Ids |-> NoRow] /\ running = FALSE /\ sending = None
  /\ busy = [p \in Ids |-> None] /\ posts = {}
  /\ timeoutFor = [tool \in Tools |-> None] /\ elapsed = [p \in Ids |-> 0]
  /\ missed = {} /\ broken = {} /\ losses = 0

-----------------------------------------------------------------------------
(* The server: runTurn's emissions (orchestrator.ts, events.ts)            *)

\* io.to(conversationId).emit: only who is in the room gets it.
emit(t, events) ==
  IF joined /\ turn[t].conv = conv
  THEN wire' = wire \o events /\ UNCHANGED missed
  ELSE missed' = missed \cup {t} /\ UNCHANGED wire

moves(t, pc) == turn' = [turn EXCEPT ![t].pc = pc]

Start(t) ==
  /\ turn[t].pc = "posted"
  /\ moves(t, "thinking")
  /\ emit(t, <<event("turn:start", t, None, None)>>)
  /\ UNCHANGED <<decision, executed, pending, verdict, joined, tab, posts, broken, losses, clocks>>

proposed == {p \in Ids : p[2] <= turn[p[1]].step}

\* The model proposes a call and the proposal is recorded.
Propose(t) ==
  /\ turn[t].pc = "thinking" /\ turn[t].step < MaxSteps
  /\ Cardinality(proposed) < MaxProposals
  /\ turn' = [turn EXCEPT ![t].pc = "proposed", ![t].step = @ + 1]
  /\ emit(t, <<event("proposal", t, <<t, turn[t].step + 1>>, None)>>)
  /\ UNCHANGED <<decision, executed, pending, verdict, joined, tab, posts, broken, losses, clocks>>

\* The verdict is recorded and emitted; a held call is parked in the same breath.
Decide(t, status) ==
  LET p == current(t)
      decided == event("decision", t, p, status)
  IN  /\ turn[t].pc = "proposed"
      /\ decision' = [decision EXCEPT ![p] = status]
      /\ IF status = "PENDING_APPROVAL"
         THEN /\ emit(t, <<decided, event("approval:required", t, p, None)>>)
              /\ moves(t, "held")
              /\ pending' = pending \cup {p}
              /\ \E seconds \in Timeouts : timeout' = [timeout EXCEPT ![p] = seconds]
         ELSE /\ emit(t, <<decided>>)
              /\ moves(t, IF status = "ALLOW" THEN "calling" ELSE "thinking")
              /\ UNCHANGED <<pending, timeout>>
      /\ UNCHANGED <<executed, verdict, joined, tab, waited, timeoutFor, elapsed, posts, broken,
                     losses>>

\* A call leaves the Map, and its timer goes with it.
unpark(p) == /\ pending' = pending \ {p}
             /\ timeout' = [timeout EXCEPT ![p] = 0] /\ waited' = [waited EXCEPT ![p] = 0]

\* The rule's timer: its fallback.  (Too long a timeout makes it fire at once and a busy
\* process late: ApprovalRegistry.)
Fallback(p, v) ==
  /\ p \in pending
  /\ unpark(p)
  /\ verdict' = [verdict EXCEPT ![p] = v]
  /\ UNCHANGED <<turn, decision, executed, joined, wire, tab, timeoutFor, elapsed, posts, missed,
                 broken, losses>>

\* The parked turn goes on with the verdict it got.
Resume(t) ==
  LET p == current(t)
  IN  /\ turn[t].pc = "held" /\ verdict[p] # None
      /\ decision' = [decision EXCEPT ![p] = verdict[p]]
      /\ emit(t, <<event("decision", t, p, verdict[p])>>)
      /\ moves(t, IF verdict[p] = "ALLOW" THEN "calling" ELSE "thinking")
      /\ UNCHANGED <<executed, pending, verdict, joined, tab, posts, broken, losses, clocks>>

\* The tool call returned, with a result or an error, and is recorded.
Execute(t) ==
  /\ turn[t].pc = "calling"
  /\ executed' = executed \cup {current(t)}
  /\ emit(t, <<event("execution", t, current(t), None)>>)
  /\ moves(t, "thinking")
  /\ UNCHANGED <<decision, pending, verdict, joined, tab, posts, broken, losses, clocks>>

\* A reply, or the step limit.
End(t) ==
  /\ turn[t].pc = "thinking"
  /\ \E last \in {"assistant:text"} \cup (IF turn[t].step = MaxSteps THEN {"error"} ELSE {}) :
       emit(t, <<event(last, t, None, None), event("turn:end", t, None, None)>>)
  /\ moves(t, "ended")
  /\ UNCHANGED <<decision, executed, pending, verdict, joined, tab, posts, broken, losses, clocks>>

\* runTurn throws: 500, and no event says so.  (A parked turn has its verdict first.)
Throw(t) ==
  /\ turn[t].pc \in Active
  /\ turn[t].pc = "held" => verdict[current(t)] # None
  /\ moves(t, "ended")
  /\ broken' = broken \cup {t}
  /\ UNCHANGED <<decision, executed, pending, verdict, joined, wire, tab, clocks, posts, missed,
                 losses>>

-----------------------------------------------------------------------------
(* The event stream in the tab (use-guardrail-stream.ts)                   *)

\* Mutation of reduced: the first decision stays.
reducedFirst(e) ==
  LET row == rows[e.id]
      new == CASE e.type = "proposal" -> [row EXCEPT !.shown = TRUE]
               [] e.type = "decision" ->
                    IF ~row.shown THEN row
                    ELSE [row EXCEPT !.decision = IF @ = None THEN e.value ELSE @,
                                     !.approvalId = @ \/ e.value = "PENDING_APPROVAL"]
               [] e.type = "approval:required" -> [row EXCEPT !.shown = TRUE, !.approvalId = TRUE]
               [] e.type = "execution" ->
                    IF ~row.shown THEN row
                    ELSE [row EXCEPT !.result = TRUE, !.approvalId = FALSE]
  IN  IF e.id = None THEN rows ELSE [rows EXCEPT ![e.id] = new]

\* guardrailReducer's effect on the rows.
reduced(e) ==
  LET row == rows[e.id]
      new == CASE e.type = "proposal" -> [row EXCEPT !.shown = TRUE]
               [] e.type = "decision" ->
                    IF ~row.shown THEN row
                    ELSE [row EXCEPT !.decision = e.value,
                                     !.approvalId = @ \/ e.value = "PENDING_APPROVAL"]
               [] e.type = "approval:required" -> [row EXCEPT !.shown = TRUE, !.approvalId = TRUE]
               [] e.type = "execution" ->
                    IF ~row.shown THEN row
                    ELSE [row EXCEPT !.result = TRUE, !.approvalId = FALSE]
  IN  IF e.id = None THEN rows ELSE [rows EXCEPT ![e.id] = new]

gateOpen(row) == row.approvalId /\ ~row.result

\* Mutation of Receive: the end of a turn is not looked at.
ReceiveNoEnd ==
  /\ wire # <<>>
  /\ wire' = Tail(wire)
  /\ rows' = reduced(Head(wire))
  /\ running' = (running \/ Head(wire).type = "turn:start")
  /\ busy' = [p \in Ids |-> IF gateOpen(rows'[p]) THEN busy[p] ELSE None]
  /\ elapsed' = [p \in Ids |-> IF gateOpen(rows'[p]) THEN elapsed[p] ELSE 0]
  /\ UNCHANGED <<serverVars, joined, conv, sending, timeout, waited, timeoutFor, posts, missed,
                 broken, losses>>

\* A row whose gate closes drops its buttons, what they wait for and the countdown.
Receive ==
  /\ wire # <<>>
  /\ wire' = Tail(wire)
  /\ rows' = reduced(Head(wire))
  /\ running' = CASE Head(wire).type = "turn:start" -> TRUE
                  [] Head(wire).type \in {"turn:end", "error"} -> FALSE
                  [] OTHER -> running
  /\ busy' = [p \in Ids |-> IF gateOpen(rows'[p]) THEN busy[p] ELSE None]
  /\ elapsed' = [p \in Ids |-> IF gateOpen(rows'[p]) THEN elapsed[p] ELSE 0]
  /\ UNCHANGED <<serverVars, joined, conv, sending, timeout, waited, timeoutFor, posts, missed,
                 broken, losses>>

\* The socket has (re)connected and the server handles its `join'.
Join ==
  /\ ~joined
  /\ joined' = TRUE
  /\ UNCHANGED <<serverVars, wire, tab, posts, missed, broken, losses, clocks>>

underWay == {wire[i].turn : i \in DOMAIN wire}

Disconnect ==
  /\ joined /\ losses < MaxLosses
  /\ losses' = losses + 1
  /\ joined' = FALSE /\ wire' = <<>>
  /\ missed' = missed \cup underWay
  /\ UNCHANGED <<serverVars, tab, posts, broken, clocks>>

-----------------------------------------------------------------------------
(* The operator (console.tsx, proposal-row.tsx)                            *)

\* send(): the message is shown and `running' set before the request is out.
Send(t) ==
  /\ sending = None
  /\ turn[t].pc = "unsent"
  /\ turn' = [turn EXCEPT ![t].pc = "posted", ![t].conv = conv]
  /\ sending' = t
  /\ running' = TRUE
  /\ UNCHANGED <<decision, executed, pending, verdict, joined, wire, conv, rows, busy, posts,
                 missed, broken, losses, clocks>>

\* The request returns, or fails: it may not have reached the server, or the turn goes
\* on without it.
SendReturns ==
  /\ sending # None
  /\ sending' = None
  /\ IF turn[sending].pc = "posted" THEN \/ UNCHANGED <<turn, broken>>
                                         \/ moves(sending, "ended") /\ broken' = broken \cup {sending}
     ELSE UNCHANGED <<turn, broken>>
  /\ UNCHANGED <<decision, executed, pending, verdict, joined, wire, conv, rows, running, busy,
                 posts, missed, losses, clocks>>

\* Mutation of NewSession: the timeline is not reset.
NewSessionKeepsRows ==
  /\ conv < MaxSessions
  /\ conv' = conv + 1
  /\ running' = FALSE /\ busy' = [p \in Ids |-> None] /\ elapsed' = [p \in Ids |-> 0]
  /\ joined' = FALSE /\ wire' = <<>>
  /\ missed' = missed \cup underWay
  /\ UNCHANGED <<serverVars, rows, sending, timeout, waited, timeoutFor, posts, broken, losses>>

\* reset(), and the effect's cleanup: the old socket is closed, a new one is made.
NewSession ==
  /\ conv < MaxSessions
  /\ conv' = conv + 1
  /\ rows' = [p \in Ids |-> NoRow] /\ running' = FALSE /\ busy' = [p \in Ids |-> None]
  /\ elapsed' = [p \in Ids |-> 0]
  /\ joined' = FALSE /\ wire' = <<>>
  /\ missed' = missed \cup underWay
  /\ UNCHANGED <<serverVars, sending, timeout, waited, timeoutFor, posts, broken, losses>>

\* The rules are read once, when the console is mounted.  Of the rows for a tool the last
\* one counts, a switched-off one too, so it need not be the rule that holds a call; a
\* request that fails leaves no countdown.
LoadRules ==
  /\ timeoutFor = [tool \in Tools |-> None]
  /\ timeoutFor' \in [Tools -> Timeouts \cup {None}]
  /\ UNCHANGED <<serverVars, joined, wire, tab, timeout, waited, elapsed, posts, missed, broken,
                 losses>>

approvalTimeout(p) == timeoutFor[toolName[p]]
expired(p) == approvalTimeout(p) # None /\ elapsed[p] >= approvalTimeout(p)

\* Mutation of countsDown: the countdown starts with the row.
countsDownEarly(p) ==
  rows[p].shown /\ ~rows[p].result /\ approvalTimeout(p) # None /\ ~expired(p)

\* The gate is there, and its interval ticks.
countsDown(p) == gateOpen(rows[p]) /\ approvalTimeout(p) # None /\ ~expired(p)

\* A second goes by: for the timer of p, and for its gate, unless the browser is late.
Second(p) ==
  /\ waited' = IF waited[p] < timeout[p] THEN [waited EXCEPT ![p] = @ + 1] ELSE waited
  /\ \/ UNCHANGED elapsed
     \/ countsDown(p) /\ elapsed' = [elapsed EXCEPT ![p] = @ + 1]
  /\ UNCHANGED <<serverVars, joined, wire, tab, timeout, timeoutFor, posts, missed, broken,
                 losses>>

\* A click on Approve or Deny.
respond(p, v) ==
  /\ gateOpen(rows[p]) /\ busy[p] = None /\ ~expired(p)
  /\ busy' = [busy EXCEPT ![p] = v]
  /\ posts' = posts \cup {<<p, v>>}
  /\ UNCHANGED <<serverVars, joined, wire, conv, rows, running, sending, clocks, missed, broken,
                 losses>>

\* POST /approvals/:id at the server.  A 200 leaves the buttons waiting for the stream, a
\* 404 or a lost reply gives them back.
resolve(p, v) ==
  LET unlocked == [busy EXCEPT ![p] = IF @ = v THEN None ELSE @]
  IN  /\ <<p, v>> \in posts
      /\ posts' = posts \ {<<p, v>>}
      /\ IF p \in pending THEN /\ unpark(p)
                               /\ verdict' = [verdict EXCEPT ![p] = v]
                               /\ busy' \in {busy, unlocked}
         ELSE /\ UNCHANGED <<pending, verdict, timeout, waited>>
              /\ busy' = unlocked
      /\ UNCHANGED <<turn, decision, executed, joined, wire, conv, rows, running, sending, missed,
                     broken, losses, timeoutFor, elapsed>>

\* Mutation of GiveUp: the buttons stay locked.
GiveUpLocked(p, v) ==
  /\ <<p, v>> \in posts /\ busy[p] = v
  /\ posts' \in {posts, posts \ {<<p, v>>}}
  /\ UNCHANGED <<serverVars, joined, wire, tab, missed, broken, losses, clocks>>

\* The request fails in the browser; it may reach the server all the same, or never.
GiveUp(p, v) ==
  /\ <<p, v>> \in posts /\ busy[p] = v
  /\ busy' = [busy EXCEPT ![p] = None]
  /\ posts' \in {posts, posts \ {<<p, v>>}}
  /\ UNCHANGED <<serverVars, joined, wire, conv, rows, running, sending, clocks, missed, broken,
                 losses>>

\* The server process dies, and with it its turns, its Map and its sockets.
Restart ==
  /\ losses < MaxLosses
  /\ losses' = losses + 1
  /\ turn' = [t \in Turns |-> IF turn[t].pc \in Active THEN [turn[t] EXCEPT !.pc = "ended"]
                              ELSE turn[t]]
  /\ broken' = broken \cup {t \in Turns : turn[t].pc \in Active}
  /\ pending' = {} /\ timeout' = [p \in Ids |-> 0] /\ waited' = [p \in Ids |-> 0]
  /\ joined' = FALSE /\ wire' = <<>>
  /\ missed' = missed \cup underWay
  /\ UNCHANGED <<decision, executed, verdict, tab, posts, timeoutFor, elapsed>>

TurnStep(t) ==
  \/ Start(t) \/ Propose(t) \/ Resume(t) \/ Execute(t) \/ End(t) \/ Throw(t)
  \/ \E status \in Statuses : Decide(t, status)

ConsoleNext ==
  \/ \E t \in Turns : TurnStep(t) \/ Send(t)
  \/ SendReturns \/ NewSession \/ LoadRules
  \/ Receive \/ Join \/ Disconnect \/ Restart
  \/ \E p \in Ids : Second(p)
  \/ \E p \in Ids, v \in Verdicts : Fallback(p, v) \/ respond(p, v) \/ resolve(p, v) \/ GiveUp(p, v)

ConsoleSpec == ConsoleInit /\ [][ConsoleNext]_consoleVars

-----------------------------------------------------------------------------
(* Properties                                                              *)

\* The tab follows turn t and has seen all the server said of it so far.
caughtUp(t) == turn[t].conv = conv /\ t \notin missed /\ t \notin underWay

\* The calls that were handed to a human.
held == {p \in Ids : decision[p] = "PENDING_APPROVAL" \/ verdict[p] # None}

\* A tab that missed nothing shows what the server decided and what came of it, however
\* often the connection broke before and whichever turns of other sessions are running.
\* The gate of a held call is open until an execution closes it: the gate of a call that
\* was denied, by its operator or by the timer, stays open for good.
RowsAreAccurate ==
  \A t \in Turns : caughtUp(t) =>
    \A n \in 1 .. MaxSteps :
      LET p == <<t, n>>
      IN  /\ rows[p].shown <=> p \in proposed
          /\ rows[p].decision = decision[p]
          /\ rows[p].result <=> p \in executed
          /\ gateOpen(rows[p]) <=> p \in held \ executed

\* A call that waits for a human has an open gate in such a tab, and its buttons are locked
\* for one of three reasons only: an answer is on its way, so that a request that failed
\* does not lock the operator out; the call's own time is up; or the tab counts from a
\* shorter timeout than that of the rule which holds the call.
PendingIsAnswerable ==
  \A p \in pending : caughtUp(p[1]) =>
    /\ gateOpen(rows[p])
    /\ busy[p] # None => <<p, busy[p]>> \in posts
    /\ expired(p) => waited[p] = timeout[p] \/ approvalTimeout(p) < timeout[p]

\* Rows only ever tell of the conversation the tab is in.
RowsOfThisSession == \A p \in Ids : rows[p].shown => turn[p[1]].conv = conv

\* When nothing is under way the tab is not left "Working through the guardrail…", unless a
\* turn threw or never started.
RunningIsExplained ==
  running /\ wire = <<>> =>
    \E t \in Turns : /\ turn[t].conv = conv
                     /\ (turn[t].pc \in Active \cup {"posted"} \/ t \in missed \cup broken)
=============================================================================
