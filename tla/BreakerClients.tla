--------------------------- MODULE BreakerClients ---------------------------
(***************************************************************************)
(* The one breaker of the server process and the tool calls that feed it.  *)
(*                                                                         *)
(* A call is admitted by evaluate (policy-engine/src/evaluate.ts:43) and   *)
(* reaches the transport later: the semantic firewall, two audit appends   *)
(* and perhaps a human lie in between, so the breaker may open while the   *)
(* call is on its way.  The registry's hooks (server/src/mcp.ts and        *)
(* mcp-client/src/registry.ts) report how the transport went.              *)
(***************************************************************************)
EXTENDS CircuitBreaker, FiniteSets

CONSTANTS
  Servers,   \* the connected MCP servers
  Callers    \* the turns that may have a call under way at the same time

ASSUME CallersAssumption == IsFiniteSet(Callers)

VARIABLES
  breaker,   \* breaker[s]: the breaker's state for server s
  calls,     \* calls[s]: the callers whose call to s was admitted or is at the transport
  sent,      \* those of them whose call is at the transport
  streak     \* history: transport failures of s in a row, counted up to Threshold

vars == <<breaker, calls, sent, streak>>

Idle == {c \in Callers : \A s \in Servers : c \notin calls[s]}

TypeOK ==
  /\ breaker \in [Servers -> BreakerState]
  /\ calls \in [Servers -> SUBSET Callers]
  /\ sent \subseteq Callers
  /\ streak \in [Servers -> 0 .. Threshold]

Init ==
  /\ breaker = [s \in Servers |-> Closed]
  /\ calls = [s \in Servers |-> {}]
  /\ sent = {}
  /\ streak = [s \in Servers |-> 0]

-----------------------------------------------------------------------------
(* evaluate's first tier                                                   *)

\* Mutation of Admit: nobody asks the breaker.
AdmitAnyway(c, s) ==
  /\ c \in Idle
  /\ calls' = [calls EXCEPT ![s] = @ \cup {c}]
  /\ UNCHANGED <<breaker, sent, streak>>

\* Not open: the call goes on.  (Open: it is denied before any rule runs, and
\* nothing changes.)
Admit(c, s) ==
  /\ c \in Idle
  /\ ~isOpen(breaker[s])
  /\ breaker' = [breaker EXCEPT ![s] = afterIsOpen(@)]
  /\ calls' = [calls EXCEPT ![s] = @ \cup {c}]
  /\ UNCHANGED <<sent, streak>>

-----------------------------------------------------------------------------
(* executeTool                                                             *)

\* Mutation of Drop: a call that was never sent counts as a success.
DropReports(c, s) ==
  /\ c \in calls[s] \ sent
  /\ breaker' = [breaker EXCEPT ![s] = recordSuccess(@)]
  /\ calls' = [calls EXCEPT ![s] = @ \ {c}]
  /\ UNCHANGED <<sent, streak>>

\* The admitted call is dropped: denied by a later tier or a human, its turn
\* failed, or the server is no longer connected.  No hook is called.
Drop(c, s) ==
  /\ c \in calls[s] \ sent
  /\ calls' = [calls EXCEPT ![s] = @ \ {c}]
  /\ UNCHANGED <<breaker, sent, streak>>

Send(c, s) ==
  /\ c \in calls[s] \ sent
  /\ sent' = sent \cup {c}
  /\ UNCHANGED <<breaker, calls, streak>>

\* client.callTool threw: onTransportError, recordFailure.
Fail(c, s) ==
  /\ c \in calls[s] \cap sent
  /\ breaker' = [breaker EXCEPT ![s] = recordFailure(@)]
  /\ calls' = [calls EXCEPT ![s] = @ \ {c}]
  /\ sent' = sent \ {c}
  /\ streak' = [streak EXCEPT ![s] = IF @ < Threshold THEN @ + 1 ELSE @]

\* client.callTool returned, with a tool error or without: onTransportSuccess.
Succeed(c, s) ==
  /\ c \in calls[s] \cap sent
  /\ breaker' = [breaker EXCEPT ![s] = recordSuccess(@)]
  /\ calls' = [calls EXCEPT ![s] = @ \ {c}]
  /\ sent' = sent \ {c}
  /\ streak' = [streak EXCEPT ![s] = 0]

-----------------------------------------------------------------------------
(* The environment                                                         *)

Tick ==
  /\ breaker' = [s \in Servers |-> aged(breaker[s])]
  /\ UNCHANGED <<calls, sent, streak>>

\* The breaker is process-local: a restart forgets it, and the calls under way.
Restart ==
  /\ breaker' = [s \in Servers |-> Closed]
  /\ calls' = [s \in Servers |-> {}]
  /\ sent' = {}
  /\ streak' = [s \in Servers |-> 0]

CallStep(c, s) ==
  Admit(c, s) \/ Drop(c, s) \/ Send(c, s) \/ Fail(c, s) \/ Succeed(c, s)

Next == Tick \/ Restart \/ \E c \in Callers, s \in Servers : CallStep(c, s)

Spec == Init /\ [][Next]_vars

\* Time passes, and a call under way ends: the transport has a request timeout, the
\* steps before it are bounded by the approval timeout.  Nobody is obliged to call.
FairSpec ==
  /\ Spec
  /\ WF_vars(Tick)
  /\ \A c \in Callers :
       /\ WF_vars(\E s \in Servers : Drop(c, s) \/ Send(c, s))
       /\ WF_vars(\E s \in Servers : Fail(c, s) \/ Succeed(c, s))

-----------------------------------------------------------------------------
(* Properties                                                              *)

\* recordFailure's two fields stay in step: the breaker is open exactly while the
\* count is at the threshold, so no close path may reset one without the other.
OpenExactlyAtThreshold ==
  \A s \in Servers :
    breaker[s].openFor # NotOpen <=> breaker[s].failureCount >= Threshold

\* README.md:88: it opens "after 5 consecutive failures".  A server is cut off only
\* if its last Threshold reported calls all failed, whatever order the reports of
\* concurrent calls arrive in and whichever of them were admitted before a close.
OpenNeedsStreak ==
  \A s \in Servers : breaker[s].openFor # NotOpen => streak[s] = Threshold

\* Calls already on their way when the breaker opens still run, but they are the only
\* ones: failures recorded and calls under way never add up to more than one short
\* of the threshold plus one call per turn.
LateFailuresBounded ==
  \A s \in Servers :
    breaker[s].failureCount + Cardinality(calls[s]) <= Threshold - 1 + Cardinality(Callers)

\* A breaker that is open closes only when a call succeeds, after the whole cooldown
\* (by a call that asks), or by a restart.
ClosesOnlyOnRecovery ==
  [][\A s \in Servers :
       breaker[s].openFor # NotOpen /\ breaker'[s].openFor = NotOpen =>
         \/ Restart
         \/ breaker[s].openFor = Cooldown /\ \E c \in Callers : c \in calls'[s] \ calls[s]
         \/ \E c \in calls[s] \cap sent : c \notin calls'[s] /\ streak'[s] = 0]_vars

\* No server is cut off for good: while there is a demand for its tools, an open
\* breaker closes again, also when it opens with every caller busy.
Demand(s) == SF_vars(\E c \in Callers : Admit(c, s))
NeverCutOffForGood ==
  \A s \in Servers :
    Demand(s) => (breaker[s].openFor # NotOpen ~> breaker[s].openFor = NotOpen)
=============================================================================
