------------------------- MODULE ConversationHistory -------------------------
(***************************************************************************)
(* One conversation as the agent keeps it: ConversationStore of            *)
(* packages/agent/src/conversationStore.ts with proposeNextStep of         *)
(* packages/agent/src/orchestrator.ts, which appends to its history and    *)
(* sends the history to the model.  Turns of the conversation may overlap: *)
(* nothing keeps a second POST from starting while the first one waits for *)
(* the model, a tool or a human.                                           *)
(*                                                                         *)
(* What the server does between two calls of proposeNextStep (GuardedTurn) *)
(* is here one step: the call is answered, or the turn is cut short by an  *)
(* exception and its call stays unanswered.                                *)
(*                                                                         *)
(* The model's API is external.  The ids the code threads through the      *)
(* history are there for its contract: an assistant message with a call is *)
(* directly followed by the tool message that answers it.                  *)
(***************************************************************************)
EXTENDS Integers, Sequences, FiniteSets

CONSTANTS
  Turns,         \* the turns of the conversation
  MaxSteps,      \* maxSteps of runTurn
  MaxRestarts    \* bound: restarts of the server process

ASSUME HistoryAssumption == IsFiniteSet(Turns) /\ MaxSteps \in Nat /\ MaxRestarts \in Nat

VARIABLES
  messages,       \* record.messages, oldest first
  toolCallsMade,  \* record.toolCallsMade
  turn,           \* turn[t]: where turn t is, its step, how much of the history it sent
  disturbed,      \* history: turns overlapped or were cut short since the process began
  restarts        \* history: number of restarts

vars == <<messages, toolCallsMade, turn, disturbed, restarts>>

\* A call and its answer carry the id of the proposal, a UUID: the turn and its step
\* name one.  success matters in a tool message only.
message(role, t, step, success) == [role |-> role, turn |-> t, step |-> step, success |-> success]
Message == [role : {"user", "text", "call", "tool"}, turn : Turns, step : 0 .. MaxSteps,
            success : BOOLEAN]

Running == {"thinking", "working"}
Pcs == {"idle", "replied", "capped", "refused", "failed"} \cup Running

TypeOK ==
  /\ messages \in Seq(Message)
  /\ toolCallsMade \in Nat
  /\ turn \in [Turns -> [pc : Pcs, step : 0 .. MaxSteps, sent : Nat]]
  /\ disturbed \in BOOLEAN
  /\ restarts \in 0 .. MaxRestarts

Init ==
  /\ messages = <<>>
  /\ toolCallsMade = 0
  /\ turn = [t \in Turns |-> [pc |-> "idle", step |-> 0, sent |-> 0]]
  /\ disturbed = FALSE
  /\ restarts = 0

-----------------------------------------------------------------------------
(* The model                                                               *)

answers(m, c) == /\ m.role = "tool" /\ c.role = "call"
                 /\ m.turn = c.turn /\ m.step = c.step

\* What the model's API takes: every call directly followed by its answer, every
\* answer directly preceded by its call.
Acceptable(n) ==
  \A i \in 1 .. n :
    /\ messages[i].role = "call" => i < n /\ answers(messages[i + 1], messages[i])
    /\ messages[i].role = "tool" => i > 1 /\ answers(messages[i], messages[i - 1])

\* The request takes a copy of the history of this moment.
Ask(t, pc0, step, said) ==
  /\ messages' = Append(messages, said)
  /\ turn' = [turn EXCEPT ![t] = [pc |-> pc0, step |-> step, sent |-> Len(messages) + 1]]

-----------------------------------------------------------------------------
(* Turns                                                                   *)

\* proposeNextStep(conversationId, userMessage, null, tools)
Begin(t) ==
  /\ turn[t].pc = "idle"
  /\ Ask(t, "thinking", 0, message("user", t, 0, FALSE))
  /\ disturbed' = (disturbed \/ \E u \in Turns : turn[u].pc \in Running)
  /\ UNCHANGED <<toolCallsMade, restarts>>

\* The model answers a request it accepted.
Answered(t) == turn[t].pc = "thinking" /\ Acceptable(turn[t].sent)

ReplyText(t) ==
  /\ Answered(t)
  /\ messages' = Append(messages, message("text", t, turn[t].step, FALSE))
  /\ turn' = [turn EXCEPT ![t].pc = IF turn[t].step < MaxSteps THEN "replied" ELSE "capped"]
  /\ UNCHANGED <<toolCallsMade, disturbed, restarts>>

\* The call goes into the history before anybody looks at it; after the last step
\* nobody does, and it stays there unanswered.
ReplyCall(t) ==
  /\ Answered(t)
  /\ messages' = Append(messages, message("call", t, turn[t].step, FALSE))
  /\ turn' = [turn EXCEPT ![t].pc = IF turn[t].step < MaxSteps THEN "working" ELSE "capped"]
  /\ disturbed' = (disturbed \/ turn[t].step = MaxSteps)
  /\ UNCHANGED <<toolCallsMade, restarts>>

\* Mutation of ReplyUnknownTool: the call is in the history when the error is thrown.
ReplyUnknownToolKept(t) ==
  /\ Answered(t)
  /\ messages' = Append(messages, message("call", t, turn[t].step, FALSE))
  /\ turn' = [turn EXCEPT ![t].pc = "failed"]
  /\ UNCHANGED <<toolCallsMade, disturbed, restarts>>

\* The model names a tool nobody offers: proposeNextStep throws and appends nothing.
ReplyUnknownTool(t) ==
  /\ Answered(t)
  /\ turn' = [turn EXCEPT ![t].pc = "failed"]
  /\ UNCHANGED <<messages, toolCallsMade, disturbed, restarts>>

\* The API refuses the history (a 400), which callModel throws on.
Refuse(t) ==
  /\ turn[t].pc = "thinking" /\ ~Acceptable(turn[t].sent)
  /\ turn' = [turn EXCEPT ![t].pc = "refused"]
  /\ UNCHANGED <<messages, toolCallsMade, disturbed, restarts>>

\* The request fails for a reason of its own: no key, no network, a timeout.
ModelFails(t) ==
  /\ turn[t].pc = "thinking"
  /\ turn' = [turn EXCEPT ![t].pc = "failed"]
  /\ UNCHANGED <<messages, toolCallsMade, disturbed, restarts>>

\* Mutations of FeedBack: only the result of a call that succeeded is fed back; every
\* result counts as a call made.
FeedBackSuccessOnly(t, success) ==
  /\ turn[t].pc = "working"
  /\ IF success THEN Ask(t, "thinking", turn[t].step + 1, message("tool", t, turn[t].step, TRUE))
     ELSE /\ turn' = [turn EXCEPT ![t] = [pc |-> "thinking", step |-> @.step + 1,
                                          sent |-> Len(messages)]]
          /\ UNCHANGED messages
  /\ toolCallsMade' = IF success THEN toolCallsMade + 1 ELSE toolCallsMade
  /\ UNCHANGED <<disturbed, restarts>>
FeedBackCountsAll(t, success) ==
  /\ turn[t].pc = "working"
  /\ Ask(t, "thinking", turn[t].step + 1, message("tool", t, turn[t].step, success))
  /\ toolCallsMade' = toolCallsMade + 1
  /\ UNCHANGED <<disturbed, restarts>>

\* proposeNextStep(conversationId, null, result, tools): the result, a denial too,
\* answers the call it belongs to; the next request follows.
FeedBack(t, success) ==
  /\ turn[t].pc = "working"
  /\ Ask(t, "thinking", turn[t].step + 1, message("tool", t, turn[t].step, success))
  /\ toolCallsMade' = IF success THEN toolCallsMade + 1 ELSE toolCallsMade
  /\ UNCHANGED <<disturbed, restarts>>

\* An audit append throws and takes the turn with it: nothing answers its call.
CutShort(t) ==
  /\ turn[t].pc = "working"
  /\ turn' = [turn EXCEPT ![t].pc = "failed"]
  /\ disturbed' = TRUE
  /\ UNCHANGED <<messages, toolCallsMade, restarts>>

\* The store is a Map of the process.
Restart ==
  /\ restarts < MaxRestarts
  /\ restarts' = restarts + 1
  /\ messages' = <<>>
  /\ toolCallsMade' = 0
  /\ turn' = [t \in Turns |-> IF turn[t].pc \in Running
                              THEN [turn[t] EXCEPT !.pc = "failed"] ELSE turn[t]]
  /\ disturbed' = FALSE

Next ==
  \/ \E t \in Turns :
       \/ Begin(t) \/ ReplyText(t) \/ ReplyCall(t) \/ ReplyUnknownTool(t)
       \/ Refuse(t) \/ ModelFails(t) \/ CutShort(t)
       \/ \E success \in BOOLEAN : FeedBack(t, success)
  \/ Restart

Spec == Init /\ [][Next]_vars

-----------------------------------------------------------------------------
(* Properties                                                              *)

Answer(i) == {j \in DOMAIN messages : answers(messages[j], messages[i])}

\* The model takes every request of a conversation whose turns never overlapped and
\* were never cut short or capped with a call open: on its own, a turn always threads
\* its answers the way the API asks for.
UndisturbedIsAccepted ==
  \A t \in Turns : turn[t].pc = "thinking" /\ ~disturbed => Acceptable(turn[t].sent)

\* However turns overlap, every answer in the history follows the one call it answers,
\* its turn says nothing in between, and no call is answered twice.
AnswersThread ==
  \A j \in DOMAIN messages : messages[j].role = "tool" =>
    \E i \in 1 .. j - 1 :
      /\ answers(messages[j], messages[i])
      /\ Answer(i) = {j}
      /\ \A k \in i + 1 .. j - 1 : messages[k].turn # messages[j].turn

\* A call stays unanswered only while its turn works on it, or because the turn was cut
\* short or capped at that very step: a turn that replied, and one that asks the model
\* anew, has answered all its calls.
OpenCallsAreExplained ==
  \A i \in DOMAIN messages : messages[i].role = "call" /\ Answer(i) = {} =>
    LET u == turn[messages[i].turn]
    IN  u.step = messages[i].step /\ u.pc \in {"working", "capped", "failed"}

\* Overlapping turns may put a history into an order the model refuses, but they lose and
\* invent nothing: every answer is to one call of its own turn, and the calls without an
\* answer are those some turn is at, or was at when it ended early.
HistoryThreads == AnswersThread /\ OpenCallsAreExplained

\* The tally the budget rules see is the number of calls that succeeded according to
\* the history the model sees: denied and failed calls are in it and do not count.
TallyMatchesHistory ==
  toolCallsMade = Cardinality({i \in DOMAIN messages :
                                 messages[i].role = "tool" /\ messages[i].success})
=============================================================================
