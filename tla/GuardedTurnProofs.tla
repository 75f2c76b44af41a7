-------------------------- MODULE GuardedTurnProofs --------------------------
(***************************************************************************)
(* Proofs about GuardedTurn, for any number of turns, conversations, rules *)
(* and steps.                                                              *)
(***************************************************************************)
EXTENDS GuardedTurn, PolicyEngineProofs, FiniteSetTheorems

-----------------------------------------------------------------------------
(* The locals of a turn                                                    *)

\* Where a turn has a call in hand, and where that call has been evaluated.
Evaluated == {"judging", "deciding", "decided", "parked", "resolving", "resolved",
              "calling", "reporting", "reported"}
InCall == {"proposing", "proposed"} \cup Evaluated

\* How the locals of a turn hang together.
Coherent(s) ==
  /\ s.pc \in InCall => s.call \in Calls /\ s.step < MaxSteps
  /\ s.pc \in Evaluated => s.decision \in Decision /\ s.signed = s.decision.status
  /\ s.pc \in {"judging", "calling", "reporting", "reported"} => s.decision.status = "ALLOW"
  /\ s.pc = "parked" => s.decision.status = "PENDING_APPROVAL"
  /\ s.pc \in {"resolving", "resolved"} => s.decision.status \in {"ALLOW", "DENY"}

TypeInv == TypeOK /\ \A t \in Turns : Coherent(turn[t])

USE GuardedTurnAssumption

\* What a step of turn t does to the locals: nothing to the other turns', and its own
\* stay well-typed and coherent.
StepsTo(t, s) == turn' = [turn EXCEPT ![t] = s] /\ s \in TurnState /\ Coherent(s)

LEMMA TurnFacts ==
  ASSUME TypeInv, NEW t \in Turns
  PROVE  turn[t] \in TurnState /\ Coherent(turn[t]) /\ turn \in [Turns -> TurnState]
  BY DEF TypeInv, TypeOK

LEMMA StartLocals ==
  ASSUME TypeInv, NEW t \in Turns, Start(t)
  PROVE  StepsTo(t, [turn[t] EXCEPT !.pc = "thinking"])
<1> DEFINE s == [turn[t] EXCEPT !.pc = "thinking"]
<1>1. turn[t] \in TurnState /\ Coherent(turn[t]) /\ turn \in [Turns -> TurnState]
  BY TurnFacts
<1>2. turn' = [turn EXCEPT ![t] = s]
  BY <1>1 DEF Start
<1>3. s \in TurnState /\ Coherent(s)
  BY <1>1 DEF Start, TurnState, Coherent, Pcs, InCall, Evaluated, Ended, Recording, Recorded, Statuses
<1> QED BY <1>2, <1>3 DEF StepsTo

LEMMA ReplyTextLocals ==
  ASSUME TypeInv, NEW t \in Turns, ReplyText(t)
  PROVE  StepsTo(t, [turn[t] EXCEPT !.pc = IF turn[t].step < MaxSteps THEN "done" ELSE "maxsteps"])
<1> DEFINE s == [turn[t] EXCEPT !.pc = IF turn[t].step < MaxSteps THEN "done" ELSE "maxsteps"]
<1>1. turn[t] \in TurnState /\ Coherent(turn[t]) /\ turn \in [Turns -> TurnState]
  BY TurnFacts
<1>2. turn' = [turn EXCEPT ![t] = s]
  BY <1>1 DEF ReplyText
<1>3. s \in TurnState /\ Coherent(s)
  BY <1>1 DEF ReplyText, TurnState, Coherent, Pcs, InCall, Evaluated, Ended, Recording, Recorded, Statuses
<1> QED BY <1>2, <1>3 DEF StepsTo

LEMMA ReplyCallLocals ==
  ASSUME TypeInv, NEW t \in Turns, NEW c \in Calls, ReplyCall(t, c)
  PROVE  StepsTo(t, IF turn[t].step < MaxSteps
                    THEN [turn[t] EXCEPT !.pc = "proposing", !.call = c]
                    ELSE [turn[t] EXCEPT !.pc = "maxsteps"])
<1> DEFINE s == IF turn[t].step < MaxSteps
                    THEN [turn[t] EXCEPT !.pc = "proposing", !.call = c]
                    ELSE [turn[t] EXCEPT !.pc = "maxsteps"]
<1>1. turn[t] \in TurnState /\ Coherent(turn[t]) /\ turn \in [Turns -> TurnState]
  BY TurnFacts
<1>2. turn' = [turn EXCEPT ![t] = s]
  BY <1>1 DEF ReplyCall
<1>3. s \in TurnState /\ Coherent(s)
  BY <1>1 DEF ReplyCall, TurnState, Coherent, Pcs, InCall, Evaluated, Ended, Recording, Recorded, Statuses
<1> QED BY <1>2, <1>3 DEF StepsTo

LEMMA ReplyUnusableLocals ==
  ASSUME TypeInv, NEW t \in Turns, ReplyUnusable(t)
  PROVE  StepsTo(t, [turn[t] EXCEPT !.pc = "failed"])
<1> DEFINE s == [turn[t] EXCEPT !.pc = "failed"]
<1>1. turn[t] \in TurnState /\ Coherent(turn[t]) /\ turn \in [Turns -> TurnState]
  BY TurnFacts
<1>2. turn' = [turn EXCEPT ![t] = s]
  BY <1>1 DEF ReplyUnusable
<1>3. s \in TurnState /\ Coherent(s)
  BY <1>1 DEF ReplyUnusable, TurnState, Coherent, Pcs, InCall, Evaluated, Ended, Recording, Recorded, Statuses
<1> QED BY <1>2, <1>3 DEF StepsTo

LEMMA RecordLocals ==
  ASSUME TypeInv, NEW t \in Turns, Record(t)
  PROVE  StepsTo(t, [turn[t] EXCEPT !.pc = after(turn[t].pc)])
<1> DEFINE s == [turn[t] EXCEPT !.pc = after(turn[t].pc)]
<1>1. turn[t] \in TurnState /\ Coherent(turn[t]) /\ turn \in [Turns -> TurnState]
  BY TurnFacts
<1>2. turn' = [turn EXCEPT ![t] = s]
  BY <1>1 DEF Record, after
<1>3. s \in TurnState /\ Coherent(s)
  BY <1>1 DEF Record, after, TurnState, Coherent, Pcs, InCall, Evaluated, Ended, Recording, Recorded, Statuses
<1> QED BY <1>2, <1>3 DEF StepsTo

LEMMA RecordFailsLocals ==
  ASSUME TypeInv, NEW t \in Turns, RecordFails(t)
  PROVE  StepsTo(t, [turn[t] EXCEPT !.pc = "failed"])
<1> DEFINE s == [turn[t] EXCEPT !.pc = "failed"]
<1>1. turn[t] \in TurnState /\ Coherent(turn[t]) /\ turn \in [Turns -> TurnState]
  BY TurnFacts
<1>2. turn' = [turn EXCEPT ![t] = s]
  BY <1>1 DEF RecordFails
<1>3. s \in TurnState /\ Coherent(s)
  BY <1>1 DEF RecordFails, TurnState, Coherent, Pcs, InCall, Evaluated, Ended, Recording, Recorded, Statuses
<1> QED BY <1>2, <1>3 DEF StepsTo

LEMMA ResolveLocals ==
  ASSUME TypeInv, NEW t \in Turns, NEW v \in {"ALLOW", "DENY"}, Resolve(t, v)
  PROVE  StepsTo(t, [turn[t] EXCEPT !.pc = "resolving", !.decision.status = v,
                                   !.signed = v])
<1> DEFINE s == [turn[t] EXCEPT !.pc = "resolving", !.decision.status = v,
                                   !.signed = v]
<1>1. turn[t] \in TurnState /\ Coherent(turn[t]) /\ turn \in [Turns -> TurnState]
  BY TurnFacts
<1>2. turn' = [turn EXCEPT ![t] = s]
  BY <1>1 DEF Resolve, Decision
<1>3. s \in TurnState /\ Coherent(s)
  BY <1>1 DEF Resolve, Decision, TurnState, Coherent, Pcs, InCall, Evaluated, Ended, Recording, Recorded, Statuses
<1> QED BY <1>2, <1>3 DEF StepsTo

LEMMA BreakLocals ==
  ASSUME TypeInv, NEW t \in Turns, Break(t)
  PROVE  StepsTo(t, [turn[t] EXCEPT !.pc = "reporting", !.success = FALSE])
<1> DEFINE s == [turn[t] EXCEPT !.pc = "reporting", !.success = FALSE]
<1>1. turn[t] \in TurnState /\ Coherent(turn[t]) /\ turn \in [Turns -> TurnState]
  BY TurnFacts
<1>2. turn' = [turn EXCEPT ![t] = s]
  BY <1>1 DEF Break
<1>3. s \in TurnState /\ Coherent(s)
  BY <1>1 DEF Break, TurnState, Coherent, Pcs, InCall, Evaluated, Ended, Recording, Recorded, Statuses
<1> QED BY <1>2, <1>3 DEF StepsTo

\* What evaluate says of the call in hand.
Evaluation(t) == evaluate(turn[t].call, loaded[t], usage[conversation[t]], isOpen(breaker))

LEMMA EvaluationOK ==
  ASSUME TypeInv, NEW t \in Turns, turn[t].call \in Calls
  PROVE  /\ Evaluation(t) \in Decision
         /\ Evaluation(t).status
              = ReferenceStatus(turn[t].call, RuleSet(loaded[t]), usage[conversation[t]],
                                isOpen(breaker))
<1>1. IsRuleList(loaded[t])
  BY DEF TypeInv, TypeOK, IsRuleTable, IsRuleList
<1>2. isOpen(breaker) \in BOOLEAN /\ turn[t].call.suspicious \in BOOLEAN
  BY DEF isOpen
<1> QED BY <1>1, <1>2, StatusIsOrderFree DEF Evaluation

LEMMA EvaluateLocals ==
  ASSUME TypeInv, NEW t \in Turns, Evaluate(t)
  PROVE  /\ Evaluation(t) \in Decision
         /\ StepsTo(t, [turn[t] EXCEPT
                          !.decision = Evaluation(t), !.signed = Evaluation(t).status,
                          !.pc = IF Evaluation(t).status = "ALLOW" /\ SemanticGuard
                                 THEN "judging" ELSE "deciding"])
<1> DEFINE d == Evaluation(t)
           s == [turn[t] EXCEPT !.decision = d, !.signed = d.status,
                                !.pc = IF d.status = "ALLOW" /\ SemanticGuard
                                       THEN "judging" ELSE "deciding"]
<1>1. turn[t] \in TurnState /\ Coherent(turn[t]) /\ turn \in [Turns -> TurnState]
  BY TurnFacts
<1>2. turn[t].call \in Calls /\ turn[t].pc = "proposed"
  BY <1>1 DEF Evaluate, Coherent, InCall
<1>3. d \in Decision
  BY <1>2, EvaluationOK
<1>4. turn' = [turn EXCEPT ![t] = s]
  BY <1>1 DEF Evaluate, Evaluation
<1>5. d.status \in Statuses
  BY <1>3 DEF Decision, Statuses
<1> HIDE DEF d
<1>6. s \in TurnState
  BY <1>1, <1>3, <1>5 DEF TurnState, Pcs, Recording
<1>7. Coherent(s)
  <2>1. /\ s.pc \in {"judging", "deciding"} /\ (s.pc = "judging" => d.status = "ALLOW")
        /\ s.call = turn[t].call /\ s.step = turn[t].step
        /\ s.decision = d /\ s.signed = d.status
    BY <1>1 DEF TurnState
  <2>2. turn[t].call \in Calls /\ turn[t].step < MaxSteps
    BY <1>1, <1>2 DEF Coherent, InCall
  <2> HIDE DEF s
  <2> QED BY <1>3, <2>1, <2>2 DEF Coherent, InCall, Evaluated
<1> QED BY <1>3, <1>4, <1>6, <1>7 DEF StepsTo, d

LEMMA JudgeLocals ==
  ASSUME TypeInv, NEW t \in Turns, Judge(t)
  PROVE  \/ StepsTo(t, [turn[t] EXCEPT !.pc = "deciding"])
         \/ StepsTo(t, [turn[t] EXCEPT !.pc = "deciding",
                                       !.decision = Deny(Null), !.signed = "DENY"])
<1> DEFINE s == [turn[t] EXCEPT !.pc = "deciding"]
           r == [turn[t] EXCEPT !.pc = "deciding",
                                !.decision = Deny(Null), !.signed = "DENY"]
<1>1. turn[t] \in TurnState /\ Coherent(turn[t]) /\ turn \in [Turns -> TurnState]
  BY TurnFacts
<1>2. turn' = [turn EXCEPT ![t] = s] \/ turn' = [turn EXCEPT ![t] = r]
  BY <1>1 DEF Judge
<1>3. s \in TurnState /\ Coherent(s)
  BY <1>1 DEF Judge, TurnState, Coherent, Pcs, InCall, Evaluated, Ended, Recording, Recorded, Statuses
<1>4. Deny(Null) \in Decision /\ Deny(Null).status = "DENY"
  BY DEF Deny, Decision
<1> HIDE DEF Deny
<1>5. r \in TurnState /\ Coherent(r)
  BY <1>1, <1>4 DEF Judge, TurnState, Coherent, Pcs, InCall, Evaluated, Ended, Recording, Recorded, Statuses
<1> QED BY <1>2, <1>3, <1>5 DEF StepsTo

\* The locals after the result of a call was fed back.
fedBack(t) ==
  [turn[t] EXCEPT !.pc = "thinking", !.step = turn[t].step + 1, !.call = Null,
                  !.decision = Null, !.signed = Null, !.success = FALSE]

LEMMA FeedBackLocals ==
  ASSUME TypeInv, NEW t \in Turns, turn[t].pc \in InCall, NEW ok \in BOOLEAN, FeedBack(t, ok)
  PROVE  StepsTo(t, fedBack(t))
<1>1. turn[t] \in TurnState /\ Coherent(turn[t]) /\ turn \in [Turns -> TurnState]
  BY TurnFacts
<1>2. turn' = [turn EXCEPT ![t] = fedBack(t)]
  BY <1>1 DEF FeedBack, NextStep, fedBack
<1>3. turn[t].step + 1 \in 0 .. MaxSteps
  BY <1>1 DEF TurnState, Coherent
<1>4. fedBack(t) \in TurnState /\ Coherent(fedBack(t))
  BY <1>1, <1>3 DEF fedBack, TurnState, Coherent, Pcs, InCall, Evaluated, Ended, Recording, Recorded, Statuses
<1> QED BY <1>2, <1>4 DEF StepsTo

LEMMA ActLocals ==
  ASSUME TypeInv, NEW t \in Turns, Act(t)
  PROVE  \/ /\ turn[t].decision.status = "PENDING_APPROVAL" /\ turn[t].pc = "decided"
            /\ StepsTo(t, [turn[t] EXCEPT !.pc = "parked"])
            /\ UNCHANGED usage
         \/ /\ turn[t].decision.status = "ALLOW"
            /\ StepsTo(t, [turn[t] EXCEPT !.pc = "calling"])
            /\ UNCHANGED usage
         \/ /\ turn[t].decision.status = "DENY"
            /\ StepsTo(t, fedBack(t))
            /\ FeedBack(t, FALSE)
<1>1. turn[t] \in TurnState /\ Coherent(turn[t]) /\ turn \in [Turns -> TurnState]
  BY TurnFacts
<1>2. turn[t].pc \in {"decided", "resolved"}
  BY DEF Act
<1>3. turn[t].decision.status \in {"PENDING_APPROVAL", "ALLOW", "DENY"}
  BY <1>1, <1>2 DEF Coherent, Evaluated, Decision
<1>4. CASE turn[t].decision.status = "PENDING_APPROVAL"
  <2> DEFINE s == [turn[t] EXCEPT !.pc = "parked"]
  <2>1. turn' = [turn EXCEPT ![t] = s] /\ UNCHANGED usage
    BY <1>1, <1>4 DEF Act
  <2>2. s \in TurnState /\ Coherent(s) /\ turn[t].pc = "decided"
    BY <1>1, <1>2, <1>4 DEF TurnState, Coherent, Pcs, InCall, Evaluated, Ended, Recording, Recorded, Statuses
  <2> QED BY <1>4, <2>1, <2>2 DEF StepsTo
<1>5. CASE turn[t].decision.status = "ALLOW"
  <2> DEFINE s == [turn[t] EXCEPT !.pc = "calling"]
  <2>1. turn' = [turn EXCEPT ![t] = s] /\ UNCHANGED usage
    BY <1>1, <1>5 DEF Act
  <2>2. s \in TurnState /\ Coherent(s)
    BY <1>1, <1>2, <1>5 DEF TurnState, Coherent, Pcs, InCall, Evaluated, Ended, Recording, Recorded, Statuses
  <2> QED BY <1>5, <2>1, <2>2 DEF StepsTo
<1>6. CASE turn[t].decision.status = "DENY"
  <2>1. FeedBack(t, FALSE)
    BY <1>6 DEF Act
  <2>2. turn[t].pc \in InCall
    BY <1>2 DEF InCall, Evaluated
  <2> QED BY <1>6, <2>1, <2>2, FeedBackLocals
<1> QED BY <1>3, <1>4, <1>5, <1>6

LEMMA ReturnLocals ==
  ASSUME TypeInv, NEW t \in Turns, Return(t)
  PROVE  \E ok \in BOOLEAN : StepsTo(t, [turn[t] EXCEPT !.pc = "reporting", !.success = ok])
<1>1. turn[t] \in TurnState /\ Coherent(turn[t]) /\ turn \in [Turns -> TurnState]
  BY TurnFacts
<1>2. PICK ok \in BOOLEAN :
        turn' = [turn EXCEPT ![t].pc = "reporting", ![t].success = ok]
  BY DEF Return
<1> DEFINE s == [turn[t] EXCEPT !.pc = "reporting", !.success = ok]
<1>3. turn' = [turn EXCEPT ![t] = s]
  BY <1>1, <1>2
<1>4. s \in TurnState /\ Coherent(s)
  BY <1>1 DEF Return, TurnState, Coherent, Pcs, InCall, Evaluated, Ended, Recording, Recorded, Statuses
<1> QED BY <1>3, <1>4 DEF StepsTo

LEMMA ReportLocals ==
  ASSUME TypeInv, NEW t \in Turns, Report(t)
  PROVE  StepsTo(t, fedBack(t))
<1>1. turn[t].pc \in InCall /\ turn[t].success \in BOOLEAN /\ FeedBack(t, turn[t].success)
  BY TurnFacts DEF Report, InCall, Evaluated, TurnState
<1> QED BY <1>1, FeedBackLocals

-----------------------------------------------------------------------------
(* The type invariant                                                      *)

LEMMA InitType == Init => TypeInv
<1> SUFFICES ASSUME Init PROVE TypeInv
  OBVIOUS
<1>1. NewTurn \in TurnState /\ Coherent(NewTurn)
  BY DEF NewTurn, TurnState, Coherent, Pcs, InCall, Evaluated
<1>2. breaker \in BreakerState
  BY ThresholdAssumption, CooldownAssumption DEF Init, Closed, BreakerState
<1>3. IsRuleTable(rules) /\ IsRuleTable(<<>>)
  BY DEF Init, IsRuleTable
<1>4. trail \in [ProposalIds -> Seq(Entries)]
  BY DEF Init
<1> HIDE DEF TurnState, IsRuleTable
<1> QED BY <1>1, <1>2, <1>3, <1>4 DEF Init, TypeInv, TypeOK, NoUsage

\* A step of one turn that keeps its locals in order keeps everybody's.
LEMMA LocalsFrame ==
  ASSUME TypeInv, NEW t \in Turns, NEW s, StepsTo(t, s)
  PROVE  /\ turn' \in [Turns -> TurnState] /\ \A u \in Turns : Coherent(turn'[u])
         /\ turn'[t] = s /\ \A u \in Turns \ {t} : turn'[u] = turn[u]
<1>1. turn \in [Turns -> TurnState] /\ \A u \in Turns : Coherent(turn[u])
  BY DEF TypeInv, TypeOK
<1> HIDE DEF TurnState, Coherent
<1> QED BY <1>1 DEF StepsTo

LEMMA BreakerSteps ==
  ASSUME NEW b \in BreakerState
  PROVE  /\ afterIsOpen(b) \in BreakerState /\ recordFailure(b) \in BreakerState
         /\ recordSuccess(b) \in BreakerState /\ aged(b) \in BreakerState
  BY ThresholdAssumption, CooldownAssumption, NotOpenAssumption
  DEF BreakerState, afterIsOpen, Cooled, Closed, recordFailure, recordSuccess, aged

LEMMA CurrentIsAnId == ASSUME TypeInv, NEW t \in Turns PROVE current(t) \in ProposalIds
  BY TurnFacts DEF current, ProposalIds, TurnState

LEMMA EntryType ==
  ASSUME TypeInv, NEW t \in Turns, turn[t].pc \in Recording
  PROVE  entryOf(t) \in Entries
<1>1. turn[t] \in TurnState /\ Coherent(turn[t])
  BY TurnFacts
<1>2. turn[t].pc \in {"deciding", "resolving"} =>
        turn[t].decision.status \in Statuses /\ turn[t].signed \in Statuses
  BY <1>1 DEF Coherent, Evaluated, Decision, Statuses
<1> QED BY <1>2 DEF Recording, entryOf, entry, Entries

LEMMA AppendType ==
  ASSUME TypeInv, NEW t \in Turns, turn[t].pc \in Recording, append(t) \/ trail' = trail
  PROVE  trail' \in [ProposalIds -> Seq(Entries)]
<1>1. trail \in [ProposalIds -> Seq(Entries)] /\ current(t) \in ProposalIds
  BY CurrentIsAnId DEF TypeInv, TypeOK
<1>2. Append(trail[current(t)], entryOf(t)) \in Seq(Entries)
  BY <1>1, EntryType
<1> QED BY <1>1, <1>2 DEF append

LEMMA UsageType ==
  ASSUME TypeInv, NEW t \in Turns
  PROVE  LET U == [Convs -> [tokensUsed : Nat, toolCallsMade : Nat]]
         IN  /\ spendToken(t) => usage' \in U
             /\ [usage EXCEPT ![conversation[t]].toolCallsMade = @ + 1] \in U
             /\ usage \in U
<1> DEFINE U == [Convs -> [tokensUsed : Nat, toolCallsMade : Nat]]
           c == conversation[t]
           more == [usage[c] EXCEPT !.tokensUsed = usage[c].tokensUsed + 1]
           made == [usage[c] EXCEPT !.toolCallsMade = usage[c].toolCallsMade + 1]
<1>1. usage \in U /\ c \in Convs
  BY DEF TypeInv, TypeOK
<1>2. usage[c] \in [tokensUsed : Nat, toolCallsMade : Nat]
  BY <1>1
<1>3. more \in [tokensUsed : Nat, toolCallsMade : Nat]
      /\ made \in [tokensUsed : Nat, toolCallsMade : Nat]
  BY <1>2
<1>4. spendToken(t) => usage' = [usage EXCEPT ![c] = more]
  BY <1>1 DEF spendToken
<1>5. [usage EXCEPT ![c].toolCallsMade = @ + 1] = [usage EXCEPT ![c] = made]
  BY <1>1
<1> HIDE DEF c, more, made
<1>6. [usage EXCEPT ![c] = more] \in U /\ [usage EXCEPT ![c] = made] \in U
  BY <1>1, <1>3
<1> QED BY <1>1, <1>4, <1>5, <1>6 DEF c

LEMMA FeedBackType ==
  ASSUME TypeInv, NEW t \in Turns, NEW ok \in BOOLEAN, FeedBack(t, ok)
  PROVE  usage' \in [Convs -> [tokensUsed : Nat, toolCallsMade : Nat]]
BY UsageType DEF FeedBack, NextStep

\* The part of the state a turn shares with the others.
SharedOK ==
  /\ IsRuleTable(rules)
  /\ DOMAIN loaded = Turns /\ \A t \in Turns : IsRuleTable(loaded[t])
  /\ usage \in [Convs -> [tokensUsed : Nat, toolCallsMade : Nat]]
  /\ breaker \in BreakerState
  /\ trail \in [ProposalIds -> Seq(Entries)]
  /\ stream \in [ProposalIds -> SUBSET Emissions]
  /\ effects \subseteq ProposalIds
  /\ restarts \in 0 .. MaxRestarts

LEMMA StepType == TypeInv /\ [Next]_vars => TypeInv'
<1> SUFFICES ASSUME TypeInv, [Next]_vars PROVE TypeInv'
  OBVIOUS
<1> USE DEF SharedOK
<1>0. SharedOK
  BY DEF TypeInv, TypeOK
<1> DEFINE Goal == SharedOK' /\ turn' \in [Turns -> TurnState]
                     /\ \A u \in Turns : Coherent(turn'[u])
<1>1. ASSUME NEW t \in Turns, Start(t) PROVE Goal
  <2>1. SharedOK'
    BY <1>0, <1>1 DEF Start
  <2> QED BY <1>1, <2>1, StartLocals, LocalsFrame
<1>2. ASSUME NEW t \in Turns, ReplyText(t) PROVE Goal
  <2>1. SharedOK'
    BY <1>0, <1>2, UsageType DEF ReplyText
  <2> QED BY <1>2, <2>1, ReplyTextLocals, LocalsFrame
<1>3. ASSUME NEW t \in Turns, NEW c \in Calls, ReplyCall(t, c) PROVE Goal
  <2>1. SharedOK'
    BY <1>0, <1>3, CurrentIsAnId, UsageType DEF ReplyCall
  <2> QED BY <1>3, <2>1, ReplyCallLocals, LocalsFrame
<1>4. ASSUME NEW t \in Turns, ReplyUnusable(t) PROVE Goal
  <2>1. SharedOK'
    BY <1>0, <1>4, UsageType DEF ReplyUnusable
  <2> QED BY <1>4, <2>1, ReplyUnusableLocals, LocalsFrame
<1>5. ASSUME NEW t \in Turns, Record(t) PROVE Goal
  <2>1. SharedOK'
    BY <1>0, <1>5, AppendType DEF Record
  <2> QED BY <1>5, <2>1, RecordLocals, LocalsFrame
<1>6. ASSUME NEW t \in Turns, RecordFails(t) PROVE Goal
  <2>1. SharedOK'
    BY <1>0, <1>6, AppendType DEF RecordFails
  <2> QED BY <1>6, <2>1, RecordFailsLocals, LocalsFrame
<1>7. ASSUME NEW t \in Turns, Evaluate(t) PROVE Goal
  <2>1. SharedOK'
    BY <1>0, <1>7, BreakerSteps DEF Evaluate
  <2> QED BY <1>7, <2>1, EvaluateLocals, LocalsFrame
<1>8. ASSUME NEW t \in Turns, Judge(t) PROVE Goal
  <2>1. SharedOK'
    BY <1>0, <1>8 DEF Judge
  <2> QED BY <1>8, <2>1, JudgeLocals, LocalsFrame
<1>9. ASSUME NEW t \in Turns, Act(t) PROVE Goal
  <2>1. current(t) \in ProposalIds
    BY CurrentIsAnId
  <2>2. turn[t].decision.status \in Emissions
    BY <1>9, ActLocals DEF Emissions, Statuses
  <2>3. stream' \in [ProposalIds -> SUBSET Emissions]
    BY <1>0, <1>9, <2>1, <2>2 DEF Act
  <2>4. usage' \in [Convs -> [tokensUsed : Nat, toolCallsMade : Nat]]
    BY <1>0, <1>9, ActLocals, FeedBackType
  <2>5. SharedOK'
    BY <1>0, <1>9, <2>3, <2>4 DEF Act
  <2> QED BY <1>9, <2>5, ActLocals, LocalsFrame
<1>10. ASSUME NEW t \in Turns, NEW v \in {"ALLOW", "DENY"}, Resolve(t, v) PROVE Goal
  <2>1. SharedOK'
    BY <1>0, <1>10 DEF Resolve
  <2> QED BY <1>10, <2>1, ResolveLocals, LocalsFrame
<1>11. ASSUME NEW t \in Turns, Run(t) PROVE Goal
  <2>1. SharedOK'
    BY <1>0, <1>11, CurrentIsAnId DEF Run
  <2>2. turn' = turn
    BY <1>11 DEF Run
  <2> QED BY <2>1, <2>2 DEF TypeInv, TypeOK
<1>12. ASSUME NEW t \in Turns, Return(t) PROVE Goal
  <2>1. SharedOK'
    BY <1>0, <1>12, BreakerSteps DEF Return
  <2> QED BY <1>12, <2>1, ReturnLocals, LocalsFrame
<1>13. ASSUME NEW t \in Turns, Break(t) PROVE Goal
  <2>1. SharedOK'
    BY <1>0, <1>13, BreakerSteps DEF Break
  <2> QED BY <1>13, <2>1, BreakLocals, LocalsFrame
<1>14. ASSUME NEW t \in Turns, Report(t) PROVE Goal
  <2>1. current(t) \in ProposalIds
    BY CurrentIsAnId
  <2>2. stream' \in [ProposalIds -> SUBSET Emissions]
    BY <1>0, <1>14, <2>1 DEF Report, Emissions
  <2>3. turn[t].success \in BOOLEAN /\ FeedBack(t, turn[t].success)
    BY <1>14, TurnFacts DEF Report, TurnState
  <2>4. SharedOK'
    BY <1>0, <1>14, <2>2, <2>3, FeedBackType DEF Report
  <2> QED BY <1>14, <2>4, ReportLocals, LocalsFrame
<1>15. ASSUME NEW i \in DOMAIN rules, Toggle(i) PROVE Goal
  <2>1. IsRuleTable(rules')
    BY <1>0, <1>15 DEF Toggle, IsRuleTable
  <2>2. SharedOK' /\ turn' = turn
    BY <1>0, <1>15, <2>1 DEF Toggle
  <2> QED BY <2>2 DEF TypeInv, TypeOK
<1>16. ASSUME Tick PROVE Goal
  <2>1. SharedOK' /\ turn' = turn
    BY <1>0, <1>16, BreakerSteps DEF Tick
  <2> QED BY <2>1 DEF TypeInv, TypeOK
<1>17. ASSUME Restart PROVE Goal
  <2>1. SharedOK'
    BY <1>0, <1>17, ThresholdAssumption, CooldownAssumption
    DEF Restart, NoUsage, Closed, BreakerState
  <2>2. ASSUME NEW u \in Turns
        PROVE  turn'[u] \in TurnState /\ Coherent(turn'[u])
    <3>1. turn[u] \in TurnState /\ Coherent(turn[u])
      BY TurnFacts
    <3>2. turn'[u] = turn[u] \/ turn'[u] = [turn[u] EXCEPT !.pc = "failed"]
      BY <1>17 DEF Restart
    <3> QED BY <3>1, <3>2 DEF TurnState, Coherent, Pcs, InCall, Evaluated, Ended, Recording, Recorded, Statuses
  <2>3. turn' = [u \in Turns |-> turn'[u]]
    BY <1>17 DEF Restart
  <2>4. turn' \in [Turns -> TurnState]
    BY <2>2, <2>3, Zenon
  <2>5. \A u \in Turns : Coherent(turn'[u])
    BY <2>2, Zenon
  <2> QED BY <2>1, <2>4, <2>5, Zenon
<1>18. ASSUME UNCHANGED vars PROVE Goal
  BY <1>18 DEF vars, TypeInv, TypeOK
<1> HIDE DEF Goal
<1>19. Goal
  <2>1. ASSUME NEW t \in Turns, TurnStep(t) PROVE Goal
    BY <1>1, <1>2, <1>3, <1>4, <1>5, <1>6, <1>7, <1>8, <1>9, <1>10, <1>11, <1>12, <1>13,
       <1>14, <2>1, Zenon DEF TurnStep
  <2>2. Next => Goal
    BY <1>15, <1>16, <1>17, <2>1 DEF Next
  <2> QED BY <1>18, <2>2
<1> QED BY <1>19 DEF Goal, TypeInv, TypeOK

\* The state of the loop always has the shape TypeOK says, the parts of it that turns
\* share included.
THEOREM TypeCorrect == Spec => []TypeOK
<1>1. TypeInv => TypeOK
  BY DEF TypeInv
<1> QED BY <1>1, InitType, StepType, PTL DEF Spec

THEOREM TypeInvHolds == Spec => []TypeInv
  BY InitType, StepType, PTL DEF Spec

-----------------------------------------------------------------------------
(* What is on record, and which rules a running call has passed            *)

Holds(p, e) == \E i \in DOMAIN trail[p] : trail[p][i] = e

Result(s) == IF s.success THEN "success" ELSE "failure"

\* What the trail holds for the call turn t is about.
OnRecord(t) ==
  /\ turn[t].pc = "decided" => Holds(current(t), verdict("DECISION", turn[t].decision.status))
  /\ turn[t].pc = "resolved" => Holds(current(t), verdict("APPROVAL", turn[t].decision.status))
  /\ turn[t].pc \in {"calling", "reporting", "reported"} => Allowed(current(t))
  /\ turn[t].pc = "reported" => Holds(current(t), executed(Result(turn[t])))

HardRules(R) == {r \in R : r.type # "BUDGET_LIMIT"}
NotForbidden(t) ==
  /\ ~turn[t].call.suspicious
  /\ Forbidding(turn[t].call, HardRules(RuleSet(loaded[t])), Null) = {}
MustAsk(t) == Escalating(turn[t].call, RuleSet(loaded[t])) # {}

\* What the call turn t is about has passed so far.
Vetted(t) ==
  /\ turn[t].pc \in Evaluated /\ turn[t].decision.status # "DENY" => NotForbidden(t)
  /\ turn[t].pc \in {"judging", "deciding", "decided"} /\ turn[t].decision.status = "ALLOW"
       => ~MustAsk(t)
  /\ turn[t].pc \in {"calling", "reporting", "reported"} /\ MustAsk(t)
       => Holds(current(t), verdict("APPROVAL", "ALLOW"))

RecordInv == /\ \A t \in Turns : OnRecord(t) /\ Vetted(t)
             /\ EffectsWereAllowed
             /\ EmittedIsAudited

LEMMA AllowedHolds ==
  ASSUME NEW p
  PROVE  /\ Allowed(p) <=> \/ Holds(p, verdict("DECISION", "ALLOW"))
                           \/ Holds(p, verdict("APPROVAL", "ALLOW"))
         /\ Allowed(p)' <=> \/ Holds(p, verdict("DECISION", "ALLOW"))'
                            \/ Holds(p, verdict("APPROVAL", "ALLOW"))'
  BY DEF Allowed, Holds

\* The log is append-only, also for a step of the loop.
LEMMA TrailGrows ==
  ASSUME TypeInv, [Next]_vars, NEW p \in ProposalIds
  PROVE  \A i \in DOMAIN trail[p] : i \in DOMAIN trail'[p] /\ trail'[p][i] = trail[p][i]
<1>1. trail \in [ProposalIds -> Seq(Entries)] /\ trail[p] \in Seq(Entries)
  BY DEF TypeInv, TypeOK
<1>2. ASSUME NEW t \in Turns, turn[t].pc \in Recording, append(t)
      PROVE  \A i \in DOMAIN trail[p] : i \in DOMAIN trail'[p] /\ trail'[p][i] = trail[p][i]
  <2>1. entryOf(t) \in Entries
    BY <1>2, EntryType
  <2>2. trail'[p] = trail[p] \/ trail'[p] = Append(trail[p], entryOf(t))
    BY <1>1, <1>2 DEF append
  <2> HIDE DEF Entries
  <2> QED BY <1>1, <2>1, <2>2
<1>3. ASSUME [Next]_vars
      PROVE  trail' = trail \/ \E t \in Turns : turn[t].pc \in Recording /\ append(t)
  BY <1>3 DEF Next, TurnStep, Start, ReplyText, ReplyUnusable, ReplyCall, Record, RecordFails,
              Evaluate, Judge, Act, Resolve, Run, Return, Break, Report, Tick, Restart, Toggle, vars
<1> QED BY <1>2, <1>3

LEMMA HoldsStays ==
  ASSUME TypeInv, [Next]_vars, NEW p \in ProposalIds, NEW e
  PROVE  Holds(p, e) => Holds(p, e)'
  BY TrailGrows DEF Holds

LEMMA RecordHolds ==
  ASSUME TypeInv, NEW t \in Turns, Record(t)
  PROVE  \E i \in DOMAIN trail'[current(t)] : trail'[current(t)][i] = entryOf(t)
<1>1. trail \in [ProposalIds -> Seq(Entries)] /\ current(t) \in ProposalIds
  BY CurrentIsAnId DEF TypeInv, TypeOK
<1>2. entryOf(t) \in Entries
  BY EntryType DEF Record
<1>3. trail'[current(t)] = Append(trail[current(t)], entryOf(t))
  BY <1>1 DEF Record, append
<1>4. trail[current(t)] \in Seq(Entries)
  BY <1>1
<1> HIDE DEF Entries
<1>5. /\ Len(trail[current(t)]) + 1 \in DOMAIN trail'[current(t)]
      /\ trail'[current(t)][Len(trail[current(t)]) + 1] = entryOf(t)
  BY <1>2, <1>3, <1>4
<1> QED BY <1>5

\* A turn a step leaves alone.
LEMMA OtherTurn ==
  ASSUME TypeInv, [Next]_vars, NEW u \in Turns, turn'[u] = turn[u], loaded'[u] = loaded[u],
         OnRecord(u), Vetted(u)
  PROVE  OnRecord(u)' /\ Vetted(u)'
<1>1. current(u) \in ProposalIds /\ current(u)' = current(u)
  BY CurrentIsAnId DEF current
<1>2. \A e : Holds(current(u), e) => Holds(current(u), e)'
  BY <1>1, HoldsStays
<1>3. Allowed(current(u)) => Allowed(current(u))'
  BY <1>1, <1>2, AllowedHolds
<1>4. OnRecord(u)'
  BY <1>1, <1>2, <1>3 DEF OnRecord
<1>5. NotForbidden(u)' = NotForbidden(u) /\ MustAsk(u)' = MustAsk(u)
  BY DEF NotForbidden, MustAsk
<1>6. Vetted(u)'
  BY <1>1, <1>2, <1>5 DEF Vetted
<1> QED BY <1>4, <1>6

\* A turn whose call is not evaluated yet, or that has none.
LEMMA NothingToCheck ==
  ASSUME NEW t \in Turns, turn'[t].pc \notin Evaluated
  PROVE  OnRecord(t)' /\ Vetted(t)'
  BY DEF OnRecord, Vetted, Evaluated

\* evaluate vets the call: what it does not deny passes every hard rule, and what it
\* allows needs no human.
LEMMA EvaluationVets ==
  ASSUME TypeInv, NEW t \in Turns, turn[t].call \in Calls
  PROVE  /\ Evaluation(t).status # "DENY" => NotForbidden(t)
         /\ Evaluation(t).status = "ALLOW" => ~MustAsk(t)
<1> DEFINE R == RuleSet(loaded[t])
           u == usage[conversation[t]]
           c == turn[t].call
<1>1. Evaluation(t).status = ReferenceStatus(c, R, u, isOpen(breaker))
  BY EvaluationOK
<1>2. Forbidding(c, HardRules(R), Null) \subseteq Forbidding(c, R, u)
  BY DEF Forbidding, HardRules, applies
<1> HIDE DEF R, u, c
<1>3. ReferenceStatus(c, R, u, isOpen(breaker)) # "DENY"
        => ~c.suspicious /\ Forbidding(c, R, u) = {}
  BY DEF ReferenceStatus
<1>4. ReferenceStatus(c, R, u, isOpen(breaker)) = "ALLOW" => Escalating(c, R) = {}
  BY DEF ReferenceStatus
<1> QED BY <1>1, <1>2, <1>3, <1>4 DEF NotForbidden, MustAsk, R, u, c

LEMMA RecordInit == Init => RecordInv
  BY DEF Init, RecordInv, OnRecord, Vetted, NewTurn, EffectsWereAllowed, EmittedIsAudited,
         Evaluated, ProposalIds

\* The steps that leave the turn without an evaluated call.
LEMMA CallDropped ==
  ASSUME TypeInv, NEW t \in Turns,
         \/ Start(t) \/ ReplyText(t) \/ ReplyUnusable(t) \/ RecordFails(t) \/ Report(t)
         \/ \E c \in Calls : ReplyCall(t, c)
  PROVE  turn'[t].pc \in {"thinking", "done", "maxsteps", "failed", "proposing"}
<1>1. turn[t] \in TurnState
  BY TurnFacts
<1>2. CASE Report(t)
  <2>1. turn'[t] = fedBack(t)
    BY <1>2, ReportLocals, LocalsFrame
  <2> QED BY <1>1, <2>1 DEF fedBack, TurnState
<1>3. CASE Start(t)
  <2>1. turn'[t] = [turn[t] EXCEPT !.pc = "thinking"]
    BY <1>3, StartLocals, LocalsFrame
  <2> QED BY <1>1, <2>1 DEF TurnState
<1>4. CASE ReplyText(t)
  <2>1. turn'[t] = [turn[t] EXCEPT
                      !.pc = IF turn[t].step < MaxSteps THEN "done" ELSE "maxsteps"]
    BY <1>4, ReplyTextLocals, LocalsFrame
  <2> QED BY <1>1, <2>1 DEF TurnState
<1>5. CASE ReplyUnusable(t) \/ RecordFails(t)
  <2>1. turn'[t] = [turn[t] EXCEPT !.pc = "failed"]
    BY <1>5, ReplyUnusableLocals, RecordFailsLocals, LocalsFrame
  <2> QED BY <1>1, <2>1 DEF TurnState
<1>6. ASSUME NEW c \in Calls, ReplyCall(t, c)
      PROVE  turn'[t].pc \in {"proposing", "maxsteps"}
  <2>1. turn'[t] = IF turn[t].step < MaxSteps
                   THEN [turn[t] EXCEPT !.pc = "proposing", !.call = c]
                   ELSE [turn[t] EXCEPT !.pc = "maxsteps"]
    BY <1>6, ReplyCallLocals, LocalsFrame
  <2> QED BY <1>1, <2>1 DEF TurnState
<1> QED BY <1>2, <1>3, <1>4, <1>5, <1>6

\* The step of the turn itself.
LEMMA OwnTurn ==
  ASSUME TypeInv, TypeInv', [Next]_vars, RecordInv, NEW t \in Turns, TurnStep(t)
  PROVE  OnRecord(t)' /\ Vetted(t)'
<1>1. turn[t] \in TurnState /\ Coherent(turn[t]) /\ OnRecord(t) /\ Vetted(t)
  BY TurnFacts DEF RecordInv
<1>2. current(t) \in ProposalIds
  BY CurrentIsAnId
<1>3. \A e : Holds(current(t), e) => \E i \in DOMAIN trail'[current(t)] : trail'[current(t)][i] = e
  BY <1>2, HoldsStays DEF Holds
<1> DEFINE SameCall == turn'[t].step = turn[t].step /\ turn'[t].call = turn[t].call
                       /\ loaded' = loaded
           Later(e) == \E i \in DOMAIN trail'[current(t)] : trail'[current(t)][i] = e
<1>4. SameCall => /\ current(t)' = current(t)
                  /\ NotForbidden(t)' = NotForbidden(t) /\ MustAsk(t)' = MustAsk(t)
                  /\ \A e : Holds(current(t), e)' <=> Later(e)
                  /\ Allowed(current(t))' <=> \/ Later(verdict("DECISION", "ALLOW"))
                                             \/ Later(verdict("APPROVAL", "ALLOW"))
  BY DEF current, NotForbidden, MustAsk, Holds, Allowed
<1>5. Allowed(current(t)) => \/ Later(verdict("DECISION", "ALLOW"))
                             \/ Later(verdict("APPROVAL", "ALLOW"))
  BY <1>3, AllowedHolds
<1> HIDE DEF Later
<1>6. CASE Start(t) \/ ReplyText(t) \/ ReplyUnusable(t) \/ RecordFails(t) \/ Report(t)
             \/ \E c \in Calls : ReplyCall(t, c)
  BY <1>6, CallDropped, NothingToCheck DEF Evaluated
<1>7. CASE Record(t)
  <2>1. turn'[t] = [turn[t] EXCEPT !.pc = after(turn[t].pc)]
    BY <1>7, RecordLocals, LocalsFrame
  <2>2. SameCall /\ turn'[t].decision = turn[t].decision /\ turn'[t].success = turn[t].success
    BY <1>1, <1>7, <2>1 DEF Record, TurnState
  <2>3. Later(entryOf(t))
    BY <1>7, RecordHolds DEF Later
  <2>4. CASE turn[t].pc = "proposing"
    <3>1. turn'[t].pc = "proposed"
      BY <1>1, <2>1, <2>4 DEF after, TurnState
    <3> QED BY <3>1, NothingToCheck DEF Evaluated
  <2>5. CASE turn[t].pc = "deciding"
    <3>1. turn'[t].pc = "decided"
      BY <1>1, <2>1, <2>5 DEF after, TurnState
    <3>2. entryOf(t) = verdict("DECISION", turn[t].decision.status)
      BY <1>1, <2>5 DEF entryOf, verdict, Coherent, Evaluated
    <3> QED BY <1>1, <1>4, <2>2, <2>3, <2>5, <3>1, <3>2 DEF OnRecord, Vetted, Evaluated
  <2>6. CASE turn[t].pc = "resolving"
    <3>1. turn'[t].pc = "resolved"
      BY <1>1, <2>1, <2>6 DEF after, TurnState
    <3>2. entryOf(t) = verdict("APPROVAL", turn[t].decision.status)
      BY <1>1, <2>6 DEF entryOf, verdict, Coherent, Evaluated
    <3> QED BY <1>1, <1>4, <2>2, <2>3, <2>6, <3>1, <3>2 DEF OnRecord, Vetted, Evaluated
  <2>7. CASE turn[t].pc = "reporting"
    <3>1. turn'[t].pc = "reported"
      BY <1>1, <2>1, <2>7 DEF after, TurnState
    <3>2. entryOf(t) = executed(Result(turn[t])) /\ Result(turn'[t]) = Result(turn[t])
      BY <1>1, <2>2, <2>7 DEF entryOf, executed, Result
    <3> QED BY <1>1, <1>3, <1>4, <1>5, <2>2, <2>3, <2>7, <3>1, <3>2
            DEF OnRecord, Vetted, Evaluated, Later
  <2> QED BY <1>7, <2>4, <2>5, <2>6, <2>7 DEF Record, Recording
<1>8. CASE Evaluate(t)
  <2>1. turn'[t] = [turn[t] EXCEPT
                      !.decision = Evaluation(t), !.signed = Evaluation(t).status,
                      !.pc = IF Evaluation(t).status = "ALLOW" /\ SemanticGuard
                             THEN "judging" ELSE "deciding"]
    BY <1>8, EvaluateLocals, LocalsFrame
  <2>2. /\ SameCall /\ turn'[t].decision = Evaluation(t)
        /\ turn'[t].pc \in {"judging", "deciding"} /\ turn[t].call \in Calls
    <3>1. turn[t].pc = "proposed" /\ loaded' = loaded
      BY <1>8 DEF Evaluate
    <3>2. turn[t].call \in Calls
      BY <1>1, <3>1 DEF Coherent, InCall
    <3> QED BY <1>1, <2>1, <3>1, <3>2 DEF TurnState
  <2>3. /\ Evaluation(t).status # "DENY" => NotForbidden(t)
        /\ Evaluation(t).status = "ALLOW" => ~MustAsk(t)
    <3>1. turn[t].call \in Calls
      BY <2>2
    <3> QED BY <3>1, EvaluationVets, Zenon
  <2> HIDE DEF SameCall
  <2> QED BY <1>4, <2>2, <2>3 DEF OnRecord, Vetted
<1>9. CASE Judge(t)
  <2>1. /\ SameCall /\ turn'[t].pc = "deciding" /\ turn[t].pc = "judging"
        /\ turn'[t].decision = turn[t].decision \/ turn'[t].decision.status = "DENY"
    <3>1. \/ turn'[t] = [turn[t] EXCEPT !.pc = "deciding"]
          \/ turn'[t] = [turn[t] EXCEPT !.pc = "deciding",
                                        !.decision = Deny(Null), !.signed = "DENY"]
      BY <1>9, JudgeLocals, LocalsFrame
    <3>2. turn[t].pc = "judging" /\ loaded' = loaded
      BY <1>9 DEF Judge
    <3>3. Deny(Null).status = "DENY"
      BY DEF Deny
    <3>4. CASE turn'[t] = [turn[t] EXCEPT !.pc = "deciding"]
      BY <1>1, <3>2, <3>4 DEF TurnState
    <3>5. CASE turn'[t] = [turn[t] EXCEPT !.pc = "deciding",
                                          !.decision = Deny(Null), !.signed = "DENY"]
      BY <1>1, <3>2, <3>3, <3>5 DEF TurnState
    <3> QED BY <3>1, <3>4, <3>5
  <2>2. turn[t].decision.status = "ALLOW"
    BY <1>1, <2>1 DEF Coherent
  <2> QED BY <1>1, <1>4, <2>1, <2>2 DEF OnRecord, Vetted, Evaluated
<1>10. CASE Act(t)
  <2>1. turn[t].pc \in {"decided", "resolved"} /\ loaded' = loaded
    BY <1>10 DEF Act
  <2>2. CASE StepsTo(t, [turn[t] EXCEPT !.pc = "parked"])
             /\ turn[t].decision.status = "PENDING_APPROVAL"
    <3>1. SameCall /\ turn'[t].pc = "parked" /\ turn'[t].decision = turn[t].decision
      BY <1>1, <2>1, <2>2, LocalsFrame DEF TurnState
    <3> QED BY <1>1, <1>4, <2>1, <2>2, <3>1 DEF OnRecord, Vetted, Evaluated
  <2>3. CASE StepsTo(t, [turn[t] EXCEPT !.pc = "calling"]) /\ turn[t].decision.status = "ALLOW"
    <3>1. SameCall /\ turn'[t].pc = "calling" /\ turn'[t].decision = turn[t].decision
      BY <1>1, <2>1, <2>3, LocalsFrame DEF TurnState
    <3>2. \/ turn[t].pc = "decided" /\ Later(verdict("DECISION", "ALLOW"))
          \/ turn[t].pc = "resolved" /\ Later(verdict("APPROVAL", "ALLOW"))
      BY <1>1, <1>3, <2>1, <2>3 DEF OnRecord, Later
    <3> QED BY <1>1, <1>4, <2>1, <2>3, <3>1, <3>2 DEF OnRecord, Vetted, Evaluated
  <2>4. CASE StepsTo(t, fedBack(t))
    <3>1. turn'[t] = fedBack(t)
      BY <2>4, LocalsFrame
    <3>2. turn'[t].pc = "thinking"
      BY <1>1, <3>1 DEF fedBack, TurnState
    <3> QED BY <3>2, NothingToCheck DEF Evaluated
  <2> QED BY <1>10, <2>2, <2>3, <2>4, ActLocals
<1>11. ASSUME NEW v \in {"ALLOW", "DENY"}, Resolve(t, v) PROVE OnRecord(t)' /\ Vetted(t)'
  <2>1. /\ SameCall /\ turn'[t].pc = "resolving" /\ turn[t].pc = "parked"
    BY <1>1, <1>11, ResolveLocals, LocalsFrame DEF Resolve, TurnState
  <2>2. turn[t].decision.status = "PENDING_APPROVAL"
    BY <1>1, <2>1 DEF Coherent
  <2> QED BY <1>1, <1>4, <2>1, <2>2 DEF OnRecord, Vetted, Evaluated
<1>12. CASE Run(t)
  BY <1>1, <1>12, OtherTurn DEF Run
<1>13. CASE Return(t) \/ Break(t)
  <2>1. /\ SameCall /\ turn'[t].pc = "reporting" /\ turn[t].pc = "calling"
        /\ turn'[t].decision = turn[t].decision
    <3>1. \E ok \in BOOLEAN : turn'[t] = [turn[t] EXCEPT !.pc = "reporting", !.success = ok]
      <4>1. CASE Return(t)
        BY <4>1, ReturnLocals, LocalsFrame
      <4>2. CASE Break(t)
        BY <4>2, BreakLocals, LocalsFrame
      <4> QED BY <1>13, <4>1, <4>2
    <3> QED BY <1>1, <1>13, <3>1 DEF Return, Break, TurnState
  <2> QED BY <1>1, <1>3, <1>4, <1>5, <2>1 DEF OnRecord, Vetted, Evaluated, Later
<1> QED BY <1>6, <1>7, <1>8, <1>9, <1>10, <1>11, <1>12, <1>13 DEF TurnStep

LEMMA RestartTurns ==
  ASSUME TypeInv, [Next]_vars, RecordInv, Restart, NEW t \in Turns
  PROVE  OnRecord(t)' /\ Vetted(t)'
<1>1. turn[t] \in TurnState
  BY TurnFacts
<1>2. CASE turn[t].pc \in {"idle"} \cup Ended
  <2>1. turn'[t] = turn[t]
    BY <1>2 DEF Restart
  <2> QED BY <1>2, <2>1, NothingToCheck DEF Ended, Evaluated
<1>3. CASE turn[t].pc \notin {"idle"} \cup Ended
  <2>1. turn'[t] = [turn[t] EXCEPT !.pc = "failed"]
    BY <1>3 DEF Restart
  <2>2. turn'[t].pc = "failed"
    BY <1>1, <2>1 DEF TurnState
  <2> QED BY <2>2, NothingToCheck DEF Evaluated
<1> QED BY <1>2, <1>3

\* Only the turn that takes a step changes its locals and its rules.
LEMMA StepFrame ==
  ASSUME TypeInv, NEW t \in Turns, TurnStep(t), NEW u \in Turns, u # t
  PROVE  turn'[u] = turn[u] /\ loaded'[u] = loaded[u]
<1>1. loaded'[u] = loaded[u]
  BY DEF TypeInv, TypeOK, TurnStep, Start, ReplyText, ReplyUnusable, ReplyCall, Record,
         RecordFails, Evaluate, Judge, Act, Resolve, Run, Return, Break, Report
<1>2. CASE Run(t)
  BY <1>1, <1>2 DEF Run
<1>3. CASE ~Run(t)
  <2>1. \E s : StepsTo(t, s)
    BY <1>3, StartLocals, ReplyTextLocals, ReplyUnusableLocals, ReplyCallLocals, RecordLocals,
       RecordFailsLocals, EvaluateLocals, JudgeLocals, ActLocals, ResolveLocals, ReturnLocals,
       BreakLocals, ReportLocals, Zenon DEF TurnStep
  <2> QED BY <1>1, <2>1, LocalsFrame
<1> QED BY <1>2, <1>3

\* An emission follows the entry it shows.
LEMMA EmissionStep ==
  ASSUME TypeInv, [Next]_vars, RecordInv, NEW p \in ProposalIds, NEW x \in stream'[p]
  PROVE  \E i \in DOMAIN trail'[p] : trail'[p][i].status = x
<1> DEFINE Later(e) == \E i \in DOMAIN trail'[p] : trail'[p][i] = e
<1>1. \A e : Holds(p, e) => Later(e)
  BY HoldsStays DEF Holds
<1>2. CASE x \in stream[p]
  <2>1. PICK i \in DOMAIN trail[p] : trail[p][i].status = x
    BY <1>2 DEF RecordInv, EmittedIsAudited
  <2> QED BY <2>1, TrailGrows
<1>3. ASSUME x \notin stream[p]
      PROVE  \E t \in Turns : /\ p = current(t)
                              /\ \/ Act(t) /\ x = turn[t].decision.status
                                 \/ Report(t) /\ x = Result(turn[t])
  <2>1. ASSUME NEW t \in Turns, Act(t)
        PROVE  p = current(t) /\ x = turn[t].decision.status
    BY <1>3, <2>1, CurrentIsAnId DEF Act, TypeInv, TypeOK
  <2>2. ASSUME NEW t \in Turns, Report(t)
        PROVE  p = current(t) /\ x = Result(turn[t])
    BY <1>3, <2>2, CurrentIsAnId DEF Report, Result, TypeInv, TypeOK
  <2>3. stream' = stream \/ \E t \in Turns : Act(t) \/ Report(t)
    BY DEF Next, TurnStep, Start, ReplyText, ReplyUnusable, ReplyCall, Record, RecordFails,
           Evaluate, Judge, Resolve, Run, Return, Break, Tick, Restart, Toggle, vars
  <2> QED BY <1>3, <2>1, <2>2, <2>3
<1>4. ASSUME NEW t \in Turns, p = current(t), Act(t), x = turn[t].decision.status
      PROVE  \E i \in DOMAIN trail'[p] : trail'[p][i].status = x
  <2>1. Holds(p, verdict("DECISION", x)) \/ Holds(p, verdict("APPROVAL", x))
    BY <1>4 DEF Act, RecordInv, OnRecord
  <2>2. verdict("DECISION", x).status = x /\ verdict("APPROVAL", x).status = x
    BY DEF verdict, entry
  <2> QED BY <1>1, <2>1, <2>2
<1>5. ASSUME NEW t \in Turns, p = current(t), Report(t), x = Result(turn[t])
      PROVE  \E i \in DOMAIN trail'[p] : trail'[p][i].status = x
  <2>1. Holds(p, executed(x)) /\ executed(x).status = x
    BY <1>5 DEF Report, RecordInv, OnRecord, executed, entry
  <2> QED BY <1>1, <2>1
<1> QED BY <1>2, <1>3, <1>4, <1>5

LEMMA RecordStep == TypeInv /\ TypeInv' /\ RecordInv /\ [Next]_vars => RecordInv'
<1> SUFFICES ASSUME TypeInv, TypeInv', RecordInv, [Next]_vars PROVE RecordInv'
  OBVIOUS
<1>1. ASSUME NEW u \in Turns PROVE OnRecord(u)' /\ Vetted(u)'
  <2>1. ASSUME NEW t \in Turns, TurnStep(t) PROVE OnRecord(u)' /\ Vetted(u)'
    <3>1. CASE u = t
      BY <2>1, <3>1, OwnTurn
    <3>2. CASE u # t
      BY <1>1, <2>1, <3>2, StepFrame, OtherTurn DEF RecordInv
    <3> QED BY <3>1, <3>2
  <2>2. CASE Restart
    BY <2>2, RestartTurns
  <2>3. CASE Tick \/ (\E i \in DOMAIN rules : Toggle(i)) \/ UNCHANGED vars
    <3>1. turn' = turn /\ loaded' = loaded
      BY <2>3 DEF Tick, Toggle, vars
    <3> QED BY <1>1, <3>1, OtherTurn DEF RecordInv
  <2> QED BY <2>1, <2>2, <2>3 DEF Next
<1>2. EffectsWereAllowed'
  <2>1. ASSUME NEW p \in effects' PROVE p \in ProposalIds /\ Allowed(p)
    <3>1. CASE p \in effects
      BY <3>1 DEF RecordInv, EffectsWereAllowed, TypeInv, TypeOK
    <3>2. CASE p \notin effects
      <4>1. PICK t \in Turns : Run(t)
        BY <2>1, <3>2 DEF Next, TurnStep, Start, ReplyText, ReplyUnusable, ReplyCall, Record,
           RecordFails, Evaluate, Judge, Act, Resolve, Return, Break, Report, Tick, Restart,
           Toggle, vars
      <4>2. p = current(t) /\ turn[t].pc = "calling"
        BY <2>1, <3>2, <4>1 DEF Run
      <4> QED BY <4>2, CurrentIsAnId DEF RecordInv, OnRecord
    <3> QED BY <3>1, <3>2
  <2>2. ASSUME NEW p \in effects' PROVE Allowed(p)'
    BY <2>1, <2>2, HoldsStays, AllowedHolds
  <2> QED BY <2>2 DEF EffectsWereAllowed
<1>3. EmittedIsAudited'
  BY EmissionStep DEF EmittedIsAudited
<1> QED BY <1>1, <1>2, <1>3 DEF RecordInv

THEOREM RecordInvHolds == Spec => [](TypeInv /\ RecordInv)
<1>1. Init => TypeInv /\ RecordInv
  BY InitType, RecordInit
<1>2. TypeInv /\ RecordInv /\ [Next]_vars => (TypeInv /\ RecordInv)'
  BY StepType, RecordStep
<1> QED BY <1>1, <1>2, PTL DEF Spec

\* Whatever the model proposes and however turns, approvals, failures and restarts
\* interleave, a tool only ever runs after a signed ALLOW for it is on the audit log.
THEOREM EffectsWereAllowedHolds == Spec => []EffectsWereAllowed
<1>1. RecordInv => EffectsWereAllowed
  BY DEF RecordInv
<1> QED BY <1>1, RecordInvHolds, PTL

\* The dashboard only ever shows what is on the audit log.
THEOREM EmittedIsAuditedHolds == Spec => []EmittedIsAudited
<1>1. RecordInv => EmittedIsAudited
  BY DEF RecordInv
<1> QED BY <1>1, RecordInvHolds, PTL

\* Under every rule list, a call that reaches the MCP server passed every hard rule of
\* its turn, and a rule that asks for a human got its answer on the record.
THEOREM RunningCallsRespectRulesHolds == Spec => []RunningCallsRespectRules
<1>1. TypeInv /\ RecordInv => RunningCallsRespectRules
  <2> SUFFICES ASSUME TypeInv, RecordInv, NEW t \in Turns,
                      turn[t].pc \in {"calling", "reporting", "reported"}
               PROVE  /\ NotForbidden(t)
                      /\ MustAsk(t) => Holds(current(t), verdict("APPROVAL", "ALLOW"))
    BY DEF RunningCallsRespectRules, NotForbidden, MustAsk, HardRules, Holds
  <2>1. turn[t].decision.status = "ALLOW" /\ Vetted(t)
    BY TurnFacts DEF Coherent, RecordInv
  <2> QED BY <2>1 DEF Vetted, Evaluated
<1> QED BY <1>1, RecordInvHolds, PTL

-----------------------------------------------------------------------------
(* Budgets                                                                 *)

\* A call the engine let pass and that is not fed back yet.
Flying(s) == s.pc \in Evaluated /\ s.decision.status # "DENY"
InFlight(c) == {t \in turnsOf(c) : Flying(turn[t])}

\* Standing budgets are in every rule list a turn works with.
BudgetsStand ==
  /\ DOMAIN rules = DOMAIN InitialRules
  /\ \A i \in DOMAIN rules : InitialRules[i].id \notin Toggleable => rules[i] = InitialRules[i]
  /\ \A t \in Turns : turn[t].pc # "idle" => StandingBudgets \subseteq RuleSet(loaded[t])

\* Calls counted and calls on their way.
FlightBounded ==
  \A r \in StandingBudgets, c \in Convs : turnsOf(c) # {} =>
    usage[c].toolCallsMade + Cardinality(InFlight(c))
      <= r.config.maxToolCalls + Cardinality(turnsOf(c)) - 1

LEMMA FlightSizes ==
  ASSUME NEW c
  PROVE  /\ IsFiniteSet(turnsOf(c)) /\ Cardinality(turnsOf(c)) \in Nat
         /\ turnsOf(c) # {} => Cardinality(turnsOf(c)) >= 1
         /\ \A S, T : S \subseteq T /\ T \subseteq turnsOf(c) =>
              /\ IsFiniteSet(S) /\ Cardinality(S) \in Nat /\ Cardinality(T) \in Nat
              /\ Cardinality(S) <= Cardinality(T)
<1>1. turnsOf(c) \subseteq Turns /\ IsFiniteSet(Turns)
  BY DEF turnsOf
<1>2. \A T : T \subseteq Turns => IsFiniteSet(T) /\ Cardinality(T) \in Nat
  BY <1>1, FS_Subset, FS_CardinalityType
<1>3. \A S, T : S \subseteq T /\ T \subseteq Turns => Cardinality(S) <= Cardinality(T)
  BY <1>2, FS_Subset
<1>4. turnsOf(c) # {} => Cardinality(turnsOf(c)) # 0
  BY <1>1, <1>2, FS_EmptySet
<1> QED BY <1>1, <1>2, <1>3, <1>4

\* The rules a turn starts with hold every standing budget.
LEMMA StandingInTable ==
  ASSUME BudgetsStand
  PROVE  StandingBudgets \subseteq RuleSet(rules)
  BY DEF BudgetsStand, StandingBudgets, RuleSet

\* No step but an evaluation puts a call in flight, and only a report counts one, which
\* takes it out of flight.
LEMMA OwnFlight ==
  ASSUME TypeInv, NEW t \in Turns, TurnStep(t), ~Evaluate(t)
  PROVE  /\ Flying(turn'[t]) => Flying(turn[t])
         /\ \/ \A c \in Convs : usage'[c].toolCallsMade = usage[c].toolCallsMade
            \/ /\ Flying(turn[t]) /\ ~Flying(turn'[t])
               /\ \A c \in Convs : usage'[c].toolCallsMade
                    <= usage[c].toolCallsMade + (IF c = conversation[t] THEN 1 ELSE 0)
<1> USE DEF Flying
<1>1. turn[t] \in TurnState /\ Coherent(turn[t])
  BY TurnFacts
<1>2. usage \in [Convs -> [tokensUsed : Nat, toolCallsMade : Nat]] /\ conversation[t] \in Convs
  BY DEF TypeInv, TypeOK
<1>3. spendToken(t) \/ usage' = usage
        => \A c \in Convs : usage'[c].toolCallsMade = usage[c].toolCallsMade
  BY <1>2 DEF spendToken
<1>4. CASE \/ Start(t) \/ ReplyText(t) \/ ReplyUnusable(t) \/ RecordFails(t)
            \/ \E c \in Calls : ReplyCall(t, c)
  <2>1. turn'[t].pc \notin Evaluated
    BY <1>4, CallDropped DEF Evaluated
  <2>2. spendToken(t) \/ usage' = usage
    BY <1>4 DEF Start, ReplyText, ReplyUnusable, RecordFails, ReplyCall
  <2> QED BY <1>3, <2>1, <2>2
<1>8. CASE Record(t)
  <2>1. turn'[t] = [turn[t] EXCEPT !.pc = after(turn[t].pc)]
    BY <1>8, RecordLocals, LocalsFrame
  <2>2. /\ turn'[t].pc = after(turn[t].pc) /\ turn'[t].decision = turn[t].decision
        /\ turn[t].pc \in Recording /\ usage' = usage
    BY <1>1, <1>8, <2>1 DEF TurnState, Record
  <2> QED BY <1>3, <2>2 DEF Recording, Evaluated, after
<1>9. CASE Judge(t)
  <2>1. turn[t].pc = "judging" /\ usage' = usage
    BY <1>9 DEF Judge
  <2> QED BY <1>1, <1>3, <2>1 DEF Coherent, Evaluated
<1>10. CASE Act(t)
  <2>1. turn[t].pc \in Evaluated
    BY <1>10 DEF Act, Evaluated
  <2>2. CASE turn[t].decision.status # "DENY"
    BY <1>3, <1>10, <2>1, <2>2, ActLocals
  <2>3. CASE turn[t].decision.status = "DENY"
    <3>1. turn'[t] = fedBack(t) /\ FeedBack(t, FALSE)
      BY <1>10, <2>3, ActLocals, LocalsFrame
    <3>2. turn'[t].pc = "thinking" /\ usage' = usage
      BY <1>1, <3>1 DEF fedBack, TurnState, FeedBack, NextStep
    <3> QED BY <1>3, <3>2 DEF Evaluated
  <2> QED BY <2>2, <2>3
<1>11. ASSUME NEW v \in {"ALLOW", "DENY"}, Resolve(t, v)
       PROVE  Flying(turn[t]) /\ usage' = usage
  BY <1>1, <1>11 DEF Resolve, Coherent, Evaluated
<1>12. CASE Run(t) \/ Return(t) \/ Break(t)
  <2>1. turn[t].pc = "calling" /\ usage' = usage
    BY <1>12 DEF Run, Return, Break
  <2> QED BY <1>1, <1>3, <2>1 DEF Coherent, Evaluated
<1>13. CASE Report(t)
  <2>1. turn[t].pc = "reported"
    BY <1>13 DEF Report
  <2>2. turn'[t].pc \notin Evaluated
    BY <1>13, CallDropped DEF Evaluated
  <2>3. Flying(turn[t]) /\ ~Flying(turn'[t])
    BY <1>1, <2>1, <2>2 DEF Coherent, Evaluated
  <2>4. \A c \in Convs : usage'[c].toolCallsMade
           <= usage[c].toolCallsMade + (IF c = conversation[t] THEN 1 ELSE 0)
    BY <1>2, <1>13 DEF Report, FeedBack, NextStep
  <2> QED BY <2>3, <2>4
<1> HIDE DEF Flying
<1> QED BY <1>3, <1>4, <1>8, <1>9, <1>10, <1>11, <1>12, <1>13 DEF TurnStep, Flying

\* A call that evaluate lets pass leaves room under every standing budget.
LEMMA EvaluationHasRoom ==
  ASSUME TypeInv, BudgetsStand, NEW t \in Turns, turn[t].pc = "proposed",
         Evaluation(t).status # "DENY", NEW r \in StandingBudgets
  PROVE  usage[conversation[t]].toolCallsMade < r.config.maxToolCalls
<1> DEFINE u == usage[conversation[t]]
           R == RuleSet(loaded[t])
<1>1. turn[t].call \in Calls
  BY TurnFacts DEF Coherent, InCall
<1>2. ReferenceStatus(turn[t].call, R, u, isOpen(breaker)) # "DENY"
  BY <1>1, EvaluationOK
<1>3. Forbidding(turn[t].call, R, u) = {}
  BY <1>2 DEF ReferenceStatus
<1>4. r \in R
  BY DEF BudgetsStand
<1>5. r.enabled /\ applies(r, "BUDGET_LIMIT", turn[t].call) /\ r.config.maxToolCalls # Null
  BY DEF StandingBudgets, applies, toolMatches
<1>6. ~exhausted(r.config, u)
  BY <1>3, <1>4, <1>5 DEF Forbidding
<1>7. u.toolCallsMade \in Nat /\ r.config.maxToolCalls \in Nat
  BY BudgetAssumption DEF TypeInv, TypeOK
<1> QED BY <1>5, <1>6, <1>7 DEF exhausted

LEMMA BudgetsStandStep == TypeInv /\ BudgetsStand /\ [Next]_vars => BudgetsStand'
<1> SUFFICES ASSUME TypeInv, BudgetsStand, [Next]_vars PROVE BudgetsStand'
  OBVIOUS
<1>1. ASSUME rules' = rules
      PROVE  /\ DOMAIN rules' = DOMAIN InitialRules
             /\ \A i \in DOMAIN rules' :
                  InitialRules[i].id \notin Toggleable => rules'[i] = InitialRules[i]
  BY <1>1 DEF BudgetsStand
<1>2. ASSUME NEW t \in Turns, TurnStep(t) PROVE BudgetsStand'
  <2>1. rules' = rules
    BY <1>2 DEF TurnStep, Start, ReplyText, ReplyUnusable, ReplyCall, Record,
         RecordFails, Evaluate, Judge, Act, Resolve, Run, Return, Break, Report
  <2>2. ASSUME NEW u \in Turns, turn'[u].pc # "idle"
        PROVE  StandingBudgets \subseteq RuleSet(loaded'[u])
    <3>1. CASE u # t
      BY <1>2, <2>2, <3>1, StepFrame DEF BudgetsStand
    <3>2. CASE u = t /\ Start(t)
      <4>1. loaded'[u] = rules
        BY <3>2 DEF Start, TypeInv, TypeOK
      <4> QED BY <4>1, StandingInTable
    <3>3. CASE u = t /\ ~Start(t)
      <4>1. loaded' = loaded /\ turn[t].pc # "idle"
        BY <1>2, <3>3 DEF TurnStep, ReplyText, ReplyUnusable, ReplyCall, Record, RecordFails,
             Evaluate, Judge, Act, Resolve, Run, Return, Break, Report, Recording
      <4> QED BY <3>3, <4>1 DEF BudgetsStand
    <3> QED BY <3>1, <3>2, <3>3
  <2> QED BY <1>1, <2>1, <2>2 DEF BudgetsStand
<1>3. ASSUME NEW i \in DOMAIN rules, Toggle(i) PROVE BudgetsStand'
  <2>1. /\ DOMAIN rules' = DOMAIN rules /\ turn' = turn /\ loaded' = loaded
        /\ rules[i].id \in Toggleable /\ \A j \in DOMAIN rules \ {i} : rules'[j] = rules[j]
    BY <1>3 DEF Toggle
  <2> QED BY <2>1 DEF BudgetsStand
<1>4. ASSUME Restart PROVE BudgetsStand'
  <2>1. rules' = rules /\ loaded' = loaded
    BY <1>4 DEF Restart
  <2>2. ASSUME NEW u \in Turns, turn'[u].pc # "idle" PROVE turn[u].pc # "idle"
    BY <1>4, <2>2 DEF Restart
  <2> QED BY <1>1, <2>1, <2>2 DEF BudgetsStand
<1>5. ASSUME Tick \/ UNCHANGED vars PROVE BudgetsStand'
  BY <1>5 DEF Tick, vars, BudgetsStand
<1> QED BY <1>2, <1>3, <1>4, <1>5 DEF Next

LEMMA FlightStep ==
  TypeInv /\ TypeInv' /\ BudgetsStand /\ FlightBounded /\ [Next]_vars => FlightBounded'
<1> SUFFICES ASSUME TypeInv, TypeInv', BudgetsStand, FlightBounded, [Next]_vars,
                    NEW r \in StandingBudgets, NEW c \in Convs, turnsOf(c) # {}
             PROVE  usage'[c].toolCallsMade + Cardinality(InFlight(c)')
                      <= r.config.maxToolCalls + Cardinality(turnsOf(c)) - 1
  BY DEF FlightBounded, turnsOf
<1> DEFINE n == Cardinality(turnsOf(c))
           F == InFlight(c)
           G == InFlight(c)'
           k == usage[c].toolCallsMade
           m == usage'[c].toolCallsMade
<1>1. /\ F \subseteq turnsOf(c) /\ G \subseteq turnsOf(c)
      /\ Cardinality(F) \in Nat /\ Cardinality(G) \in Nat /\ n \in Nat /\ n >= 1
      /\ Cardinality(G) <= n
  <2>1. F \subseteq turnsOf(c) /\ G \subseteq turnsOf(c)
    BY DEF InFlight, turnsOf
  <2> QED BY <2>1, FlightSizes
<1>2. k \in Nat /\ m \in Nat /\ r.config.maxToolCalls \in Nat
  BY BudgetAssumption DEF TypeInv, TypeOK
<1>3. k + Cardinality(F) <= r.config.maxToolCalls + n - 1
  BY DEF FlightBounded
<1>4. ASSUME G \subseteq F, m <= k PROVE m + Cardinality(G) <= r.config.maxToolCalls + n - 1
  <2>1. Cardinality(G) <= Cardinality(F)
    BY <1>1, <1>4, FlightSizes
  <2> HIDE DEF n, F, G, k, m
  <2> QED BY <1>1, <1>2, <1>3, <1>4, <2>1
<1>5. ASSUME NEW t \in turnsOf(c), t \in F, G \subseteq F \ {t}, m <= k + 1
      PROVE  m + Cardinality(G) <= r.config.maxToolCalls + n - 1
  <2>1. IsFiniteSet(F) /\ IsFiniteSet(F \ {t})
    BY <1>1, FlightSizes
  <2>2. Cardinality(F \ {t}) = Cardinality(F) - 1
    BY <1>5, <2>1, FS_RemoveElement
  <2>3. Cardinality(G) <= Cardinality(F \ {t})
    BY <1>1, <1>5, FlightSizes
  <2> HIDE DEF n, F, G, k, m
  <2> QED BY <1>1, <1>2, <1>3, <1>5, <2>2, <2>3
<1>6. ASSUME NEW t \in Turns, TurnStep(t)
      PROVE  m + Cardinality(G) <= r.config.maxToolCalls + n - 1
  <2>1. \A u \in Turns \ {t} : turn'[u] = turn[u]
    BY <1>6, StepFrame
  <2>2. (Flying(turn'[t]) => Flying(turn[t])) => G \subseteq F
    BY <2>1 DEF InFlight, turnsOf
  <2>3. CASE Evaluate(t)
    <3>1. m = k
      BY <2>3 DEF Evaluate
    <3>2. turn'[t].decision = Evaluation(t)
      <4>1. turn'[t] = [turn[t] EXCEPT
                          !.decision = Evaluation(t), !.signed = Evaluation(t).status,
                          !.pc = IF Evaluation(t).status = "ALLOW" /\ SemanticGuard
                                 THEN "judging" ELSE "deciding"]
        BY <2>3, EvaluateLocals, LocalsFrame
      <4>2. turn[t] \in TurnState
        BY TurnFacts
      <4> QED BY <4>1, <4>2 DEF TurnState
    <3>3. CASE Evaluation(t).status = "DENY" \/ t \notin turnsOf(c)
      <4>1. G \subseteq F
        BY <2>1, <3>2, <3>3 DEF InFlight, turnsOf, Flying
      <4> HIDE DEF G, F, m, k
      <4> QED BY <1>2, <1>4, <3>1, <4>1
    <3>4. CASE Evaluation(t).status # "DENY" /\ t \in turnsOf(c)
      <4>1. k < r.config.maxToolCalls
        BY <2>3, <3>4, EvaluationHasRoom DEF Evaluate, turnsOf
      <4> HIDE DEF n, F, G, k, m
      <4> QED BY <1>1, <1>2, <3>1, <4>1
    <3> QED BY <3>3, <3>4
  <2>4. CASE ~Evaluate(t)
    <3>1. /\ Flying(turn'[t]) => Flying(turn[t])
          /\ \/ m <= k
             \/ /\ Flying(turn[t]) /\ ~Flying(turn'[t])
                /\ m <= k + (IF c = conversation[t] THEN 1 ELSE 0)
      BY <1>2, <1>6, <2>4, OwnFlight
    <3>2. G \subseteq F
      BY <2>2, <3>1
    <3>3. CASE m <= k
      BY <1>4, <3>2, <3>3
    <3>4. CASE /\ Flying(turn[t]) /\ ~Flying(turn'[t])
               /\ m <= k + (IF c = conversation[t] THEN 1 ELSE 0)
      <4>1. CASE c = conversation[t]
        <5>1. t \in turnsOf(c) /\ t \in F /\ t \notin G
          BY <3>4, <4>1 DEF InFlight, turnsOf
        <5>2. m <= k + 1
          BY <3>4, <4>1
        <5> HIDE DEF F, G, m, k, n
        <5> QED BY <1>5, <3>2, <5>1, <5>2
      <4>2. CASE c # conversation[t]
        <5>1. m <= k
          BY <1>2, <3>4, <4>2
        <5> QED BY <1>4, <3>2, <5>1
      <4> QED BY <4>1, <4>2
    <3> QED BY <3>1, <3>3, <3>4
  <2> QED BY <2>3, <2>4
<1>7. ASSUME Tick \/ UNCHANGED vars \/ \E i \in DOMAIN rules : Toggle(i)
      PROVE  m + Cardinality(G) <= r.config.maxToolCalls + n - 1
  <2>1. turn' = turn /\ usage' = usage
    BY <1>7 DEF Tick, vars, Toggle
  <2>2. G = F /\ m = k
    BY <2>1 DEF InFlight, turnsOf
  <2> QED BY <1>3, <2>2
<1>8. ASSUME Restart PROVE m + Cardinality(G) <= r.config.maxToolCalls + n - 1
  <2>1. m = 0
    BY <1>8 DEF Restart, NoUsage
  <2>2. ASSUME NEW u \in Turns PROVE ~Flying(turn'[u])
    <3>1. turn[u] \in TurnState
      BY TurnFacts
    <3>2. turn'[u].pc \in {"idle"} \cup Ended
      BY <1>8, <3>1 DEF Restart, TurnState, Ended
    <3> QED BY <3>2 DEF Flying, Evaluated, Ended
  <2>3. G = {}
    BY <2>2 DEF InFlight, turnsOf
  <2>4. Cardinality(G) = 0
    BY <2>3, FS_EmptySet
  <2> HIDE DEF n, F, G, k, m
  <2> QED BY <1>1, <1>2, <2>1, <2>4
<1> HIDE DEF n, G, m
<1>9. m + Cardinality(G) <= r.config.maxToolCalls + n - 1
  BY <1>6, <1>7, <1>8 DEF Next
<1> QED BY <1>9 DEF n, G, m

LEMMA BudgetInit == Init => BudgetsStand /\ FlightBounded
<1> SUFFICES ASSUME Init PROVE BudgetsStand /\ FlightBounded
  OBVIOUS
<1>1. BudgetsStand
  BY DEF Init, NewTurn, BudgetsStand
<1>2. ASSUME NEW r \in StandingBudgets, NEW c \in Convs, turnsOf(c) # {}
      PROVE  usage[c].toolCallsMade + Cardinality(InFlight(c))
               <= r.config.maxToolCalls + Cardinality(turnsOf(c)) - 1
  <2>1. usage[c].toolCallsMade = 0 /\ InFlight(c) = {}
    BY DEF Init, NoUsage, NewTurn, InFlight, Flying, turnsOf, Evaluated
  <2>2. Cardinality(InFlight(c)) = 0
    BY <2>1, FS_EmptySet
  <2>3. Cardinality(turnsOf(c)) \in Nat /\ Cardinality(turnsOf(c)) >= 1
    BY <1>2, FlightSizes
  <2> QED BY <2>1, <2>2, <2>3, BudgetAssumption
<1> QED BY <1>1, <1>2 DEF FlightBounded

\* However many turns of a conversation run at once and however long their calls are
\* held, a standing budget is exceeded by less than the number of those turns.
THEOREM OvershootBoundedHolds == Spec => []OvershootBounded
<1> DEFINE BInv == TypeInv /\ BudgetsStand /\ FlightBounded
<1>1. Init => BInv
  BY InitType, BudgetInit
<1>2. BInv /\ [Next]_vars => BInv'
  BY StepType, BudgetsStandStep, FlightStep
<1>3. BInv => OvershootBounded
  <2> SUFFICES ASSUME TypeInv, FlightBounded,
                      NEW r \in StandingBudgets, NEW c \in Convs, turnsOf(c) # {}
               PROVE  usage[c].toolCallsMade
                        <= r.config.maxToolCalls + Cardinality(turnsOf(c)) - 1
    BY DEF OvershootBounded
  <2>1. InFlight(c) \subseteq turnsOf(c)
    BY DEF InFlight
  <2>2. Cardinality(InFlight(c)) \in Nat /\ Cardinality(turnsOf(c)) \in Nat
    BY <2>1, FlightSizes
  <2>3. usage[c].toolCallsMade \in Nat /\ r.config.maxToolCalls \in Nat
    BY BudgetAssumption DEF TypeInv, TypeOK
  <2> QED BY <2>2, <2>3 DEF FlightBounded
<1> QED BY <1>1, <1>2, <1>3, PTL DEF Spec

-----------------------------------------------------------------------------
(* The story the trail tells                                               *)

Proposal == entry("PROPOSAL", Null, Null)
Decided(x) == <<Proposal, verdict("DECISION", x)>>
Answered(x) == <<Proposal, verdict("DECISION", "PENDING_APPROVAL"), verdict("APPROVAL", x)>>
Carried(x) == <<Proposal, verdict("DECISION", "ALLOW"), executed(x)>>
Granted(x) == <<Proposal, verdict("DECISION", "PENDING_APPROVAL"), verdict("APPROVAL", "ALLOW"),
                executed(x)>>
Results == {"success", "failure"}

\* The beginnings of the stories, the empty one and the whole ones included.
Beginnings ==
  {<<>>, <<Proposal>>} \cup {Decided(x) : x \in Statuses}
    \cup {Answered(x) : x \in {"ALLOW", "DENY"}}
    \cup {Carried(x) : x \in Results} \cup {Granted(x) : x \in Results}

LEMMA BeginningsBegin ==
  ASSUME NEW l \in Beginnings
  PROVE  \E s \in Stories : isPrefix(l, s)
<1>1. \A x \in Results : Carried(x) \in Stories /\ Granted(x) \in Stories
  BY DEF Stories, Proposal, Carried, Granted, Results
<1>2. Decided("DENY") \in Stories /\ Answered("DENY") \in Stories
  BY DEF Stories, Proposal, Decided, Answered
<1>3. /\ isPrefix(<<>>, Decided("DENY")) /\ isPrefix(<<Proposal>>, Decided("DENY"))
      /\ isPrefix(Decided("DENY"), Decided("DENY"))
      /\ isPrefix(Decided("PENDING_APPROVAL"), Answered("DENY"))
      /\ isPrefix(Answered("DENY"), Answered("DENY"))
  BY DEF isPrefix, Decided, Answered
<1>4. ASSUME NEW x \in Results
      PROVE  /\ isPrefix(Decided("ALLOW"), Carried(x)) /\ isPrefix(Carried(x), Carried(x))
             /\ isPrefix(Answered("ALLOW"), Granted(x)) /\ isPrefix(Granted(x), Granted(x))
  BY DEF isPrefix, Decided, Answered, Carried, Granted
<1>5. "success" \in Results
  BY DEF Results
<1>6. \/ l \in {<<>>, <<Proposal>>, Decided("DENY"), Decided("PENDING_APPROVAL"),
                Answered("DENY"), Decided("ALLOW"), Answered("ALLOW")}
      \/ \E x \in Results : l = Carried(x) \/ l = Granted(x)
  BY DEF Beginnings, Statuses
<1> QED BY <1>1, <1>2, <1>3, <1>4, <1>5, <1>6, Zenon

LEMMA Longer ==
  /\ \A a, b : Append(<<a>>, b) = <<a, b>>
  /\ \A a, b, c : Append(<<a, b>>, c) = <<a, b, c>>
  /\ \A a, b, c, d : Append(<<a, b, c>>, d) = <<a, b, c, d>>
<1>1. ASSUME NEW a, NEW b PROVE Append(<<a>>, b) = <<a, b>>
  <2> DEFINE l == Append(<<a>>, b)
  <2>1. l \in Seq({a, b}) /\ Len(l) = 2 /\ l[1] = a /\ l[2] = b
    OBVIOUS
  <2> HIDE DEF l
  <2>2. l = <<a, b>>
    BY <2>1
  <2> QED BY <2>2 DEF l
<1>2. ASSUME NEW a, NEW b, NEW c PROVE Append(<<a, b>>, c) = <<a, b, c>>
  <2> DEFINE l == Append(<<a, b>>, c)
  <2>1. l \in Seq({a, b, c}) /\ Len(l) = 3 /\ l[1] = a /\ l[2] = b /\ l[3] = c
    OBVIOUS
  <2> HIDE DEF l
  <2>2. l = <<a, b, c>>
    BY <2>1
  <2> QED BY <2>2 DEF l
<1>3. ASSUME NEW a, NEW b, NEW c, NEW d PROVE Append(<<a, b, c>>, d) = <<a, b, c, d>>
  <2> DEFINE l == Append(<<a, b, c>>, d)
  <2>1. /\ l \in Seq({a, b, c, d}) /\ Len(l) = 4
        /\ l[1] = a /\ l[2] = b /\ l[3] = c /\ l[4] = d
    OBVIOUS
  <2> HIDE DEF l
  <2>2. l = <<a, b, c, d>>
    BY <2>1
  <2> QED BY <2>2 DEF l
<1> QED BY <1>1, <1>2, <1>3

\* What the trail of the proposal in hand reads as, at each point of the turn.
ReadsAs(s, l) ==
  /\ s.pc \in {"idle", "thinking", "proposing"} => l = <<>>
  /\ s.pc \in {"proposed", "judging", "deciding"} => l = <<Proposal>>
  /\ s.pc = "decided" => l = Decided(s.decision.status)
  /\ s.pc \in {"parked", "resolving"} => l = Decided("PENDING_APPROVAL")
  /\ s.pc = "resolved" => l = Answered(s.decision.status)
  /\ s.pc \in {"calling", "reporting"} => l \in {Decided("ALLOW"), Answered("ALLOW")}

StoryInv ==
  /\ \A p \in ProposalIds : trail[p] \in Beginnings
  /\ \A t \in Turns : ReadsAs(turn[t], trail[current(t)])
  /\ \A t \in Turns, k \in 0 .. MaxSteps : k > turn[t].step => trail[<<t, k>>] = <<>>

\* The next entry of a story makes a story, the one the turn then stands at.
LEMMA NextChapter ==
  ASSUME NEW s \in TurnState, Coherent(s), s.pc \in Recording, NEW l, ReadsAs(s, l)
  PROVE  LET e == CASE s.pc = "proposing" -> entry("PROPOSAL", Null, Null)
                    [] s.pc = "deciding"  -> entry("DECISION", s.decision.status, s.signed)
                    [] s.pc = "resolving" -> entry("APPROVAL", s.decision.status, s.signed)
                    [] s.pc = "reporting" ->
                         entry("EXECUTION", IF s.success THEN "success" ELSE "failure", Null)
         IN  /\ Append(l, e) \in Beginnings
             /\ ReadsAs([s EXCEPT !.pc = after(s.pc)], Append(l, e))
<1> DEFINE r == [s EXCEPT !.pc = after(s.pc)]
<1>1. CASE s.pc = "proposing"
  <2>1. l = <<>> /\ Append(l, Proposal) = <<Proposal>>
    BY <1>1 DEF ReadsAs
  <2>2. r.pc = "proposed"
    BY <1>1 DEF after, TurnState
  <2>3. <<Proposal>> \in Beginnings
    BY DEF Beginnings
  <2> QED BY <1>1, <2>1, <2>2, <2>3 DEF ReadsAs, Proposal
<1>2. CASE s.pc = "deciding"
  <2> DEFINE x == s.decision.status
  <2>1. x \in Statuses /\ s.signed = x
    BY <1>2 DEF Coherent, Evaluated, Decision, Statuses
  <2>2. l = <<Proposal>>
    BY <1>2 DEF ReadsAs
  <2>3. Append(<<Proposal>>, verdict("DECISION", x)) = Decided(x)
    BY Longer DEF Decided
  <2>4. r.pc = "decided" /\ r.decision.status = x
    BY <1>2 DEF after, TurnState
  <2>5. Decided(x) \in Beginnings
    BY <2>1 DEF Beginnings
  <2> HIDE DEF r, x
  <2>6. ReadsAs(r, Decided(x))
    BY <2>4 DEF ReadsAs
  <2>7. verdict("DECISION", x) = entry("DECISION", x, s.signed)
    BY <2>1 DEF verdict
  <2> QED BY <1>2, <2>2, <2>3, <2>5, <2>6, <2>7 DEF x, r
<1>3. CASE s.pc = "resolving"
  <2> DEFINE x == s.decision.status
  <2>1. x \in {"ALLOW", "DENY"} /\ s.signed = x
    BY <1>3 DEF Coherent, Evaluated
  <2>2. l = Decided("PENDING_APPROVAL")
    BY <1>3 DEF ReadsAs
  <2>3. Append(Decided("PENDING_APPROVAL"), verdict("APPROVAL", x)) = Answered(x)
    BY Longer DEF Decided, Answered
  <2>4. r.pc = "resolved" /\ r.decision.status = x
    BY <1>3 DEF after, TurnState
  <2>5. Answered(x) \in Beginnings
    BY <2>1 DEF Beginnings
  <2> HIDE DEF r, x
  <2>6. ReadsAs(r, Answered(x))
    BY <2>4 DEF ReadsAs
  <2>7. verdict("APPROVAL", x) = entry("APPROVAL", x, s.signed)
    BY <2>1 DEF verdict
  <2> QED BY <1>3, <2>2, <2>3, <2>5, <2>6, <2>7 DEF x, r
<1>4. CASE s.pc = "reporting"
  <2> DEFINE x == IF s.success THEN "success" ELSE "failure"
  <2>1. x \in Results
    BY DEF Results
  <2>2. l = Decided("ALLOW") \/ l = Answered("ALLOW")
    BY <1>4 DEF ReadsAs
  <2>3. /\ Append(Decided("ALLOW"), executed(x)) = Carried(x)
        /\ Append(Answered("ALLOW"), executed(x)) = Granted(x)
    <3> HIDE DEF x
    <3>1. Append(Decided("ALLOW"), executed(x)) = Carried(x)
      BY Longer DEF Decided, Carried
    <3>2. Append(Answered("ALLOW"), executed(x)) = Granted(x)
      BY Longer, Zenon DEF Answered, Granted
    <3> QED BY <3>1, <3>2
  <2>4. r.pc = "reported"
    BY <1>4 DEF after, TurnState
  <2> HIDE DEF x, r
  <2>5. Carried(x) \in Beginnings /\ Granted(x) \in Beginnings
    BY <2>1 DEF Beginnings
  <2>6. \A k : ReadsAs(r, k)
    BY <2>4 DEF ReadsAs
  <2>7. executed(x) = entry("EXECUTION", x, Null)
    BY DEF executed
  <2> QED BY <1>4, <2>2, <2>3, <2>5, <2>6, <2>7 DEF x, r
<1> QED BY <1>1, <1>2, <1>3, <1>4 DEF Recording

\* The three ways a turn moves: without a word on the trail, to the next proposal, or
\* with an entry about the one in hand.
LEMMA Untold ==
  ASSUME TypeInv, StoryInv, NEW t \in Turns, NEW s, StepsTo(t, s), trail' = trail,
         s.step = turn[t].step, ReadsAs(s, trail[current(t)])
  PROVE  StoryInv'
<1>1. /\ turn'[t] = s /\ \A u \in Turns \ {t} : turn'[u] = turn[u]
  BY LocalsFrame
<1> HIDE DEF ReadsAs, Beginnings
<1> QED BY <1>1 DEF StoryInv, current

LEMMA MovedOn ==
  ASSUME TypeInv, StoryInv, NEW t \in Turns, StepsTo(t, fedBack(t)), trail' = trail
  PROVE  StoryInv'
<1>1. /\ turn'[t] = fedBack(t) /\ \A u \in Turns \ {t} : turn'[u] = turn[u]
  BY LocalsFrame
<1>2. turn[t] \in TurnState /\ fedBack(t) \in TurnState
  BY TurnFacts DEF StepsTo
<1>3. turn'[t].pc = "thinking" /\ turn'[t].step = turn[t].step + 1
  BY <1>1, <1>2 DEF fedBack, TurnState
<1>4. turn'[t].step \in 0 .. MaxSteps /\ turn[t].step \in Nat
  BY <1>1, <1>2 DEF TurnState
<1>5. trail[<<t, turn'[t].step>>] = <<>>
  BY <1>3, <1>4 DEF StoryInv
<1>6. ReadsAs(turn'[t], <<>>)
  BY <1>3 DEF ReadsAs
<1> HIDE DEF ReadsAs, Beginnings
<1>7. \A u \in Turns : ReadsAs(turn'[u], trail'[<<u, turn'[u].step>>])
  BY <1>1, <1>5, <1>6 DEF StoryInv, current
<1>8. \A u \in Turns, k \in 0 .. MaxSteps : k > turn'[u].step => trail'[<<u, k>>] = <<>>
  <2> SUFFICES ASSUME NEW u \in Turns, NEW k \in 0 .. MaxSteps, k > turn'[u].step
               PROVE  trail[<<u, k>>] = <<>>
    OBVIOUS
  <2>1. k > turn[u].step
    <3>1. CASE u = t
      BY <1>3, <1>4, <3>1
    <3>2. CASE u # t
      BY <1>1, <3>2
    <3> QED BY <3>1, <3>2
  <2> QED BY <2>1 DEF StoryInv
<1> QED BY <1>7, <1>8 DEF StoryInv, current

LEMMA Told ==
  ASSUME TypeInv, StoryInv, NEW t \in Turns, NEW s, StepsTo(t, s),
         NEW l \in Beginnings, trail' = [trail EXCEPT ![current(t)] = l],
         s.step = turn[t].step, ReadsAs(s, l)
  PROVE  StoryInv'
<1>1. /\ turn'[t] = s /\ \A u \in Turns \ {t} : turn'[u] = turn[u]
  BY LocalsFrame
<1>2. trail \in [ProposalIds -> Seq(Entries)] /\ current(t) \in ProposalIds
  BY CurrentIsAnId DEF TypeInv, TypeOK
<1>3. trail'[current(t)] = l /\ \A p \in ProposalIds \ {current(t)} : trail'[p] = trail[p]
  BY <1>2
<1>4. \A u \in Turns : turn'[u].step = turn[u].step /\ current(u)' = current(u)
                       /\ current(u) \in ProposalIds /\ turn[u].step \in 0 .. MaxSteps
  BY <1>1, CurrentIsAnId, TurnFacts DEF current, TurnState
<1>5. \A u \in Turns \ {t} : current(u) # current(t)
  BY DEF current
<1> HIDE DEF ReadsAs, Beginnings, Entries
<1>6. \A u \in Turns : ReadsAs(turn'[u], trail'[current(u)])
  BY <1>1, <1>3, <1>4, <1>5 DEF StoryInv
<1>7. \A u \in Turns, k \in 0 .. MaxSteps : k > turn'[u].step => trail'[<<u, k>>] = <<>>
  <2> SUFFICES ASSUME NEW u \in Turns, NEW k \in 0 .. MaxSteps, k > turn[u].step
               PROVE  trail'[<<u, k>>] = <<>>
    BY <1>4
  <2>1. <<u, k>> \in ProposalIds /\ <<u, k>> # current(t)
    BY <1>4 DEF ProposalIds, current
  <2> QED BY <1>3, <2>1 DEF StoryInv
<1>8. \A p \in ProposalIds : trail'[p] \in Beginnings
  BY <1>3 DEF StoryInv
<1> QED BY <1>4, <1>6, <1>7, <1>8 DEF StoryInv

LEMMA StoryInit == Init => StoryInv
<1> SUFFICES ASSUME Init PROVE StoryInv
  OBVIOUS
<1>1. \A p \in ProposalIds : trail[p] = <<>>
  BY DEF Init
<1>2. \A t \in Turns : turn[t].pc = "idle" /\ current(t) \in ProposalIds
  BY DEF Init, NewTurn, current, ProposalIds
<1>3. <<>> \in Beginnings
  BY DEF Beginnings
<1>4. \A t \in Turns, k \in 0 .. MaxSteps : <<t, k>> \in ProposalIds
  BY DEF ProposalIds
<1>5. \A t \in Turns : ReadsAs(turn[t], trail[current(t)])
  BY <1>1, <1>2 DEF ReadsAs
<1> QED BY <1>1, <1>3, <1>4, <1>5 DEF StoryInv

LEMMA StoryStep == TypeInv /\ StoryInv /\ [Next]_vars => StoryInv'
<1> SUFFICES ASSUME TypeInv, StoryInv, [Next]_vars PROVE StoryInv'
  OBVIOUS
<1>1. ASSUME NEW t \in Turns, TurnStep(t) PROVE StoryInv'
  <2> DEFINE l == trail[current(t)]
  <2>0. turn[t] \in TurnState /\ Coherent(turn[t]) /\ ReadsAs(turn[t], l)
    BY TurnFacts DEF StoryInv
  <2>1. CASE Start(t)
    <3>1. ReadsAs([turn[t] EXCEPT !.pc = "thinking"], l) /\ trail' = trail
      BY <2>0, <2>1 DEF Start, ReadsAs, TurnState
    <3> QED BY <2>0, <2>1, <3>1, StartLocals, Untold DEF TurnState
  <2>2. CASE ReplyText(t)
    <3> DEFINE s == [turn[t] EXCEPT !.pc = IF turn[t].step < MaxSteps THEN "done" ELSE "maxsteps"]
    <3>1. ReadsAs(s, l) /\ trail' = trail /\ s.step = turn[t].step
      BY <2>0, <2>2 DEF ReplyText, ReadsAs, TurnState
    <3>2. StepsTo(t, s)
      BY <2>2, ReplyTextLocals
    <3> QED BY <3>1, <3>2, Untold
  <2>3. ASSUME NEW c \in Calls, ReplyCall(t, c) PROVE StoryInv'
    <3> DEFINE s == IF turn[t].step < MaxSteps
                    THEN [turn[t] EXCEPT !.pc = "proposing", !.call = c]
                    ELSE [turn[t] EXCEPT !.pc = "maxsteps"]
    <3>1. ReadsAs(s, l) /\ trail' = trail /\ s.step = turn[t].step
      BY <2>0, <2>3 DEF ReplyCall, ReadsAs, TurnState
    <3>2. StepsTo(t, s)
      BY <2>3, ReplyCallLocals
    <3> QED BY <3>1, <3>2, Untold
  <2>4. ASSUME ReplyUnusable(t) \/ RecordFails(t), trail' = trail PROVE StoryInv'
    <3> DEFINE s == [turn[t] EXCEPT !.pc = "failed"]
    <3>1. ReadsAs(s, l) /\ s.step = turn[t].step
      BY <2>0 DEF ReadsAs, TurnState
    <3>2. StepsTo(t, s)
      BY <2>4, ReplyUnusableLocals, RecordFailsLocals
    <3> QED BY <2>4, <3>1, <3>2, Untold
  <2>5. CASE Record(t) \/ (RecordFails(t) /\ append(t))
    <3> DEFINE e == entryOf(t)
               k == Append(l, e)
    <3>1. turn[t].pc \in Recording /\ append(t)
      BY <2>5 DEF Record, RecordFails
    <3>2. k \in Beginnings /\ ReadsAs([turn[t] EXCEPT !.pc = after(turn[t].pc)], k)
      BY <2>0, <3>1, NextChapter, Zenon DEF entryOf
    <3>3. trail' = [trail EXCEPT ![current(t)] = k]
      <4>1. current(t) \in ProposalIds /\ DOMAIN trail = ProposalIds
        BY CurrentIsAnId DEF TypeInv, TypeOK
      <4> QED BY <3>1, <4>1 DEF append
    <3>4. CASE Record(t)
      <4> DEFINE s == [turn[t] EXCEPT !.pc = after(turn[t].pc)]
      <4>1. StepsTo(t, s) /\ s.step = turn[t].step
        BY <2>0, <3>4, RecordLocals DEF TurnState
      <4> HIDE DEF k, s
      <4> QED BY <3>2, <3>3, <4>1, Told DEF s
    <3>5. CASE RecordFails(t)
      <4> DEFINE s == [turn[t] EXCEPT !.pc = "failed"]
      <4>1. StepsTo(t, s) /\ s.step = turn[t].step /\ s.pc = "failed"
        BY <2>0, <3>5, RecordFailsLocals DEF TurnState
      <4> HIDE DEF k, s
      <4>2. ReadsAs(s, k)
        BY <4>1 DEF ReadsAs
      <4> QED BY <3>2, <3>3, <4>1, <4>2, Told
    <3> QED BY <2>5, <3>4, <3>5
  <2>6. CASE Evaluate(t)
    <3> DEFINE d == Evaluation(t)
               s == [turn[t] EXCEPT !.decision = d, !.signed = d.status,
                                    !.pc = IF d.status = "ALLOW" /\ SemanticGuard
                                           THEN "judging" ELSE "deciding"]
    <3>1. StepsTo(t, s)
      BY <2>6, EvaluateLocals
    <3> HIDE DEF d
    <3>2. s.pc \in {"judging", "deciding"} /\ s.step = turn[t].step
      BY <2>0 DEF TurnState
    <3>3. turn[t].pc = "proposed" /\ trail' = trail
      BY <2>6 DEF Evaluate
    <3> HIDE DEF s
    <3>4. ReadsAs(s, l)
      BY <2>0, <3>2, <3>3 DEF ReadsAs
    <3> QED BY <3>1, <3>2, <3>3, <3>4, Untold
  <2>7. CASE Judge(t)
    <3>1. PICK s : /\ StepsTo(t, s)
                   /\ s \in {[turn[t] EXCEPT !.pc = "deciding"],
                             [turn[t] EXCEPT !.pc = "deciding", !.decision = Deny(Null),
                                             !.signed = "DENY"]}
      BY <2>7, JudgeLocals
    <3>2. s.pc = "deciding" /\ s.step = turn[t].step
      BY <2>0, <3>1 DEF TurnState
    <3>3. turn[t].pc = "judging" /\ trail' = trail
      BY <2>7 DEF Judge
    <3>4. ReadsAs(s, l)
      BY <2>0, <3>2, <3>3 DEF ReadsAs
    <3> QED BY <3>1, <3>2, <3>3, <3>4, Untold
  <2>8. CASE Act(t)
    <3>1. trail' = trail /\ turn[t].pc \in {"decided", "resolved"}
      BY <2>8 DEF Act
    <3>2. ASSUME StepsTo(t, [turn[t] EXCEPT !.pc = "parked"]), turn[t].pc = "decided",
                 turn[t].decision.status = "PENDING_APPROVAL"
          PROVE  StoryInv'
      <4>1. ReadsAs([turn[t] EXCEPT !.pc = "parked"], l)
        BY <2>0, <3>2 DEF ReadsAs, TurnState
      <4> QED BY <2>0, <3>1, <3>2, <4>1, Untold DEF TurnState
    <3>3. ASSUME StepsTo(t, [turn[t] EXCEPT !.pc = "calling"]),
                 turn[t].decision.status = "ALLOW"
          PROVE  StoryInv'
      <4>1. ReadsAs([turn[t] EXCEPT !.pc = "calling"], l)
        BY <2>0, <3>1, <3>3 DEF ReadsAs, TurnState
      <4> QED BY <2>0, <3>1, <3>3, <4>1, Untold DEF TurnState
    <3> QED BY <2>8, <3>1, <3>2, <3>3, ActLocals, MovedOn
  <2>9. ASSUME NEW v \in {"ALLOW", "DENY"}, Resolve(t, v) PROVE StoryInv'
    <3> DEFINE s == [turn[t] EXCEPT !.pc = "resolving", !.decision.status = v, !.signed = v]
    <3>1. StepsTo(t, s)
      BY <2>9, ResolveLocals
    <3>2. s.pc = "resolving" /\ s.step = turn[t].step
      BY <2>0 DEF TurnState
    <3>3. turn[t].pc = "parked" /\ trail' = trail
      BY <2>9 DEF Resolve
    <3> HIDE DEF s
    <3>4. ReadsAs(s, l)
      BY <2>0, <3>2, <3>3 DEF ReadsAs
    <3> QED BY <3>1, <3>2, <3>3, <3>4, Untold
  <2>10. CASE Run(t)
    BY <2>10 DEF Run, StoryInv, current
  <2>11. CASE Return(t) \/ Break(t)
    <3>1. PICK ok \in BOOLEAN :
            StepsTo(t, [turn[t] EXCEPT !.pc = "reporting", !.success = ok])
      BY <2>11, ReturnLocals, BreakLocals
    <3> DEFINE s == [turn[t] EXCEPT !.pc = "reporting", !.success = ok]
    <3>2. s.pc = "reporting" /\ s.step = turn[t].step
      BY <2>0 DEF TurnState
    <3>3. turn[t].pc = "calling" /\ trail' = trail
      BY <2>11 DEF Return, Break
    <3>4. ReadsAs(s, l)
      BY <2>0, <3>2, <3>3 DEF ReadsAs
    <3> QED BY <3>1, <3>2, <3>3, <3>4, Untold
  <2>12. CASE Report(t)
    <3>1. trail' = trail
      BY <2>12 DEF Report
    <3> QED BY <2>12, <3>1, ReportLocals, MovedOn
  <2>13. ASSUME ReplyUnusable(t) \/ RecordFails(t)
         PROVE  trail' = trail \/ (RecordFails(t) /\ append(t))
    BY <2>13 DEF ReplyUnusable, RecordFails
  <2> HIDE DEF l
  <2> QED BY <1>1, <2>1, <2>2, <2>3, <2>4, <2>5, <2>6, <2>7, <2>8, <2>9, <2>10, <2>11, <2>12,
             <2>13, Zenon DEF TurnStep
<1>2. CASE Restart
  <2>1. \A u \in Turns :
          /\ turn'[u].step = turn[u].step
          /\ turn'[u] = turn[u] \/ turn'[u].pc = "failed"
    BY <1>2, TurnFacts DEF Restart, TurnState
  <2>2. \A u \in Turns : ReadsAs(turn'[u], trail[current(u)])
    BY <2>1 DEF StoryInv, ReadsAs
  <2>3. trail' = trail
    BY <1>2 DEF Restart
  <2> QED BY <2>1, <2>2, <2>3 DEF StoryInv, current
<1>3. ASSUME Tick \/ (\E i \in DOMAIN rules : Toggle(i)) \/ UNCHANGED vars PROVE StoryInv'
  BY <1>3 DEF Tick, Toggle, vars, StoryInv, current
<1> QED BY <1>1, <1>2, <1>3 DEF Next

\* Wherever a turn is interrupted, the entries of every proposal read as the beginning of
\* one of the stories the loop can write, each verdict signed as what it says.
THEOREM TrailTellsAStoryHolds == Spec => []TrailTellsAStory
<1>1. Init => TypeInv /\ StoryInv
  BY InitType, StoryInit
<1>2. TypeInv /\ StoryInv /\ [Next]_vars => (TypeInv /\ StoryInv)'
  BY StepType, StoryStep
<1>3. TypeInv /\ StoryInv => TrailTellsAStory
  BY BeginningsBegin DEF StoryInv, TrailTellsAStory
<1> QED BY <1>1, <1>2, <1>3, PTL DEF Spec

-----------------------------------------------------------------------------
(* The tally of tool calls and the successes on record                     *)

\* The successes on record that a conversation's turns are done with.
Past(c) == {p \in succeeded(c) : p[2] < turn[p[1]].step}
TallyInv == \A c \in Convs : usage[c].toolCallsMade <= Cardinality(Past(c))

LEMMA PastSizes ==
  ASSUME NEW S, NEW T, S \subseteq T, T \subseteq ProposalIds
  PROVE  /\ IsFiniteSet(S) /\ Cardinality(S) \in Nat /\ Cardinality(T) \in Nat
         /\ Cardinality(S) <= Cardinality(T)
<1>1. IsFiniteSet(0 .. MaxSteps)
  BY FS_Interval
<1>2. IsFiniteSet(ProposalIds)
  BY <1>1, FS_Product DEF ProposalIds
<1>3. IsFiniteSet(T)
  BY <1>2, FS_Subset
<1>4. IsFiniteSet(S) /\ Cardinality(S) <= Cardinality(T)
  BY <1>3, FS_Subset
<1> QED BY <1>3, <1>4, FS_CardinalityType

\* A turn never goes back a step, and only the report of a success counts, which goes on
\* to the next step.
LEMMA OwnTally ==
  ASSUME TypeInv, NEW t \in Turns, TurnStep(t)
  PROVE  /\ turn'[t].step >= turn[t].step
         /\ \/ \A c \in Convs : usage'[c].toolCallsMade = usage[c].toolCallsMade
            \/ /\ turn[t].pc = "reported" /\ turn[t].success
               /\ turn'[t].step = turn[t].step + 1
               /\ \A c \in Convs : usage'[c].toolCallsMade
                    = usage[c].toolCallsMade + (IF c = conversation[t] THEN 1 ELSE 0)
<1>1. turn[t] \in TurnState /\ turn[t].step \in Nat /\ turn \in [Turns -> TurnState]
  BY TurnFacts DEF TurnState
<1>2. usage \in [Convs -> [tokensUsed : Nat, toolCallsMade : Nat]] /\ conversation[t] \in Convs
  BY DEF TypeInv, TypeOK
<1>3. spendToken(t) \/ usage' = usage
        => \A c \in Convs : usage'[c].toolCallsMade = usage[c].toolCallsMade
  BY <1>2 DEF spendToken
<1>4. ASSUME turn[t].pc \in InCall, NEW ok \in BOOLEAN, FeedBack(t, ok)
      PROVE  turn'[t].step = turn[t].step + 1
  <2>1. turn'[t] = fedBack(t)
    BY <1>4, FeedBackLocals, LocalsFrame
  <2> QED BY <1>1, <2>1 DEF fedBack, TurnState
<1>5. CASE Report(t)
  <2>1. /\ turn[t].pc = "reported" /\ turn[t].success \in BOOLEAN
        /\ FeedBack(t, turn[t].success)
    BY <1>1, <1>5 DEF Report, TurnState
  <2>2. turn[t].pc \in InCall
    BY <2>1 DEF InCall, Evaluated
  <2>3. turn'[t].step = turn[t].step + 1
    <3>1. turn'[t] = fedBack(t)
      BY <1>5, ReportLocals, LocalsFrame
    <3> QED BY <1>1, <3>1 DEF fedBack, TurnState
  <2>4. CASE turn[t].success
    <3>1. \A c \in Convs : usage'[c].toolCallsMade
             = usage[c].toolCallsMade + (IF c = conversation[t] THEN 1 ELSE 0)
      BY <1>2, <2>1, <2>4 DEF FeedBack
    <3> QED BY <1>1, <2>1, <2>3, <2>4, <3>1
  <2>5. CASE ~turn[t].success
    <3>1. usage' = usage
      BY <2>1, <2>5 DEF FeedBack
    <3> QED BY <1>1, <1>3, <2>3, <3>1
  <2> QED BY <2>4, <2>5
<1>6. CASE Act(t)
  <2>1. turn[t].pc \in InCall
    BY <1>6 DEF Act, InCall, Evaluated
  <2>2. CASE turn[t].decision.status = "DENY"
    <3>1. FeedBack(t, FALSE)
      BY <1>6, <2>2, ActLocals
    <3>2. usage' = usage
      BY <3>1 DEF FeedBack
    <3>3. turn'[t].step = turn[t].step + 1
      BY <2>1, <3>1, <1>4
    <3>4. turn'[t].step >= turn[t].step
      BY <1>1, <3>3
    <3> QED BY <1>3, <3>2, <3>4
  <2>3. CASE turn[t].decision.status # "DENY"
    <3>1. /\ usage' = usage
          /\ \E s : s.step = turn[t].step /\ StepsTo(t, s)
      BY <1>1, <1>6, <2>3, ActLocals DEF TurnState
    <3> QED BY <1>1, <1>3, <3>1, LocalsFrame
  <2> QED BY <2>2, <2>3
<1>7. CASE ~Report(t) /\ ~Act(t)
  <2>1. spendToken(t) \/ usage' = usage
    BY <1>7 DEF TurnStep, Start, ReplyText, ReplyUnusable, ReplyCall, Record, RecordFails,
                Evaluate, Judge, Resolve, Run, Return, Break
  <2>2. turn'[t].step = turn[t].step
    BY <1>1, <1>7 DEF TurnState, TurnStep, Start, ReplyText, ReplyUnusable, ReplyCall, Record,
                      RecordFails, Evaluate, Judge, Resolve, Run, Return, Break
  <2> QED BY <1>1, <1>3, <2>1, <2>2
<1> QED BY <1>5, <1>6, <1>7

LEMMA TallyInit == Init => TallyInv
<1> SUFFICES ASSUME Init, NEW c \in Convs
             PROVE  usage[c].toolCallsMade <= Cardinality(Past(c))
  BY DEF TallyInv
<1>1. usage[c].toolCallsMade = 0
  BY DEF Init, NoUsage
<1>2. Past(c) \subseteq ProposalIds
  BY DEF Past, succeeded
<1> QED BY <1>1, <1>2, PastSizes

LEMMA TallyStep ==
  TypeInv /\ TypeInv' /\ RecordInv /\ TallyInv /\ [Next]_vars => TallyInv'
<1> SUFFICES ASSUME TypeInv, TypeInv', RecordInv, TallyInv, [Next]_vars, NEW c \in Convs
             PROVE  usage'[c].toolCallsMade <= Cardinality(Past(c)')
  BY DEF TallyInv
<1> DEFINE P == Past(c)
           Q == Past(c)'
           k == usage[c].toolCallsMade
           m == usage'[c].toolCallsMade
<1>1. k <= Cardinality(P) /\ k \in Nat /\ m \in Nat
  BY DEF TallyInv, TypeInv, TypeOK
<1>2. P \subseteq ProposalIds /\ Q \subseteq ProposalIds
  BY DEF Past, succeeded
<1>3. \A p \in succeeded(c) : p \in succeeded(c)'
  BY HoldsStays DEF succeeded, Holds
<1>4. \A p \in ProposalIds : p[1] \in Turns
  BY DEF ProposalIds
<1>5. \A u \in Turns : turn[u].step \in Nat /\ turn'[u].step \in Nat
  BY DEF TypeInv, TypeOK, TurnState
<1>6. ASSUME \A u \in Turns : turn'[u].step >= turn[u].step
      PROVE  P \subseteq Q
  <2> SUFFICES ASSUME NEW p \in P PROVE p \in Q
    OBVIOUS
  <2>1. p \in succeeded(c) /\ p[2] < turn[p[1]].step /\ p[1] \in Turns /\ p[2] \in Nat
    BY <1>4 DEF Past, succeeded, ProposalIds
  <2>2. p[2] < turn'[p[1]].step
    BY <1>5, <1>6, <2>1
  <2> QED BY <1>3, <2>1, <2>2 DEF Past
<1>7. ASSUME P \subseteq Q, m <= k PROVE m <= Cardinality(Q)
  <2>1. /\ Cardinality(P) \in Nat /\ Cardinality(Q) \in Nat
        /\ Cardinality(P) <= Cardinality(Q)
    BY <1>2, <1>7, PastSizes
  <2> HIDE DEF P, Q, k, m
  <2> QED BY <1>1, <1>7, <2>1
<1>8. ASSUME NEW t \in Turns, TurnStep(t) PROVE m <= Cardinality(Q)
  <2>1. \A u \in Turns : turn'[u].step >= turn[u].step
    BY <1>5, <1>8, OwnTally, StepFrame
  <2>2. CASE m = k
    <3> HIDE DEF P, Q, k, m
    <3> QED BY <1>1, <1>6, <1>7, <2>1, <2>2
  <2>3. CASE m # k
    <3>1. /\ turn[t].pc = "reported" /\ turn[t].success /\ c = conversation[t]
          /\ turn'[t].step = turn[t].step + 1 /\ m = k + 1
      BY <1>1, <1>8, <2>3, OwnTally
    <3>2. current(t) \in ProposalIds /\ Holds(current(t), executed("success"))
      BY <3>1, CurrentIsAnId DEF RecordInv, OnRecord, Result
    <3>3. current(t) \in succeeded(c)
      BY <3>1, <3>2 DEF succeeded, Holds, current
    <3>4. current(t) \in Q /\ current(t) \notin P
      BY <1>3, <1>5, <3>1, <3>3 DEF Past, current
    <3>5. P \cup {current(t)} \subseteq Q
      BY <1>6, <2>1, <3>4
    <3>6. IsFiniteSet(P) /\ Cardinality(P) \in Nat /\ Cardinality(Q) \in Nat
      BY <1>2, PastSizes
    <3>7. Cardinality(P \cup {current(t)}) = Cardinality(P) + 1
      BY <3>4, <3>6, FS_AddElement
    <3>8. Cardinality(P \cup {current(t)}) <= Cardinality(Q)
      BY <1>2, <3>5, PastSizes
    <3> HIDE DEF P, Q, k, m
    <3> QED BY <1>1, <3>1, <3>6, <3>7, <3>8
  <2> QED BY <2>2, <2>3
<1>9. CASE Restart
  <2>1. m = 0
    BY <1>9 DEF Restart, NoUsage
  <2>2. Cardinality(Q) \in Nat
    BY <1>2, PastSizes
  <2> QED BY <2>1, <2>2
<1>10. ASSUME Tick \/ (\E i \in DOMAIN rules : Toggle(i)) \/ UNCHANGED vars
       PROVE  m <= Cardinality(Q)
  <2>1. turn' = turn /\ usage' = usage
    BY <1>10 DEF Tick, Toggle, vars
  <2>2. P \subseteq Q
    BY <1>5, <1>6, <2>1
  <2> QED BY <1>1, <1>7, <2>1, <2>2
<1> DEFINE Goal == m <= Cardinality(Q)
<1> HIDE DEF Goal
<1>11. Goal
  <2>1. ASSUME NEW t \in Turns, TurnStep(t) PROVE Goal
    BY <1>8, <2>1 DEF Goal
  <2>2. Next => Goal
    BY <1>9, <1>10, <2>1 DEF Next, Goal
  <2> QED BY <1>10, <2>2 DEF Goal
<1> QED BY <1>11 DEF Goal

\* However turns, failures and restarts interleave, a conversation's tool calls are never
\* counted beyond the successes the audit log shows for it.
THEOREM TallyIsOnRecordHolds == Spec => []TallyIsOnRecord
<1>1. Init => TypeInv /\ RecordInv /\ TallyInv
  BY InitType, RecordInit, TallyInit
<1>2. TypeInv /\ RecordInv /\ TallyInv /\ [Next]_vars => (TypeInv /\ RecordInv /\ TallyInv)'
  BY StepType, RecordStep, TallyStep
<1>3. TypeInv /\ TallyInv => TallyIsOnRecord
  <2> SUFFICES ASSUME TypeInv, TallyInv, NEW c \in Convs
               PROVE  usage[c].toolCallsMade <= Cardinality(succeeded(c))
    BY DEF TallyIsOnRecord
  <2>1. Past(c) \subseteq succeeded(c) /\ succeeded(c) \subseteq ProposalIds
    BY DEF Past, succeeded
  <2>2. /\ Cardinality(Past(c)) \in Nat /\ Cardinality(succeeded(c)) \in Nat
        /\ Cardinality(Past(c)) <= Cardinality(succeeded(c))
    BY <2>1, PastSizes
  <2>3. usage[c].toolCallsMade <= Cardinality(Past(c)) /\ usage[c].toolCallsMade \in Nat
    BY DEF TallyInv, TypeInv, TypeOK
  <2> QED BY <2>2, <2>3
<1> QED BY <1>1, <1>2, <1>3, PTL DEF Spec
=============================================================================
