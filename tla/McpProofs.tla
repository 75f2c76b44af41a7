------------------------------ MODULE McpProofs ------------------------------
(***************************************************************************)
(* Proofs about the MCP side of the server: the circuit breaker that the   *)
(* registry's hooks feed, for any number of servers, of concurrent turns,  *)
(* any threshold and any cooldown; and, in the second half, the registry,  *)
(* its calls and the memory of the processes they reach, for any number of *)
(* servers, clients, calls and disconnects.                                *)
(***************************************************************************)
EXTENDS BreakerClients, McpRegistry, FiniteSetTheorems, SequenceTheorems, TLAPS

-----------------------------------------------------------------------------
(* The breaker: the invariant                                              *)

\* The history never lags behind the count it explains.
CountWithinStreak ==
  \A s \in Servers : breaker[s].failureCount <= streak[s] \/ streak[s] = Threshold

\* The inductive invariant: the count of a closed breaker is below the threshold, so
\* one more call fits under the bound; once it is open no call is admitted and a
\* failure only moves one unit from the calls under way to the count.
IInv ==
  /\ TypeOK
  /\ OpenExactlyAtThreshold
  /\ CountWithinStreak
  /\ LateFailuresBounded

-----------------------------------------------------------------------------
(* The methods of one breaker                                              *)

WellFormed(st) == st \in BreakerState /\ (st.openFor # NotOpen <=> st.failureCount >= Threshold)

LEMMA ClosedWellFormed ==
  /\ WellFormed(Closed)
  /\ Closed.failureCount = 0
  /\ Closed.openFor = NotOpen
  BY ThresholdAssumption DEF WellFormed, Closed, BreakerState

LEMMA RecordFailureWellFormed ==
  ASSUME NEW st, WellFormed(st)
  PROVE  /\ WellFormed(recordFailure(st))
         /\ recordFailure(st).failureCount = st.failureCount + 1
         /\ st.openFor # NotOpen => recordFailure(st).openFor = st.openFor
<1>1. st.failureCount \in Nat /\ st.openFor \in 0 .. Cooldown \cup {NotOpen}
  BY DEF WellFormed, BreakerState
<1>2. 0 \in 0 .. Cooldown /\ 0 # NotOpen
  BY CooldownAssumption, NotOpenAssumption
<1> QED BY <1>1, <1>2, ThresholdAssumption DEF WellFormed, recordFailure, BreakerState

LEMMA AgedWellFormed ==
  ASSUME NEW st, WellFormed(st)
  PROVE  /\ WellFormed(aged(st))
         /\ aged(st).failureCount = st.failureCount
         /\ aged(st).openFor = NotOpen <=> st.openFor = NotOpen
<1>1. st \in BreakerState
  BY DEF WellFormed
<1>2. CASE st.openFor = NotOpen \/ st.openFor = Cooldown
  BY <1>2 DEF aged
<1>3. CASE st.openFor # NotOpen /\ st.openFor # Cooldown
  <2>1. st.openFor \in 0 .. Cooldown
    BY <1>1, <1>3 DEF BreakerState
  <2>2. st.openFor + 1 \in 0 .. Cooldown
    BY <1>3, <2>1, CooldownAssumption
  <2>3. st.openFor + 1 # NotOpen
    BY <2>2, NotOpenAssumption
  <2>4. aged(st) = [failureCount |-> st.failureCount, openFor |-> st.openFor + 1]
    BY <1>1, <1>3 DEF aged, BreakerState
  <2> QED BY <1>1, <1>3, <2>2, <2>3, <2>4 DEF WellFormed, BreakerState
<1> QED BY <1>2, <1>3

LEMMA AfterIsOpenWellFormed ==
  ASSUME NEW st, WellFormed(st), ~isOpen(st)
  PROVE  /\ WellFormed(afterIsOpen(st))
         /\ afterIsOpen(st).openFor = NotOpen
         /\ afterIsOpen(st).failureCount \in 0 .. Threshold - 1
         /\ afterIsOpen(st).failureCount <= st.failureCount
         /\ st.openFor # NotOpen => st.openFor = Cooldown
<1>1. st.failureCount \in Nat
  BY DEF WellFormed, BreakerState
<1>2. CASE Cooled(st)
  BY <1>1, <1>2, ClosedWellFormed, ThresholdAssumption DEF afterIsOpen, Cooled
<1>3. CASE ~Cooled(st)
  BY <1>1, <1>3, ThresholdAssumption DEF afterIsOpen, Cooled, isOpen, WellFormed
<1> QED BY <1>2, <1>3

-----------------------------------------------------------------------------
(* The invariant                                                           *)

LEMMA CallsFinite ==
  ASSUME TypeOK, NEW s \in Servers
  PROVE  /\ IsFiniteSet(calls[s])
         /\ Cardinality(calls[s]) \in Nat
         /\ \A c \in calls[s] : /\ Cardinality(calls[s] \ {c}) = Cardinality(calls[s]) - 1
<1>1. calls[s] \in SUBSET Callers
  BY DEF TypeOK
<1>2. IsFiniteSet(calls[s])
  BY <1>1, CallersAssumption, FS_Subset
<1> QED BY <1>2, FS_CardinalityType, FS_RemoveElement

LEMMA TypeInvInit == Init => IInv
<1> SUFFICES ASSUME Init PROVE IInv
  OBVIOUS
<1>1. TypeOK
  BY ClosedWellFormed, ThresholdAssumption DEF Init, TypeOK, WellFormed
<1>2. OpenExactlyAtThreshold
  BY ClosedWellFormed DEF Init, OpenExactlyAtThreshold, WellFormed
<1>3. CountWithinStreak
  BY ClosedWellFormed DEF Init, CountWithinStreak
<1>4. LateFailuresBounded
  BY ClosedWellFormed, FS_EmptySet, FS_CardinalityType, CallersAssumption, ThresholdAssumption
     DEF Init, LateFailuresBounded
<1> QED BY <1>1, <1>2, <1>3, <1>4 DEF IInv

\* What a step has to show: the entries of breaker stay well formed, the history stays
\* above the count and the bound holds.
LEMMA StepSuffices ==
  ASSUME calls' \in [Servers -> SUBSET Callers], sent' \subseteq Callers,
         streak' \in [Servers -> 0 .. Threshold],
         breaker' \in [Servers -> BreakerState],
         \A s \in Servers :
           /\ WellFormed(breaker'[s])
           /\ breaker'[s].failureCount <= streak'[s] \/ streak'[s] = Threshold
           /\ breaker'[s].failureCount + Cardinality(calls'[s])
                <= Threshold - 1 + Cardinality(Callers)
  PROVE  IInv'
  BY DEF IInv, TypeOK, OpenExactlyAtThreshold, CountWithinStreak, LateFailuresBounded,
         WellFormed

LEMMA InvStep == IInv /\ [Next]_vars => IInv'
<1> SUFFICES ASSUME IInv, [Next]_vars PROVE IInv'
  OBVIOUS
<1> USE DEF IInv
<1>1. \A s \in Servers :
        /\ WellFormed(breaker[s])
        /\ breaker[s].failureCount \in Nat
        /\ breaker[s].failureCount <= streak[s] \/ streak[s] = Threshold
        /\ breaker[s].failureCount + Cardinality(calls[s])
             <= Threshold - 1 + Cardinality(Callers)
  BY DEF TypeOK, OpenExactlyAtThreshold, CountWithinStreak, LateFailuresBounded, WellFormed,
         BreakerState
<1>2. Cardinality(Callers) \in Nat
  BY CallersAssumption, FS_CardinalityType
<1>3. CASE UNCHANGED vars
  BY <1>3, <1>1, StepSuffices DEF vars, TypeOK
<1>4. CASE Tick
  <2>1. \A s \in Servers : /\ WellFormed(breaker'[s])
                           /\ breaker'[s].failureCount = breaker[s].failureCount
    BY <1>1, <1>4, AgedWellFormed DEF Tick
  <2>2. breaker' \in [Servers -> BreakerState]
    BY <1>1, <1>4, AgedWellFormed DEF Tick, WellFormed
  <2> QED BY <1>1, <1>4, <2>1, <2>2, StepSuffices DEF Tick, TypeOK
<1>5. CASE Restart
  <2>1. \A s \in Servers : Cardinality(calls'[s]) = 0
    BY <1>5, FS_EmptySet DEF Restart
  <2>2. breaker' \in [Servers -> BreakerState]
    BY <1>5, ClosedWellFormed DEF Restart, WellFormed
  <2>3. /\ calls' \in [Servers -> SUBSET Callers] /\ sent' \subseteq Callers
        /\ streak' \in [Servers -> 0 .. Threshold]
    BY <1>5, ThresholdAssumption DEF Restart
  <2> QED BY <1>2, <1>5, <2>1, <2>2, <2>3, ClosedWellFormed, StepSuffices, ThresholdAssumption
          DEF Restart
<1>6. ASSUME NEW c \in Callers, NEW s \in Servers, Admit(c, s) PROVE IInv'
  <2>1. /\ WellFormed(breaker'[s])
        /\ breaker'[s].failureCount \in 0 .. Threshold - 1
        /\ breaker'[s].failureCount <= breaker[s].failureCount
    BY <1>1, <1>6, AfterIsOpenWellFormed DEF Admit, TypeOK
  <2>2. breaker' \in [Servers -> BreakerState]
    BY <1>1, <1>6, AfterIsOpenWellFormed DEF Admit, TypeOK, WellFormed
  <2>3. Cardinality(calls'[s]) \in Nat /\ Cardinality(calls'[s]) <= Cardinality(Callers)
    <3>1. calls'[s] \in SUBSET Callers
      BY <1>6 DEF Admit, TypeOK
    <3> QED BY <3>1, CallersAssumption, FS_Subset, FS_CardinalityType
  <2>4. \A t \in Servers \ {s} : breaker'[t] = breaker[t] /\ calls'[t] = calls[t]
    BY <1>6 DEF Admit, TypeOK
  <2>5. breaker'[s].failureCount <= streak[s] \/ streak[s] = Threshold
    BY <1>1, <2>1 DEF TypeOK
  <2>6. breaker'[s].failureCount + Cardinality(calls'[s]) <= Threshold - 1 + Cardinality(Callers)
    BY <1>2, <2>1, <2>3, ThresholdAssumption
  <2>7. /\ calls' \in [Servers -> SUBSET Callers]
        /\ sent' \subseteq Callers
        /\ streak' = streak /\ streak \in [Servers -> 0 .. Threshold]
    BY <1>6 DEF Admit, TypeOK
  <2> QED BY <1>1, <2>1, <2>2, <2>4, <2>5, <2>6, <2>7, StepSuffices
<1>7. ASSUME NEW c \in Callers, NEW s \in Servers, Drop(c, s) PROVE IInv'
  <2>1. c \in calls[s] /\ calls'[s] = calls[s] \ {c}
    BY <1>7 DEF Drop, TypeOK
  <2>2. Cardinality(calls[s]) \in Nat /\ Cardinality(calls'[s]) = Cardinality(calls[s]) - 1
    BY <2>1, CallsFinite
  <2>3. \A t \in Servers \ {s} : calls'[t] = calls[t]
    BY <1>7 DEF Drop, TypeOK
  <2>4. \A t \in Servers : breaker[t].failureCount + Cardinality(calls'[t])
                             <= Threshold - 1 + Cardinality(Callers)
    BY <1>1, <1>2, <2>2, <2>3, ThresholdAssumption
  <2>5. /\ calls' \in [Servers -> SUBSET Callers]
    BY <1>7 DEF Drop, TypeOK
  <2> QED BY <1>1, <1>7, <2>4, <2>5, StepSuffices DEF Drop, TypeOK
<1>8. ASSUME NEW c \in Callers, NEW s \in Servers, Send(c, s) PROVE IInv'
  BY <1>1, <1>8, StepSuffices DEF Send, TypeOK
<1>9. ASSUME NEW c \in Callers, NEW s \in Servers, Fail(c, s) PROVE IInv'
  <2>1. /\ c \in calls[s] /\ calls'[s] = calls[s] \ {c}
        /\ breaker'[s] = recordFailure(breaker[s])
        /\ streak'[s] = IF streak[s] < Threshold THEN streak[s] + 1 ELSE streak[s]
    BY <1>9 DEF Fail, TypeOK
  <2>2. Cardinality(calls[s]) \in Nat /\ Cardinality(calls'[s]) = Cardinality(calls[s]) - 1
    BY <2>1, CallsFinite
  <2>3. \A t \in Servers \ {s} : /\ calls'[t] = calls[t] /\ breaker'[t] = breaker[t]
                                 /\ streak'[t] = streak[t]
    BY <1>9 DEF Fail, TypeOK
  <2>4. WellFormed(breaker'[s]) /\ breaker'[s].failureCount = breaker[s].failureCount + 1
    BY <1>1, <2>1, RecordFailureWellFormed
  <2>5. breaker'[s].failureCount <= streak'[s] \/ streak'[s] = Threshold
    BY <1>1, <2>1, <2>4, ThresholdAssumption DEF TypeOK
  <2>6. breaker'[s].failureCount + Cardinality(calls'[s]) <= Threshold - 1 + Cardinality(Callers)
    BY <1>1, <1>2, <2>2, <2>4, ThresholdAssumption
  <2>7. /\ breaker' \in [Servers -> BreakerState]
        /\ calls' \in [Servers -> SUBSET Callers]
        /\ sent' \subseteq Callers
        /\ streak' \in [Servers -> 0 .. Threshold]
    BY <1>9, <1>1, RecordFailureWellFormed, ThresholdAssumption DEF Fail, TypeOK, WellFormed
  <2> QED BY <1>1, <2>3, <2>4, <2>5, <2>6, <2>7, StepSuffices
<1>10. ASSUME NEW c \in Callers, NEW s \in Servers, Succeed(c, s) PROVE IInv'
  <2>1. /\ c \in calls[s] /\ calls'[s] = calls[s] \ {c}
        /\ breaker'[s] = Closed /\ streak'[s] = 0
    BY <1>10 DEF Succeed, TypeOK, recordSuccess
  <2>2. Cardinality(calls[s]) \in Nat /\ Cardinality(calls'[s]) = Cardinality(calls[s]) - 1
    BY <2>1, CallsFinite
  <2>3. \A t \in Servers \ {s} : /\ calls'[t] = calls[t] /\ breaker'[t] = breaker[t]
                                 /\ streak'[t] = streak[t]
    BY <1>10 DEF Succeed, TypeOK
  <2>4. breaker'[s].failureCount + Cardinality(calls'[s]) <= Threshold - 1 + Cardinality(Callers)
    BY <1>1, <1>2, <2>1, <2>2, ClosedWellFormed, ThresholdAssumption
  <2>5. /\ breaker' \in [Servers -> BreakerState]
        /\ calls' \in [Servers -> SUBSET Callers]
        /\ sent' \subseteq Callers
        /\ streak' \in [Servers -> 0 .. Threshold]
    BY <1>10, ClosedWellFormed, ThresholdAssumption
       DEF Succeed, TypeOK, WellFormed, recordSuccess
  <2>6. WellFormed(breaker'[s]) /\ breaker'[s].failureCount <= streak'[s]
    BY <2>1, ClosedWellFormed
  <2> QED BY <1>1, <2>3, <2>4, <2>5, <2>6, StepSuffices
<1> QED BY <1>3, <1>4, <1>5, <1>6, <1>7, <1>8, <1>9, <1>10 DEF Next, CallStep

LEMMA Invariance == Spec => []IInv
<1>1. Init => IInv
  BY TypeInvInit
<1>2. IInv /\ [Next]_vars => IInv'
  BY InvStep
<1> QED BY <1>1, <1>2, PTL DEF Spec

-----------------------------------------------------------------------------
(* The properties                                                          *)

\* The breaker and the calls under way keep their types.
THEOREM TypeCorrect == Spec => []TypeOK
<1>1. IInv => TypeOK
  BY DEF IInv
<1> QED BY <1>1, Invariance, PTL

\* recordFailure, recordSuccess and isOpen keep the two fields in step.
THEOREM OpenExactlyAtThresholdHolds == Spec => []OpenExactlyAtThreshold
<1>1. IInv => OpenExactlyAtThreshold
  BY DEF IInv
<1> QED BY <1>1, Invariance, PTL

\* A server is cut off only after Threshold reported failures in a row.
THEOREM OpenNeedsStreakHolds == Spec => []OpenNeedsStreak
<1>1. ASSUME IInv PROVE OpenNeedsStreak
  <2> SUFFICES ASSUME NEW s \in Servers, breaker[s].openFor # NotOpen
               PROVE  streak[s] = Threshold
    BY DEF OpenNeedsStreak
  <2>1. breaker[s].failureCount >= Threshold /\ breaker[s].failureCount \in Nat
    BY <1>1 DEF IInv, OpenExactlyAtThreshold, TypeOK, BreakerState
  <2>2. streak[s] \in 0 .. Threshold
    BY <1>1 DEF IInv, TypeOK
  <2>3. breaker[s].failureCount <= streak[s] \/ streak[s] = Threshold
    BY <1>1 DEF IInv, CountWithinStreak
  <2> QED BY <2>1, <2>2, <2>3, ThresholdAssumption
<1> QED BY <1>1, Invariance, PTL

\* At most one call per turn still runs against a server after its breaker opened.
THEOREM LateFailuresBoundedHolds == Spec => []LateFailuresBounded
<1>1. IInv => LateFailuresBounded
  BY DEF IInv
<1> QED BY <1>1, Invariance, PTL

\* An open breaker closes by a success, after the cooldown, or by a restart.
THEOREM ClosesOnlyOnRecoveryHolds == Spec => ClosesOnlyOnRecovery
<1> DEFINE P(s) == breaker[s].openFor # NotOpen /\ breaker'[s].openFor = NotOpen =>
                     \/ Restart
                     \/ breaker[s].openFor = Cooldown
                          /\ \E c \in Callers : c \in calls'[s] \ calls[s]
                     \/ \E c \in calls[s] \cap sent : c \notin calls'[s] /\ streak'[s] = 0
<1>1. ASSUME IInv, [Next]_vars, NEW s \in Servers PROVE P(s)
  <2> SUFFICES ASSUME breaker[s].openFor # NotOpen, breaker'[s].openFor = NotOpen, ~Restart
               PROVE  \/ breaker[s].openFor = Cooldown
                           /\ \E c \in Callers : c \in calls'[s] \ calls[s]
                      \/ \E c \in calls[s] \cap sent : c \notin calls'[s] /\ streak'[s] = 0
    OBVIOUS
  <2>1. WellFormed(breaker[s]) /\ breaker \in [Servers -> BreakerState]
          /\ calls \in [Servers -> SUBSET Callers] /\ streak \in [Servers -> 0 .. Threshold]
    BY <1>1 DEF IInv, TypeOK, OpenExactlyAtThreshold, WellFormed
  <2>2. ~Tick
    BY <2>1, AgedWellFormed DEF Tick
  <2>3. ~UNCHANGED vars
    BY DEF vars
  <2>4. PICK c \in Callers, t \in Servers : CallStep(c, t)
    BY <1>1, <2>2, <2>3 DEF Next
  <2>5. ~Drop(c, t) /\ ~Send(c, t)
    BY DEF Drop, Send
  <2>6. ~Fail(c, t)
    BY <2>1, RecordFailureWellFormed DEF Fail
  <2>7. CASE Admit(c, t)
    <3>1. t = s
      BY <2>1, <2>7 DEF Admit
    <3>2. breaker[s].openFor = Cooldown
      BY <2>1, <2>7, <3>1, AfterIsOpenWellFormed DEF Admit
    <3>3. c \in calls'[s] \ calls[s]
      BY <2>1, <2>7, <3>1 DEF Admit, Idle
    <3> QED BY <3>2, <3>3
  <2>8. CASE Succeed(c, t)
    <3>1. t = s
      BY <2>1, <2>8 DEF Succeed
    <3> QED BY <2>1, <2>8, <3>1 DEF Succeed
  <2> QED BY <2>4, <2>5, <2>6, <2>7, <2>8 DEF CallStep
<1>2. ASSUME IInv, [Next]_vars PROVE [\A s \in Servers : P(s)]_vars
  BY <1>1, <1>2
<1> QED BY <1>2, Invariance, PTL DEF Spec, ClosesOnlyOnRecovery

-----------------------------------------------------------------------------
(* The memory of one process                                               *)

Ops == [blockedIps : Seq(Ips), quarantined : SUBSET Devices, incidents : Nat]

NoneTwice(list) == \A i, j \in DOMAIN list : list[i] = list[j] => i = j
Lists(list, e) == \E i \in DOMAIN list : list[i] = e

\* RemoveFirst takes one entry out and leaves the others.
LEMMA RemoveFirstRemoves ==
  ASSUME NEW S, NEW s \in Seq(S), NEW e, Lists(s, e), NoneTwice(s)
  PROVE  /\ RemoveFirst(s, e) \in Seq(S)
         /\ NoneTwice(RemoveFirst(s, e))
         /\ \A x : Lists(RemoveFirst(s, e), x) <=> Lists(s, x) /\ x # e
<1> DEFINE I == {i \in 1 .. Len(s) : s[i] = e}
<1>1. PICK m \in DOMAIN s : s[m] = e
  BY DEF Lists
<1>2. m \in 1 .. Len(s) /\ I = {m}
  BY <1>1 DEF NoneTwice
<1>3. Min(I) = m
  BY <1>2 DEF Min
<1>4. SelectInSeq(s, LAMBDA v : v = e) = IF I # {} THEN Min(I) ELSE 0
  BY DEF SelectInSeq
<1>5. RemoveFirst(s, e) = RemoveAt(s, m)
  BY <1>1, <1>2, <1>3, <1>4 DEF RemoveFirst
<1> DEFINE t == RemoveAt(s, m)
<1> DEFINE front == SubSeq(s, 1, m - 1)
           back == SubSeq(s, m + 1, Len(s))
<1>6. front \in Seq(S) /\ Len(front) = m - 1 /\ \A i \in 1 .. m - 1 : front[i] = s[i]
  BY <1>2, SubSeqProperties
<1>7. back \in Seq(S) /\ Len(back) = Len(s) - m /\ \A i \in 1 .. Len(s) - m : back[i] = s[m + i]
  BY <1>2, SubSeqProperties
<1>8. t = front \o back
  BY DEF RemoveAt
<1> HIDE DEF front, back, t
<1>9. /\ t \in Seq(S) /\ Len(t) = Len(s) - 1
      /\ \A i \in 1 .. Len(s) - 1 : t[i] = IF i < m THEN s[i] ELSE s[i + 1]
  <2>1. t \in Seq(S) /\ Len(t) = Len(s) - 1
    BY <1>2, <1>6, <1>7, <1>8, ConcatProperties
  <2>2. ASSUME NEW i \in 1 .. Len(s) - 1
        PROVE  t[i] = IF i < m THEN s[i] ELSE s[i + 1]
    <3>1. t[i] = IF i <= Len(front) THEN front[i] ELSE back[i - Len(front)]
      BY <1>2, <1>6, <1>7, <1>8, ConcatProperties
    <3>2. CASE i < m
      BY <1>2, <1>6, <3>1, <3>2
    <3>3. CASE ~(i < m)
      <4>1. i - (m - 1) \in 1 .. Len(s) - m
        BY <1>2, <3>3
      <4> QED BY <1>2, <1>6, <1>7, <3>1, <3>3, <4>1
    <3> QED BY <3>2, <3>3
  <2> QED BY <2>1, <2>2
<1>10. NoneTwice(t)
  BY <1>2, <1>9 DEF NoneTwice
<1>11. ASSUME NEW x PROVE Lists(t, x) <=> Lists(s, x) /\ x # e
  <2>1. ASSUME NEW i \in DOMAIN t PROVE Lists(s, t[i]) /\ t[i] # e
    BY <1>2, <1>9 DEF Lists
  <2>2. ASSUME NEW i \in DOMAIN s, s[i] # e PROVE Lists(t, s[i])
    <3>1. CASE i < m
      <4>1. i \in DOMAIN t /\ t[i] = s[i]
        BY <1>2, <1>9, <3>1
      <4> QED BY <4>1 DEF Lists
    <3>2. CASE i > m
      <4>1. i - 1 \in DOMAIN t /\ t[i - 1] = s[i]
        BY <1>2, <1>9, <3>2
      <4> QED BY <4>1 DEF Lists
    <3> QED BY <1>1, <1>2, <2>2, <3>1, <3>2
  <2> QED BY <2>1, <2>2 DEF Lists
<1> QED BY <1>5, <1>9, <1>10, <1>11 DEF t

Changes == {"block_ip", "unblock_ip"}

\* What handling a request does to the memory: only a result changes it, and then as the
\* tool says.
Handled(ops, request, out) ==
  LET did(name) == out.answer = "result" /\ request.tool = name
  IN  /\ out.ops \in Ops /\ out.answer \in {"result", "error", "unknown"}
      /\ NoneTwice(out.ops.blockedIps)
      /\ \A ip \in Ips :
           Lists(out.ops.blockedIps, ip) <=>
             IF request.target = ip /\ (did("block_ip") \/ did("unblock_ip"))
             THEN did("block_ip") ELSE Lists(ops.blockedIps, ip)
      /\ out.ops.quarantined =
           IF did("quarantine_device") THEN ops.quarantined \cup {request.target}
           ELSE ops.quarantined
      /\ out.ops.incidents = IF did("create_incident") THEN ops.incidents + 1 ELSE ops.incidents
      /\ did("create_incident") => request.target = "valid"

LEMMA AppendAdds ==
  ASSUME NEW S, NEW s \in Seq(S), NEW e \in S
  PROVE  /\ Append(s, e) \in Seq(S)
         /\ \A x : Lists(Append(s, e), x) <=> Lists(s, x) \/ x = e
         /\ NoneTwice(s) /\ ~Lists(s, e) => NoneTwice(Append(s, e))
<1>1. /\ Append(s, e) \in Seq(S) /\ DOMAIN Append(s, e) = 1 .. Len(s) + 1
      /\ DOMAIN s = 1 .. Len(s) /\ Len(s) \in Nat
      /\ Append(s, e)[Len(s) + 1] = e /\ \A i \in 1 .. Len(s) : Append(s, e)[i] = s[i]
  BY AppendProperties, LenProperties
<1>2. 1 .. Len(s) + 1 = 1 .. Len(s) \cup {Len(s) + 1}
  BY <1>1
<1> QED BY <1>1, <1>2 DEF NoneTwice, Lists

LEMMA HandleHandles ==
  ASSUME NEW ops \in Ops, NoneTwice(ops.blockedIps), NEW request
  PROVE  Handled(ops, request, handle(ops, request))
<1> DEFINE target == request.target
<1>1. ops.blockedIps \in Seq(Ips) /\ ops.quarantined \subseteq Devices /\ ops.incidents \in Nat
  BY DEF Ops
<1>2. CASE request.tool = "block_ip"
  <2>1. handle(ops, request) = blockIp(ops, target)
    BY <1>2 DEF handle
  <2>2. CASE target \in Ips /\ ~Lists(ops.blockedIps, target)
    <3> DEFINE list == Append(ops.blockedIps, target)
    <3>1. blockIp(ops, target) = [ops |-> [ops EXCEPT !.blockedIps = list], answer |-> "result"]
      BY <2>2 DEF blockIp, isBlocked, done, Lists
    <3>2. list \in Seq(Ips) /\ NoneTwice(list)
          /\ \A x : Lists(list, x) <=> Lists(ops.blockedIps, x) \/ x = target
      BY <1>1, <2>2, AppendAdds
    <3> HIDE DEF list
    <3>3. [ops EXCEPT !.blockedIps = list] \in Ops /\ [ops EXCEPT !.blockedIps = list].blockedIps = list
      BY <1>1, <3>2 DEF Ops
    <3> QED BY <1>2, <2>1, <3>1, <3>2, <3>3 DEF Handled, Ops
  <2>3. CASE ~(target \in Ips /\ ~Lists(ops.blockedIps, target))
    <3>1. blockIp(ops, target) = [ops |-> ops, answer |-> "error"]
      BY <2>3 DEF blockIp, isBlocked, isError, Lists
    <3> QED BY <1>2, <2>1, <3>1 DEF Handled
  <2> QED BY <2>2, <2>3
<1>3. CASE request.tool = "unblock_ip"
  <2>1. handle(ops, request) = unblockIp(ops, target)
    BY <1>3 DEF handle
  <2>2. CASE target \in Ips /\ Lists(ops.blockedIps, target)
    <3> DEFINE list == RemoveFirst(ops.blockedIps, target)
    <3>1. unblockIp(ops, target) = [ops |-> [ops EXCEPT !.blockedIps = list], answer |-> "result"]
      BY <2>2 DEF unblockIp, isBlocked, done, Lists
    <3>2. list \in Seq(Ips) /\ NoneTwice(list)
          /\ \A x : Lists(list, x) <=> Lists(ops.blockedIps, x) /\ x # target
      BY <1>1, <2>2, RemoveFirstRemoves
    <3> HIDE DEF list
    <3>3. [ops EXCEPT !.blockedIps = list] \in Ops /\ [ops EXCEPT !.blockedIps = list].blockedIps = list
      BY <1>1, <3>2 DEF Ops
    <3> QED BY <1>3, <2>1, <3>1, <3>2, <3>3 DEF Handled, Ops
  <2>3. CASE ~(target \in Ips /\ Lists(ops.blockedIps, target))
    <3>1. unblockIp(ops, target) = [ops |-> ops, answer |-> "error"]
      BY <2>3 DEF unblockIp, isBlocked, isError, Lists
    <3> QED BY <1>3, <2>1, <3>1 DEF Handled
  <2> QED BY <2>2, <2>3
<1>4. CASE request.tool = "quarantine_device"
  BY <1>1, <1>4 DEF handle, quarantineDevice, done, isError, Handled, Ops
<1>5. CASE request.tool = "create_incident"
  BY <1>1, <1>5 DEF handle, createIncident, done, isError, Handled, Ops
<1>6. CASE request.tool \notin Changes \cup {"quarantine_device", "create_incident"}
  BY <1>1, <1>6 DEF handle, scanLogs, done, isError, Handled, Ops, Changes
<1> QED BY <1>2, <1>3, <1>4, <1>5, <1>6 DEF Changes

-----------------------------------------------------------------------------
(* The invariant                                                           *)

Places == {"connecting", "listing", "open", "failed", "closing", "closed"}
ClientState == [server : ServerIds, pc : Places, alive : BOOLEAN, ops : Ops]
CallState == [pc : {"idle", "proposed", "waiting", "done"}, server : ServerIds \cup {Null},
              request : Requests \cup {Null}, client : Nat \cup {Null}, answer : Answers \cup {Null},
              result : Results \cup {Null}, forgotten : BOOLEAN]

RegistryTypes ==
  /\ boot \in Nat /\ closed \in Nat
  /\ client \in Seq(ClientState)
  /\ clients \in [ServerIds -> Nat \cup {Null}]
  /\ closing \subseteq [server : ServerIds, client : Nat, number : Nat]
  /\ call \in [Calls -> CallState]
  /\ ran \in Seq(Calls)

\* The two maps agree; what they hold is open, or its disconnect is under way; what a
\* disconnect closes was opened under its server's id.
Made(k, s, pcs) == k \in DOMAIN client /\ client[k].server = s /\ client[k].pc \in pcs
MapsInv ==
  /\ tools = clients
  /\ \A s \in ServerIds : clients[s] # Null => Made(clients[s], s, {"open", "closing"})
  /\ \A d \in closing : Made(d.client, d.server, {"closing", "closed"})

\* What a call at each place knows of its client and of its answer.
CallOK(c) ==
  LET x == call[c]
  IN  /\ x.client # Null => x.client \in DOMAIN client
      /\ x.answer # Null => x.client # Null
      /\ x.pc \in {"idle", "proposed"} => x.answer = Null /\ x.client = Null
      /\ x.pc # "done" => x.result = Null
      /\ x.pc = "proposed" =>
           x.server \in ServerIds /\ (clients[x.server] = Null => x.forgotten)
      /\ x.result = "notConnected" => x.answer = Null /\ x.forgotten
      /\ x.result \in {"success", "toolError"} => x.answer \in {"result", "error"}

\* A call ran exactly if it was answered, and then once.
Unanswered == {Null, "awaited", "unsent"}
RunsOK(c) ==
  IF call[c].answer \in Unanswered THEN \A i \in DOMAIN ran : ran[i] # c
  ELSE \E i \in DOMAIN ran : \A j \in DOMAIN ran : ran[j] = c <=> j = i

RegistryInv ==
  /\ RegistryTypes
  /\ MapsInv
  /\ \A c \in Calls : CallOK(c)
  /\ \A c \in Calls : RunsOK(c)
  /\ MemoryIsTheRecord
  /\ OrphansAreExplained

USE RegistryAssumption DEF RegistryAssumption

LEMMA InitRegistryInv == RegistryInit => RegistryInv
<1> SUFFICES ASSUME RegistryInit PROVE RegistryInv
  OBVIOUS
<1> USE DEF RegistryInit
<1>1. RegistryTypes
  BY DEF RegistryTypes, NewCall, CallState
<1>2. MapsInv
  BY DEF MapsInv
<1>3. \A c \in Calls : CallOK(c) /\ RunsOK(c)
  BY DEF CallOK, RunsOK, NewCall, Unanswered, Results
<1>4. MemoryIsTheRecord /\ OrphansAreExplained
  BY DEF MemoryIsTheRecord, OrphansAreExplained
<1> QED BY <1>1, <1>2, <1>3, <1>4 DEF RegistryInv

-----------------------------------------------------------------------------
(* What ran stays on the record                                            *)

\* The record of one process, as MemoryIsTheRecord has it.
Remembers(k, ops) ==
  /\ NoneTwice(ops.blockedIps)
  /\ \A ip \in Ips : Lists(ops.blockedIps, ip) <=> LastRan(Done(k, Changes, ip), "block_ip")
  /\ ops.quarantined = {id \in Devices : Done(k, {"quarantine_device"}, id) # {}}
  /\ ops.incidents = Cardinality(Done(k, {"create_incident"}, "valid"))

LEMMA MemoryPerProcess ==
  MemoryIsTheRecord <=> \A k \in DOMAIN client : Remembers(k, client[k].ops)
BY DEF MemoryIsTheRecord, Remembers, NoneTwice, Lists, isBlocked, Changes

LEMMA RanWasAnswered ==
  ASSUME RegistryInv
  PROVE  \A i \in DOMAIN ran : ran[i] \in Calls /\ call[ran[i]].answer \notin Unanswered
<1>1. \A i \in DOMAIN ran : ran[i] \in Calls
  BY DEF RegistryInv, RegistryTypes
<1> QED BY <1>1 DEF RegistryInv, RunsOK

\* A step that runs no tool and alters no call that ran.
NothingRuns ==
  /\ ran' = ran
  /\ \A c \in Calls :
       /\ call'[c].answer \in Unanswered <=> call[c].answer \in Unanswered
       /\ call[c].answer \notin Unanswered =>
            /\ call'[c].client = call[c].client /\ call'[c].request = call[c].request
            /\ call'[c].answer = call[c].answer

LEMMA RunsKept ==
  ASSUME RegistryInv, NothingRuns
  PROVE  \A c \in Calls : RunsOK(c)'
<1> SUFFICES ASSUME NEW c \in Calls PROVE RunsOK(c)'
  OBVIOUS
<1> QED BY DEF RegistryInv, RunsOK, NothingRuns, Unanswered

LEMMA RecordKept ==
  ASSUME RegistryInv, NothingRuns, NEW k, NEW ops
  PROVE  Remembers(k, ops)' <=> Remembers(k, ops)
<1>1. \A names, target : Done(k, names, target)' = Done(k, names, target)
  BY RanWasAnswered DEF NothingRuns, Done
<1>2. \A names, target, name :
        LastRan(Done(k, names, target), name)' <=> LastRan(Done(k, names, target), name)
  BY <1>1, RanWasAnswered DEF NothingRuns, LastRan, Done
<1> QED BY <1>1, <1>2 DEF Remembers

LEMMA MemoryKept ==
  ASSUME RegistryInv, NothingRuns,
         \A k \in DOMAIN client' : k \in DOMAIN client /\ client'[k].ops = client[k].ops
  PROVE  MemoryIsTheRecord'
<1>1. \A k \in DOMAIN client' : Remembers(k, client'[k].ops)
  BY MemoryPerProcess DEF RegistryInv
<1>2. ASSUME NEW k \in DOMAIN client' PROVE Remembers(k, client[k].ops)'
  <2>1. PICK ops : ops = client'[k].ops
    OBVIOUS
  <2>2. Remembers(k, ops)'
    BY <1>1, <2>1, RecordKept
  <2> QED BY <2>1, <2>2 DEF Remembers
<1> QED BY <1>2 DEF MemoryIsTheRecord, Remembers, NoneTwice, Lists, isBlocked, Changes

-----------------------------------------------------------------------------
(* Steps of a client                                                       *)

\* Client k gets a new place among pcs, and may die; everything else of it, and the other
\* clients, stay.
Moves(k, pcs) ==
  /\ k \in DOMAIN client
  /\ client' \in Seq(ClientState) /\ DOMAIN client' = DOMAIN client
  /\ \A j \in DOMAIN client : j # k => client'[j] = client[j]
  /\ client'[k].server = client[k].server /\ client'[k].ops = client[k].ops
  /\ client'[k].pc \in pcs

LEMMA MovesPc ==
  ASSUME RegistryTypes, NEW k \in DOMAIN client,
         NEW pc \in Places, NEW alive \in BOOLEAN,
         client' = [client EXCEPT ![k] = [client[k] EXCEPT !.pc = pc, !.alive = alive]]
  PROVE  Moves(k, {pc})
<1>1. client \in Seq(ClientState) /\ client[k] \in ClientState
  BY DEF RegistryTypes
<1> DEFINE x == [client[k] EXCEPT !.pc = pc, !.alive = alive]
<1>2. x \in ClientState /\ x.server = client[k].server /\ x.ops = client[k].ops /\ x.pc = pc
  BY <1>1 DEF ClientState
<1> HIDE DEF x
<1>3. client' = [client EXCEPT ![k] = x]
  BY DEF x
<1>4. client' \in Seq(ClientState)
  BY <1>1, <1>2, <1>3, ExceptSeq
<1> QED BY <1>1, <1>2, <1>3, <1>4 DEF Moves

\* Nothing a call knows of its client changes.
LEMMA CallsStay ==
  ASSUME RegistryInv, UNCHANGED <<call, ran>>,
         DOMAIN client \subseteq DOMAIN client',
         \A s \in ServerIds : clients'[s] = Null => clients[s] = Null
  PROVE  \A c \in Calls : CallOK(c)'
<1> SUFFICES ASSUME NEW c \in Calls PROVE CallOK(c)'
  OBVIOUS
<1> QED BY DEF RegistryInv, CallOK

LEMMA NoCallNoRun ==
  ASSUME RegistryInv, UNCHANGED <<call, ran>>
  PROVE  NothingRuns
BY DEF NothingRuns

\* A step of a client that the maps do not hold.
LEMMA UnheldMoves ==
  ASSUME RegistryInv, NEW k, Moves(k, {"connecting", "listing", "failed"}),
         client[k].pc \in {"connecting", "listing"},
         UNCHANGED <<boot, clients, tools, closing, closed, call, ran>>
  PROVE  RegistryInv'
<1>1. RegistryTypes'
  BY DEF RegistryInv, RegistryTypes, Moves
<1>2. MapsInv'
  <2>1. tools' = clients'
    BY DEF RegistryInv, MapsInv
  <2>2. ASSUME NEW s \in ServerIds, clients[s] # Null
        PROVE  Made(clients[s], s, {"open", "closing"})'
    BY <2>2 DEF RegistryInv, MapsInv, Made, Moves
  <2>3. ASSUME NEW d \in closing
        PROVE  Made(d.client, d.server, {"closing", "closed"})'
    BY DEF RegistryInv, MapsInv, Made, Moves
  <2> QED BY <2>1, <2>2, <2>3 DEF MapsInv
<1>3. \A c \in Calls : CallOK(c)'
  BY CallsStay DEF Moves
<1>4. (\A c \in Calls : RunsOK(c)') /\ MemoryIsTheRecord'
  BY NoCallNoRun, RunsKept, MemoryKept DEF Moves
<1>5. OrphansAreExplained'
  <2> SUFFICES ASSUME NEW j \in DOMAIN client, client'[j].pc \in {"open", "closing"},
                      clients[client'[j].server] # j
               PROVE  \E i \in DOMAIN client \ {j} :
                        /\ client'[i].server = client'[j].server
                        /\ client'[i].pc \in {"open", "closing", "closed"}
    BY DEF OrphansAreExplained, Moves
  <2>1. client'[j] = client[j]
    BY DEF Moves
  <2>2. PICK i \in DOMAIN client \ {j} : /\ client[i].server = client[j].server
                                         /\ client[i].pc \in {"open", "closing", "closed"}
    BY <2>1 DEF RegistryInv, OrphansAreExplained
  <2>3. client'[i] = client[i]
    BY <2>2 DEF Moves
  <2> QED BY <2>1, <2>2, <2>3
<1> QED BY <1>1, <1>2, <1>3, <1>4, <1>5 DEF RegistryInv

LEMMA ClientTyped ==
  ASSUME RegistryInv, NEW k \in DOMAIN client
  PROVE  /\ k \in Nat /\ client[k] \in ClientState
         /\ client[k].alive \in BOOLEAN /\ client[k].server \in ServerIds /\ client[k].pc \in Places
<1>1. k \in Nat /\ client[k] \in ClientState
  BY LenProperties DEF RegistryInv, RegistryTypes
<1> QED BY <1>1 DEF ClientState

LEMMA HandshakeKeeps ==
  ASSUME RegistryInv, NEW k \in DOMAIN client, Handshake(k) PROVE RegistryInv'
<1>1. client' = [client EXCEPT ![k] = [client[k] EXCEPT !.pc = "listing", !.alive = client[k].alive]]
  BY DEF RegistryInv, RegistryTypes, ClientState, Handshake
<1>2. client[k].alive \in BOOLEAN
  BY ClientTyped
<1>3. Moves(k, {"listing"})
  BY <1>1, <1>2, MovesPc DEF RegistryInv, Places
<1> QED BY <1>3, UnheldMoves DEF Handshake, Moves

LEMMA ConnectFailsKeeps ==
  ASSUME RegistryInv, NEW k \in DOMAIN client, ConnectFails(k) PROVE RegistryInv'
<1>1. \A e \in {FALSE} :
        client' = [client EXCEPT ![k] = [client[k] EXCEPT !.pc = "failed", !.alive = e]]
  BY DEF RegistryInv, RegistryTypes, ClientState, ConnectFails
<1>2. PICK e \in BOOLEAN :
        client' = [client EXCEPT ![k] = [client[k] EXCEPT !.pc = "failed", !.alive = e]]
  BY <1>1
<1>3. Moves(k, {"failed"})
  BY <1>2, MovesPc DEF RegistryInv, Places
<1> QED BY <1>3, UnheldMoves DEF ConnectFails, Moves

LEMMA ListFailsKeeps ==
  ASSUME RegistryInv, NEW k \in DOMAIN client, ListFails(k) PROVE RegistryInv'
<1>1. client' = [client EXCEPT ![k] = [client[k] EXCEPT !.pc = "failed", !.alive = client[k].alive]]
  BY DEF RegistryInv, RegistryTypes, ClientState, ListFails
<1>2. client[k].alive \in BOOLEAN
  BY ClientTyped
<1>3. Moves(k, {"failed"})
  BY <1>1, <1>2, MovesPc DEF RegistryInv, Places
<1> QED BY <1>3, UnheldMoves DEF ListFails, Moves

LEMMA CrashKeeps ==
  ASSUME RegistryInv, NEW k \in DOMAIN client, Crash(k) PROVE RegistryInv'
<1> PICK pc : pc = client[k].pc
  OBVIOUS
<1>1. pc \in Places
  BY ClientTyped
<1>2. PICK e \in BOOLEAN :
        client' = [client EXCEPT ![k] = [client[k] EXCEPT !.pc = pc, !.alive = e]]
  <2>1. \A e \in {FALSE} :
          client' = [client EXCEPT ![k] = [client[k] EXCEPT !.pc = pc, !.alive = e]]
    BY DEF RegistryInv, RegistryTypes, ClientState, Crash
  <2> QED BY <2>1
<1>3. Moves(k, {pc})
  BY <1>1, <1>2, MovesPc DEF RegistryInv, Places
<1>4. \A j \in DOMAIN client : client'[j].pc = client[j].pc /\ client'[j].server = client[j].server
  BY <1>3 DEF Moves
<1>5. RegistryTypes'
  BY <1>3 DEF RegistryInv, RegistryTypes, Moves, Crash
<1>6. MapsInv'
  BY <1>3, <1>4 DEF RegistryInv, MapsInv, Made, Moves, Crash
<1>7. \A c \in Calls : CallOK(c)'
  BY <1>3, CallsStay DEF Moves, Crash
<1>8. (\A c \in Calls : RunsOK(c)') /\ MemoryIsTheRecord'
  BY <1>3, NoCallNoRun, RunsKept, MemoryKept DEF Moves, Crash
<1>9. OrphansAreExplained'
  BY <1>3, <1>4 DEF RegistryInv, OrphansAreExplained, Moves, Crash
<1> QED BY <1>5, <1>6, <1>7, <1>8, <1>9 DEF RegistryInv

LEMMA RegisterKeeps ==
  ASSUME RegistryInv, NEW k \in DOMAIN client, Register(k) PROVE RegistryInv'
<1> DEFINE s == client[k].server
<1>1. client' = [client EXCEPT ![k] = [client[k] EXCEPT !.pc = "open", !.alive = client[k].alive]]
  BY DEF RegistryInv, RegistryTypes, ClientState, Register
<1>2. Moves(k, {"open"}) /\ s \in ServerIds /\ k \in Nat
  BY <1>1, ClientTyped, MovesPc DEF RegistryInv, Places
<1>3. /\ clients \in [ServerIds -> Nat \cup {Null}]
      /\ clients' = [clients EXCEPT ![s] = k] /\ tools' = clients'
  BY DEF RegistryInv, RegistryTypes, MapsInv, Register
<1>4. RegistryTypes'
  BY <1>2, <1>3 DEF RegistryInv, RegistryTypes, Moves, Register
<1>5. MapsInv'
  <2>1. ASSUME NEW r \in ServerIds, clients'[r] # Null
        PROVE  Made(clients[r], r, {"open", "closing"})'
    BY <1>2, <1>3, <2>1 DEF RegistryInv, MapsInv, Made, Moves, Register
  <2>2. ASSUME NEW d \in closing
        PROVE  Made(d.client, d.server, {"closing", "closed"})'
    BY <1>2 DEF RegistryInv, MapsInv, Made, Moves, Register
  <2> QED BY <1>3, <2>1, <2>2 DEF MapsInv, Register
<1>6. \A c \in Calls : CallOK(c)'
  BY <1>2, <1>3, CallsStay DEF Moves, Register
<1>7. (\A c \in Calls : RunsOK(c)') /\ MemoryIsTheRecord'
  BY <1>2, NoCallNoRun, RunsKept, MemoryKept DEF Moves, Register
<1>8. OrphansAreExplained'
  <2> SUFFICES ASSUME NEW j \in DOMAIN client, client'[j].pc \in {"open", "closing"},
                      clients'[client'[j].server] # j
               PROVE  \E i \in DOMAIN client \ {j} :
                        /\ client'[i].server = client'[j].server
                        /\ client'[i].pc \in {"open", "closing", "closed"}
    BY <1>2 DEF OrphansAreExplained, Moves
  <2>1. j # k
    BY <1>2, <1>3 DEF Moves
  <2>2. client'[j] = client[j]
    BY <1>2, <2>1 DEF Moves
  <2>3. CASE client[j].server = s
    BY <1>2, <2>1, <2>2, <2>3 DEF Moves
  <2>4. CASE client[j].server # s
    <3>1. clients[client[j].server] # j
      BY <1>3, <2>2, <2>4, ClientTyped
    <3>2. PICK i \in DOMAIN client \ {j} : /\ client[i].server = client[j].server
                                           /\ client[i].pc \in {"open", "closing", "closed"}
      BY <2>2, <3>1 DEF RegistryInv, OrphansAreExplained
    <3>3. client'[i] = client[i]
      BY <1>2, <2>4, <3>2 DEF Moves
    <3> QED BY <2>2, <3>2, <3>3
  <2> QED BY <2>3, <2>4
<1> QED BY <1>4, <1>5, <1>6, <1>7, <1>8 DEF RegistryInv

LEMMA BeginDisconnectKeeps ==
  ASSUME RegistryInv, NEW s \in ServerIds, BeginDisconnect(s) PROVE RegistryInv'
<1> PICK k : k = clients[s]
  OBVIOUS
<1>1. Made(k, s, {"open", "closing"}) /\ k \in DOMAIN client /\ k \in Nat
  BY DEF BeginDisconnect, RegistryInv, RegistryTypes, MapsInv, Made
<1>2. client' = [client EXCEPT ![k] = [client[k] EXCEPT !.pc = "closing", !.alive = client[k].alive]]
  BY <1>1 DEF RegistryInv, RegistryTypes, ClientState, BeginDisconnect
<1>3. Moves(k, {"closing"})
  BY <1>1, <1>2, ClientTyped, MovesPc DEF RegistryInv, Places
<1>4. \E n \in Nat : closing' = closing \cup {[server |-> s, client |-> k, number |-> n]}
  BY DEF BeginDisconnect, RegistryInv, RegistryTypes
<1>5. RegistryTypes'
  BY <1>1, <1>3, <1>4 DEF RegistryInv, RegistryTypes, Moves, BeginDisconnect
<1>6. MapsInv'
  <2>1. ASSUME NEW r \in ServerIds, clients[r] # Null
        PROVE  Made(clients[r], r, {"open", "closing"})'
    BY <1>3, <2>1 DEF RegistryInv, MapsInv, Made, Moves, BeginDisconnect
  <2>2. ASSUME NEW d \in closing'
        PROVE  Made(d.client, d.server, {"closing", "closed"})'
    BY <1>1, <1>3, <1>4 DEF RegistryInv, MapsInv, Made, Moves
  <2> QED BY <2>1, <2>2 DEF MapsInv, RegistryInv, BeginDisconnect
<1>7. \A c \in Calls : CallOK(c)'
  BY <1>3, CallsStay DEF Moves, BeginDisconnect
<1>8. (\A c \in Calls : RunsOK(c)') /\ MemoryIsTheRecord'
  BY <1>3, NoCallNoRun, RunsKept, MemoryKept DEF Moves, BeginDisconnect
<1>9. OrphansAreExplained'
  <2> SUFFICES ASSUME NEW j \in DOMAIN client, client'[j].pc \in {"open", "closing"},
                      clients[client'[j].server] # j
               PROVE  \E i \in DOMAIN client \ {j} :
                        /\ client'[i].server = client'[j].server
                        /\ client'[i].pc \in {"open", "closing", "closed"}
    BY <1>3 DEF OrphansAreExplained, Moves, BeginDisconnect
  <2>0. j # k
    BY <1>1, <1>3 DEF Moves, Made
  <2>1. client'[j] = client[j]
    BY <1>3, <2>0 DEF Moves
  <2>2. PICK i \in DOMAIN client \ {j} : /\ client[i].server = client[j].server
                                         /\ client[i].pc \in {"open", "closing", "closed"}
    BY <2>1 DEF RegistryInv, OrphansAreExplained
  <2>3. client'[i].server = client[i].server /\ client'[i].pc \in {"open", "closing", "closed"}
    BY <1>3, <2>2 DEF Moves
  <2> QED BY <2>1, <2>2, <2>3
<1> QED BY <1>5, <1>6, <1>7, <1>8, <1>9 DEF RegistryInv

LEMMA FinishDisconnectKeeps ==
  ASSUME RegistryInv, NEW d \in closing, FinishDisconnect(d) PROVE RegistryInv'
<1>1. /\ d \in [server : ServerIds, client : Nat, number : Nat]
      /\ Made(d.client, d.server, {"closing", "closed"})
  BY DEF RegistryInv, RegistryTypes, MapsInv
<1> PICK k \in Nat, s \in ServerIds : k = d.client /\ s = d.server
  BY <1>1
<1>2. k \in DOMAIN client /\ client[k].server = s
  BY <1>1 DEF Made
<1>3. PICK e \in BOOLEAN :
        client' = [client EXCEPT ![k] = [client[k] EXCEPT !.pc = "closed", !.alive = e]]
  <2>1. \A e \in {FALSE} :
          client' = [client EXCEPT ![k] = [client[k] EXCEPT !.pc = "closed", !.alive = e]]
    BY <1>2, ClientTyped DEF RegistryInv, RegistryTypes, ClientState, FinishDisconnect
  <2> QED BY <2>1
<1>4. Moves(k, {"closed"})
  BY <1>2, <1>3, MovesPc DEF RegistryInv, Places
<1>5. /\ clients \in [ServerIds -> Nat \cup {Null}]
      /\ clients' = [clients EXCEPT ![s] = Null] /\ tools' = clients'
  BY DEF RegistryInv, RegistryTypes, MapsInv, FinishDisconnect
<1>6. \A c \in Calls :
        call'[c] = IF call[c].pc = "proposed" /\ call[c].server = s
                   THEN [call[c] EXCEPT !.forgotten = TRUE] ELSE call[c]
  BY DEF FinishDisconnect, Forget
<1>7. \A c \in Calls : call[c] \in CallState
  BY DEF RegistryInv, RegistryTypes
<1>8. \A c \in Calls :
        /\ call'[c] \in CallState
        /\ call'[c].pc = call[c].pc /\ call'[c].server = call[c].server
        /\ call'[c].request = call[c].request /\ call'[c].client = call[c].client
        /\ call'[c].answer = call[c].answer /\ call'[c].result = call[c].result
        /\ call'[c].forgotten <=>
             call[c].forgotten \/ (call[c].pc = "proposed" /\ call[c].server = s)
  <2> SUFFICES ASSUME NEW c \in Calls
               PROVE  /\ call'[c] \in CallState
                      /\ call'[c].pc = call[c].pc /\ call'[c].server = call[c].server
                      /\ call'[c].request = call[c].request /\ call'[c].client = call[c].client
                      /\ call'[c].answer = call[c].answer /\ call'[c].result = call[c].result
                      /\ call'[c].forgotten <=>
                           call[c].forgotten \/ (call[c].pc = "proposed" /\ call[c].server = s)
    OBVIOUS
  <2>1. CASE call[c].pc = "proposed" /\ call[c].server = s
    BY <1>6, <1>7, <2>1 DEF CallState
  <2>2. CASE ~(call[c].pc = "proposed" /\ call[c].server = s)
    BY <1>6, <1>7, <2>2 DEF CallState
  <2> QED BY <2>1, <2>2
<1>9. RegistryTypes'
  <2>1. call' \in [Calls -> CallState]
    BY <1>8 DEF FinishDisconnect, Forget
  <2> QED BY <1>4, <1>5, <2>1 DEF RegistryInv, RegistryTypes, Moves, FinishDisconnect
<1>10. MapsInv'
  <2>1. ASSUME NEW r \in ServerIds, clients'[r] # Null
        PROVE  Made(clients[r], r, {"open", "closing"})'
    <3>1. r # s /\ clients'[r] = clients[r]
      BY <1>5, <2>1
    <3> QED BY <1>2, <1>4, <2>1, <3>1 DEF RegistryInv, MapsInv, Made, Moves
  <2>2. ASSUME NEW x \in closing'
        PROVE  Made(x.client, x.server, {"closing", "closed"})'
    BY <1>4 DEF RegistryInv, MapsInv, Made, Moves, FinishDisconnect
  <2> QED BY <1>5, <2>1, <2>2 DEF MapsInv
<1>11. ASSUME NEW c \in Calls PROVE CallOK(c)'
  <2>1. CallOK(c) /\ DOMAIN client' = DOMAIN client
    BY <1>4 DEF RegistryInv, Moves
  <2>2. \A r \in ServerIds : clients'[r] = Null => r = s \/ clients[r] = Null
    BY <1>5
  <2> QED BY <1>8, <2>1, <2>2 DEF CallOK
<1>12. NothingRuns
  BY <1>8 DEF NothingRuns, FinishDisconnect
<1>13. (\A c \in Calls : RunsOK(c)') /\ MemoryIsTheRecord'
  BY <1>4, <1>12, RunsKept, MemoryKept DEF Moves
<1>14. OrphansAreExplained'
  <2> SUFFICES ASSUME NEW j \in DOMAIN client, client'[j].pc \in {"open", "closing"},
                      clients'[client'[j].server] # j
               PROVE  \E i \in DOMAIN client \ {j} :
                        /\ client'[i].server = client'[j].server
                        /\ client'[i].pc \in {"open", "closing", "closed"}
    BY <1>4 DEF OrphansAreExplained, Moves
  <2>1. j # k /\ client'[j] = client[j]
    BY <1>4 DEF Moves
  <2>2. CASE client[j].server = s
    BY <1>2, <1>4, <2>1, <2>2 DEF Moves
  <2>3. CASE client[j].server # s
    <3>1. clients[client[j].server] # j
      BY <1>5, <2>1, <2>3, ClientTyped
    <3>2. PICK i \in DOMAIN client \ {j} : /\ client[i].server = client[j].server
                                           /\ client[i].pc \in {"open", "closing", "closed"}
      BY <2>1, <3>1 DEF RegistryInv, OrphansAreExplained
    <3>3. client'[i] = client[i]
      BY <1>2, <1>4, <2>3, <3>2 DEF Moves
    <3> QED BY <2>1, <3>2, <3>3
  <2> QED BY <2>2, <2>3
<1> QED BY <1>9, <1>10, <1>11, <1>13, <1>14 DEF RegistryInv

LEMMA DisconnectFailsKeeps ==
  ASSUME RegistryInv, NEW d \in closing, DisconnectFails(d) PROVE RegistryInv'
<1>1. /\ d \in [server : ServerIds, client : Nat, number : Nat]
      /\ Made(d.client, d.server, {"closing", "closed"})
      /\ closing' = closing \ {d}
      /\ UNCHANGED <<boot, clients, tools, closed, call, ran>>
  BY DEF RegistryInv, RegistryTypes, MapsInv, DisconnectFails
<1> PICK k \in Nat : k = d.client
  BY <1>1
<1>2. k \in DOMAIN client
  BY <1>1 DEF Made
<1>3. PICK pc \in {client[k].pc, "open"} :
        /\ client' = [client EXCEPT ![k] = [client[k] EXCEPT !.pc = pc, !.alive = client[k].alive]]
        /\ pc # client[k].pc => client[k].pc = "closing" /\ \A e \in closing' : e.client # k
  <2>1. client \in Seq(ClientState) /\ client[k] \in ClientState
    BY <1>2, ClientTyped DEF RegistryInv, RegistryTypes
  <2>2. [client[k] EXCEPT !.pc = client[k].pc, !.alive = client[k].alive] = client[k]
    BY <2>1 DEF ClientState
  <2>3. [client[k] EXCEPT !.pc = "open", !.alive = client[k].alive] = [client[k] EXCEPT !.pc = "open"]
    BY <2>1 DEF ClientState
  <2>4. [client EXCEPT ![k] = client[k]] = client
    BY <2>1
  <2>5. CASE UNCHANGED client
    BY <2>2, <2>4, <2>5
  <2>6. CASE /\ client[k].pc = "closing" /\ \A e \in closing' : e.client # k
             /\ client' = [client EXCEPT ![k].pc = "open"]
    BY <2>3, <2>6
  <2> QED BY <2>5, <2>6 DEF DisconnectFails
<1>4. Moves(k, {pc})
  BY <1>2, <1>3, ClientTyped, MovesPc DEF RegistryInv, Places
<1>5. RegistryTypes'
  BY <1>1, <1>4 DEF RegistryInv, RegistryTypes, Moves
<1>6. MapsInv'
  <2>1. ASSUME NEW r \in ServerIds, clients[r] # Null
        PROVE  Made(clients[r], r, {"open", "closing"})'
    BY <1>1, <1>3, <1>4, <2>1 DEF RegistryInv, MapsInv, Made, Moves
  <2>2. ASSUME NEW e \in closing'
        PROVE  Made(e.client, e.server, {"closing", "closed"})'
    BY <1>1, <1>3, <1>4 DEF RegistryInv, MapsInv, Made, Moves
  <2> QED BY <1>1, <2>1, <2>2 DEF MapsInv, RegistryInv
<1>7. \A c \in Calls : CallOK(c)'
  BY <1>1, <1>4, CallsStay DEF Moves
<1>8. (\A c \in Calls : RunsOK(c)') /\ MemoryIsTheRecord'
  BY <1>1, <1>4, NoCallNoRun, RunsKept, MemoryKept DEF Moves
<1>9. OrphansAreExplained'
  <2>1. \A j \in DOMAIN client :
          /\ client'[j].server = client[j].server
          /\ client'[j].pc = client[j].pc \/ (client[j].pc = "closing" /\ client'[j].pc = "open")
    BY <1>3, <1>4 DEF Moves
  <2>2. DOMAIN client' = DOMAIN client /\ clients' = clients
    BY <1>1, <1>4 DEF Moves
  <2>3. OrphansAreExplained
    BY DEF RegistryInv
  <2> SUFFICES ASSUME NEW j \in DOMAIN client, client'[j].pc \in {"open", "closing"},
                      clients[client[j].server] # j
               PROVE  \E i \in DOMAIN client \ {j} :
                        /\ client'[i].server = client[j].server
                        /\ client'[i].pc \in {"open", "closing", "closed"}
    BY <2>1, <2>2 DEF OrphansAreExplained
  <2>4. PICK i \in DOMAIN client \ {j} : /\ client[i].server = client[j].server
                                         /\ client[i].pc \in {"open", "closing", "closed"}
    BY <2>1, <2>3 DEF OrphansAreExplained
  <2> QED BY <2>1, <2>4
<1> QED BY <1>5, <1>6, <1>7, <1>8, <1>9 DEF RegistryInv

\* A new client has run nothing.
LEMMA OpenKeeps ==
  ASSUME RegistryInv, NEW s \in ServerIds, Open(s), boot' \in Nat,
         UNCHANGED <<clients, tools, closing, closed, call, ran>>
  PROVE  RegistryInv'
<1> DEFINE new == [server |-> s, pc |-> "connecting", alive |-> TRUE, ops |-> Fresh]
<1>1. new \in ClientState
  BY DEF ClientState, Places, Fresh, Ops
<1>2. /\ client' = Append(client, new) /\ client' \in Seq(ClientState)
      /\ Len(client) \in Nat /\ DOMAIN client = 1 .. Len(client)
      /\ DOMAIN client' = DOMAIN client \cup {Len(client) + 1}
      /\ Len(client) + 1 \notin DOMAIN client
  <2>1. client' = Append(client, new)
    BY DEF Open
  <2> HIDE DEF new
  <2>2. client \in Seq(ClientState)
    BY DEF RegistryInv, RegistryTypes
  <2>3. Len(client) \in Nat /\ DOMAIN client = 1 .. Len(client)
    BY <2>2, LenProperties
  <2>4. client' \in Seq(ClientState) /\ DOMAIN client' = 1 .. Len(client) + 1
    BY <1>1, <2>1, <2>2, AppendProperties
  <2> QED BY <2>1, <2>2, <2>3, <2>4
<1>3. (\A j \in DOMAIN client : client'[j] = client[j]) /\ client'[Len(client) + 1] = new
  <2> HIDE DEF new
  <2>1. client \in Seq(ClientState)
    BY DEF RegistryInv, RegistryTypes
  <2> QED BY <1>1, <1>2, <2>1, AppendProperties
<1> PICK n : n = Len(client) + 1
  OBVIOUS
<1>4. RegistryTypes'
  BY <1>2 DEF RegistryInv, RegistryTypes
<1>5. MapsInv'
  BY <1>2, <1>3 DEF RegistryInv, MapsInv, Made
<1>6. \A c \in Calls : CallOK(c)'
  BY <1>2, CallsStay
<1>7. NothingRuns
  BY NoCallNoRun
<1>8. \A c \in Calls : RunsOK(c)'
  BY <1>7, RunsKept
<1>9. MemoryIsTheRecord'
  <2>1. \A names, target : Done(n, names, target) = {}
    <3> SUFFICES ASSUME NEW i \in DOMAIN ran PROVE call[ran[i]].client # n
      BY DEF Done
    <3>1. ran[i] \in Calls /\ call[ran[i]].answer \notin Unanswered
      BY RanWasAnswered
    <3> QED BY <1>2, <3>1 DEF RegistryInv, CallOK, Unanswered
  <2>2. Remembers(n, Fresh)
    <3>1. NoneTwice(Fresh.blockedIps) /\ \A ip : ~Lists(Fresh.blockedIps, ip)
      BY DEF Fresh, NoneTwice, Lists
    <3>2. \A ip : ~LastRan(Done(n, Changes, ip), "block_ip")
      BY <2>1 DEF LastRan
    <3>3. Fresh.quarantined = {id \in Devices : Done(n, {"quarantine_device"}, id) # {}}
      BY <2>1 DEF Fresh
    <3>4. Fresh.incidents = Cardinality(Done(n, {"create_incident"}, "valid"))
      BY <2>1, FS_EmptySet DEF Fresh
    <3> QED BY <3>1, <3>2, <3>3, <3>4 DEF Remembers
  <2>3. ASSUME NEW k \in DOMAIN client' PROVE Remembers(k, client[k].ops)'
    <3>1. PICK ops : ops = client'[k].ops
      OBVIOUS
    <3>2. Remembers(k, ops)
      BY <1>2, <1>3, <2>2, <3>1, MemoryPerProcess DEF RegistryInv
    <3>3. Remembers(k, ops)'
      BY <1>7, <3>2, RecordKept
    <3> QED BY <3>1, <3>3 DEF Remembers
  <2> QED BY <2>3 DEF MemoryIsTheRecord, Remembers, NoneTwice, Lists, isBlocked, Changes
<1>10. OrphansAreExplained'
  BY <1>2, <1>3 DEF RegistryInv, OrphansAreExplained
<1> QED BY <1>4, <1>5, <1>6, <1>8, <1>9, <1>10 DEF RegistryInv

-----------------------------------------------------------------------------
(* Steps of a call                                                         *)

\* A step of one call that runs nothing.
LEMMA CallMoves ==
  ASSUME RegistryInv, NEW c \in Calls, NEW x \in CallState,
         call' = [call EXCEPT ![c] = x], CallOK(c)',
         x.answer \in Unanswered <=> call[c].answer \in Unanswered,
         call[c].answer \notin Unanswered =>
           x.client = call[c].client /\ x.request = call[c].request /\ x.answer = call[c].answer,
         UNCHANGED <<boot, client, clients, tools, closing, closed, ran>>
  PROVE  RegistryInv'
<1>1. /\ call' \in [Calls -> CallState] /\ call'[c] = x
      /\ \A b \in Calls : b # c => call'[b] = call[b]
  BY DEF RegistryInv, RegistryTypes
<1>2. RegistryTypes' /\ MapsInv' /\ OrphansAreExplained'
  BY <1>1 DEF RegistryInv, RegistryTypes, MapsInv, Made, OrphansAreExplained
<1>3. ASSUME NEW b \in Calls PROVE CallOK(b)'
  BY <1>1 DEF RegistryInv, CallOK
<1>4. NothingRuns
  BY <1>1 DEF NothingRuns
<1>5. (\A b \in Calls : RunsOK(b)') /\ MemoryIsTheRecord'
  BY <1>4, RunsKept, MemoryKept
<1> QED BY <1>2, <1>3, <1>5 DEF RegistryInv

LEMMA CallTyped ==
  ASSUME RegistryInv, NEW c \in Calls
  PROVE  /\ call[c] \in CallState /\ CallOK(c) /\ call[c].answer \in Answers \cup {Null}
         /\ call[c].client \in Nat \cup {Null} /\ call[c].server \in ServerIds \cup {Null}
<1>1. call[c] \in CallState
  BY DEF RegistryInv, RegistryTypes
<1> QED BY <1>1 DEF CallState, RegistryInv

LEMMA ProposeKeeps ==
  ASSUME RegistryInv, NEW c \in Calls, NEW s \in ServerIds, NEW r \in Requests, Propose(c, s, r)
  PROVE  RegistryInv'
<1> DEFINE x == [call[c] EXCEPT !.pc = "proposed", !.server = s, !.request = r]
<1>1. /\ call' = [call EXCEPT ![c] = x] /\ clients[s] # Null
      /\ call[c].answer = Null /\ call[c].client = Null /\ call[c].result = Null
  BY DEF Propose, RegistryInv, RegistryTypes, MapsInv, CallOK
<1>2. /\ x \in CallState /\ x.pc = "proposed" /\ x.server = s /\ x.answer = Null
      /\ x.client = Null /\ x.result = Null
  BY <1>1, CallTyped DEF CallState
<1> HIDE DEF x
<1>3. call'[c] = x
  BY <1>1, <1>2 DEF RegistryInv, RegistryTypes
<1>4. CallOK(c)'
  BY <1>1, <1>2, <1>3 DEF CallOK, Propose, Results
<1> QED BY <1>1, <1>2, <1>4, CallMoves DEF Propose, Unanswered

LEMMA ExecuteKeeps ==
  ASSUME RegistryInv, NEW c \in Calls, Execute(c) PROVE RegistryInv'
<1>1. /\ call[c].pc = "proposed" /\ call[c].server \in ServerIds
      /\ call[c].answer = Null /\ call[c].client = Null /\ call[c].result = Null
      /\ clients[call[c].server] = Null => call[c].forgotten
  BY CallTyped DEF Execute, CallOK
<1> PICK k : k = clients[call[c].server]
  OBVIOUS
<1>2. CASE k = Null
  <2> DEFINE x == [call[c] EXCEPT !.pc = "done", !.result = "notConnected"]
  <2>1. call' = [call EXCEPT ![c] = x]
    BY <1>2 DEF Execute, RegistryInv, RegistryTypes
  <2>2. /\ x \in CallState /\ x.pc = "done" /\ x.answer = Null /\ x.client = Null
        /\ x.result = "notConnected" /\ x.forgotten
    BY <1>1, <1>2, CallTyped DEF CallState, Results
  <2> HIDE DEF x
  <2>3. call'[c] = x
    BY <2>1, <2>2 DEF RegistryInv, RegistryTypes
  <2>4. CallOK(c)'
    BY <2>2, <2>3 DEF CallOK
  <2> QED BY <1>1, <2>1, <2>2, <2>4, CallMoves DEF Execute, Unanswered
<1>3. CASE k # Null
  <2>1. k \in DOMAIN client /\ k \in Nat
    BY <1>1, <1>3, ClientTyped DEF RegistryInv, MapsInv, Made
  <2>2. PICK answer \in {"awaited", "unsent"} :
          call' = [call EXCEPT ![c].pc = "waiting", ![c].client = k, ![c].answer = answer]
    BY <1>3 DEF Execute
  <2> DEFINE x == [call[c] EXCEPT !.pc = "waiting", !.client = k, !.answer = answer]
  <2>3. call' = [call EXCEPT ![c] = x]
    BY <2>2 DEF RegistryInv, RegistryTypes
  <2>4. /\ x \in CallState /\ x.pc = "waiting" /\ x.answer = answer /\ x.client = k
        /\ x.result = Null
    BY <1>1, <2>1, CallTyped DEF CallState, Answers
  <2> HIDE DEF x
  <2>5. call'[c] = x
    BY <2>3, <2>4 DEF RegistryInv, RegistryTypes
  <2>6. CallOK(c)'
    BY <2>1, <2>4, <2>5 DEF CallOK, Execute, Results
  <2> QED BY <1>1, <2>3, <2>4, <2>6, CallMoves DEF Execute, Unanswered
<1> QED BY <1>2, <1>3

\* Both ends of a call that waits.
LEMMA EndKeeps ==
  ASSUME RegistryInv, NEW c \in Calls, call[c].pc = "waiting",
         NEW result \in {"success", "toolError", "transportError"},
         result # "transportError" => call[c].answer \in {"result", "error"},
         call' = [call EXCEPT ![c].pc = "done", ![c].result = result],
         UNCHANGED <<boot, client, clients, tools, closing, closed, ran>>
  PROVE  RegistryInv'
<1> DEFINE x == [call[c] EXCEPT !.pc = "done", !.result = result]
<1>1. call' = [call EXCEPT ![c] = x]
  BY DEF RegistryInv, RegistryTypes
<1>2. /\ x \in CallState /\ x.pc = "done" /\ x.answer = call[c].answer
      /\ x.client = call[c].client /\ x.request = call[c].request /\ x.result = result
  BY CallTyped DEF CallState, Results
<1> HIDE DEF x
<1>3. call'[c] = x
  BY <1>1, <1>2 DEF RegistryInv, RegistryTypes
<1>4. CallOK(c)'
  BY <1>2, <1>3, CallTyped DEF CallOK
<1> QED BY <1>1, <1>2, <1>4, CallMoves

LEMMA ReturnKeeps ==
  ASSUME RegistryInv, NEW c \in Calls, Return(c) PROVE RegistryInv'
<1>1. PICK result \in {"success", "toolError"} :
        call' = [call EXCEPT ![c].pc = "done", ![c].result = result]
  BY DEF Return
<1> QED BY <1>1, EndKeeps DEF Return

LEMMA BreakKeeps ==
  ASSUME RegistryInv, NEW c \in Calls, Break(c) PROVE RegistryInv'
BY EndKeeps DEF Break

\* A tool runs, for the first and only time of this call.
LEMMA ServeKeeps ==
  ASSUME RegistryInv, NEW c \in Calls, Serve(c) PROVE RegistryInv'
<1>1. /\ call[c].answer = "awaited" /\ call[c].client \in DOMAIN client /\ call[c].client \in Nat
      /\ CallOK(c) /\ \A i \in DOMAIN ran : ran[i] # c
  <2>1. call[c].answer = "awaited" /\ CallOK(c)
    BY CallTyped DEF Serve
  <2>2. call[c].client \in DOMAIN client
    BY <2>1 DEF CallOK, Answers
  <2>3. \A i \in DOMAIN ran : ran[i] # c
    BY <2>1 DEF RegistryInv, RunsOK, Unanswered
  <2> QED BY <2>1, <2>2, <2>3, ClientTyped
<1> PICK k \in Nat : k = call[c].client
  BY <1>1
<1> PICK request, ops : request = call[c].request /\ ops = client[k].ops
  OBVIOUS
<1> PICK out : out = handle(ops, request)
  OBVIOUS
<1>2. /\ client' = [client EXCEPT ![k].ops = out.ops]
      /\ call' = [call EXCEPT ![c].answer = out.answer]
      /\ ran' = Append(ran, c)
  BY DEF Serve
<1>3. ops \in Ops /\ Remembers(k, ops) /\ client[k] \in ClientState
  <2>1. client[k] \in ClientState
    BY <1>1, ClientTyped
  <2> QED BY <1>1, <2>1, MemoryPerProcess DEF RegistryInv, ClientState
<1>4. Handled(ops, request, out)
  BY <1>3, HandleHandles DEF Remembers
<1>5. out.ops \in Ops /\ out.answer \in {"result", "error", "unknown"}
  BY <1>4 DEF Handled
<1>6. /\ client' \in Seq(ClientState) /\ DOMAIN client' = DOMAIN client
      /\ \A j \in DOMAIN client : j # k => client'[j] = client[j]
      /\ client'[k].ops = out.ops
      /\ \A j \in DOMAIN client : /\ client'[j].server = client[j].server
                                  /\ client'[j].pc = client[j].pc
  <2> DEFINE x == [client[k] EXCEPT !.ops = out.ops]
  <2>1. client' = [client EXCEPT ![k] = x]
    BY <1>1, <1>2 DEF RegistryInv, RegistryTypes
  <2>2. x \in ClientState /\ x.ops = out.ops /\ x.server = client[k].server /\ x.pc = client[k].pc
    BY <1>3, <1>5 DEF ClientState
  <2> HIDE DEF x
  <2>3. client' \in Seq(ClientState)
    BY <1>1, <2>1, <2>2, ExceptSeq DEF RegistryInv, RegistryTypes
  <2> QED BY <1>1, <2>1, <2>2, <2>3 DEF RegistryInv, RegistryTypes
<1>7. /\ call' \in [Calls -> CallState] /\ call'[c].answer = out.answer
      /\ call'[c].pc = call[c].pc /\ call'[c].server = call[c].server
      /\ call'[c].request = request /\ call'[c].client = k
      /\ call'[c].result = call[c].result /\ call'[c].forgotten = call[c].forgotten
      /\ \A b \in Calls : b # c => call'[b] = call[b]
  <2> DEFINE x == [call[c] EXCEPT !.answer = out.answer]
  <2>1. call' = [call EXCEPT ![c] = x]
    BY <1>2 DEF RegistryInv, RegistryTypes
  <2>2. /\ x \in CallState /\ x.answer = out.answer
        /\ x.pc = call[c].pc /\ x.server = call[c].server /\ x.request = call[c].request
        /\ x.client = call[c].client /\ x.result = call[c].result
        /\ x.forgotten = call[c].forgotten
    BY <1>5, CallTyped DEF CallState, Answers
  <2> HIDE DEF x
  <2> QED BY <2>1, <2>2 DEF RegistryInv, RegistryTypes
<1> PICK n : n = Len(ran) + 1
  OBVIOUS
<1>8. /\ ran' \in Seq(Calls) /\ n \in Nat /\ n \notin DOMAIN ran
      /\ DOMAIN ran' = DOMAIN ran \cup {n} /\ \A i \in DOMAIN ran : i < n /\ i \in Nat
      /\ ran'[n] = c /\ \A i \in DOMAIN ran : ran'[i] = ran[i]
  <2>1. ran \in Seq(Calls)
    BY DEF RegistryInv, RegistryTypes
  <2>2. Len(ran) \in Nat /\ DOMAIN ran = 1 .. Len(ran)
    BY <2>1, LenProperties
  <2>3. /\ ran' \in Seq(Calls) /\ DOMAIN ran' = 1 .. n
        /\ ran'[n] = c /\ \A i \in 1 .. Len(ran) : ran'[i] = ran[i]
    BY <1>2, <2>1, <2>2, AppendProperties
  <2> QED BY <2>2, <2>3
<1>9. RegistryTypes'
  BY <1>6, <1>7, <1>8 DEF RegistryInv, RegistryTypes, Serve
<1>10. MapsInv' /\ OrphansAreExplained'
  <2>1. MapsInv'
    BY <1>6 DEF RegistryInv, MapsInv, Made, Serve
  <2>2. OrphansAreExplained'
    BY <1>6 DEF RegistryInv, OrphansAreExplained, Serve
  <2> QED BY <2>1, <2>2
<1>11. ASSUME NEW b \in Calls PROVE CallOK(b)'
  <2>1. CASE b = c
    BY <1>1, <1>5, <1>6, <1>7, <2>1 DEF CallOK, Serve, Answers
  <2>2. CASE b # c
    BY <1>6, <1>7, <2>2 DEF RegistryInv, CallOK, Serve
  <2> QED BY <2>1, <2>2
<1>12. ASSUME NEW b \in Calls PROVE RunsOK(b)'
  <2>1. CASE b = c
    <3>1. call'[c].answer \notin Unanswered
      BY <1>5, <1>7 DEF Unanswered, Answers
    <3> QED BY <1>1, <1>8, <2>1, <3>1 DEF RunsOK
  <2>2. CASE b # c
    <3>1. RunsOK(b) /\ call'[b] = call[b]
      BY <1>7, <2>2 DEF RegistryInv
    <3> QED BY <1>8, <2>2, <3>1 DEF RunsOK
  <2> QED BY <2>1, <2>2
<1>13. \A i \in DOMAIN ran : ran[i] \in Calls /\ call'[ran[i]] = call[ran[i]]
  BY <1>1, <1>7, RanWasAnswered
<1>14. ASSUME NEW j, NEW names, NEW target
       PROVE  Done(j, names, target)' =
                IF j = k /\ out.answer = "result" /\ request.tool \in names /\ request.target = target
                THEN Done(j, names, target) \cup {n} ELSE Done(j, names, target)
  BY <1>7, <1>8, <1>13 DEF Done
<1>15. ASSUME NEW j \in DOMAIN client, j # k PROVE Remembers(j, client[j].ops)'
  <2>1. \A names, target : Done(j, names, target)' = Done(j, names, target)
    BY <1>14, <1>15
  <2>2. \A i \in DOMAIN ran : call'[ran'[i]] = call[ran[i]]
    BY <1>8, <1>13
  <2>3. ASSUME NEW names, NEW target, NEW name
        PROVE  LastRan(Done(j, names, target), name)' <=> LastRan(Done(j, names, target), name)
    <3> PICK runs : runs = Done(j, names, target)
      OBVIOUS
    <3>1. runs \subseteq DOMAIN ran
      BY DEF Done
    <3>2. Done(j, names, target)' = runs
      BY <2>1
    <3> QED BY <2>2, <3>1, <3>2 DEF LastRan
  <2>4. Remembers(j, client[j].ops) /\ client'[j].ops = client[j].ops
    BY <1>6, <1>15, MemoryPerProcess DEF RegistryInv
  <2> QED BY <2>1, <2>3, <2>4 DEF Remembers
<1>16. Remembers(k, client[k].ops)'
  <2>1. NoneTwice(out.ops.blockedIps)
    BY <1>4 DEF Handled
  <2>2. ASSUME NEW ip \in Ips
        PROVE  Lists(out.ops.blockedIps, ip) <=> LastRan(Done(k, Changes, ip), "block_ip")'
    <3> PICK runs : runs = Done(k, Changes, ip)
      OBVIOUS
    <3>1. runs \subseteq DOMAIN ran
      BY DEF Done
    <3>2. Lists(ops.blockedIps, ip) <=> LastRan(runs, "block_ip")
      BY <1>3 DEF Remembers
    <3>3. CASE out.answer = "result" /\ request.tool \in Changes /\ request.target = ip
      <4>1. Done(k, Changes, ip)' = runs \cup {n}
        BY <1>14, <3>3
      <4>2. Lists(out.ops.blockedIps, ip) <=> request.tool = "block_ip"
        BY <1>4, <3>3 DEF Handled, Changes
      <4>3. LastRan(Done(k, Changes, ip), "block_ip")' <=> request.tool = "block_ip"
        BY <1>7, <1>8, <3>1, <4>1 DEF LastRan
      <4> QED BY <4>2, <4>3
    <3>4. CASE ~(out.answer = "result" /\ request.tool \in Changes /\ request.target = ip)
      <4>1. Done(k, Changes, ip)' = runs
        BY <1>14, <3>4
      <4>2. Lists(out.ops.blockedIps, ip) <=> Lists(ops.blockedIps, ip)
        BY <1>4, <3>4 DEF Handled, Changes
      <4>3. LastRan(Done(k, Changes, ip), "block_ip")' <=> LastRan(runs, "block_ip")
        BY <1>8, <1>13, <3>1, <4>1 DEF LastRan
      <4> QED BY <3>2, <4>2, <4>3
    <3> QED BY <3>3, <3>4
  <2>3. out.ops.quarantined = {id \in Devices : Done(k, {"quarantine_device"}, id)' # {}}
    <3>1. \A id : Done(k, {"quarantine_device"}, id)' # {} <=>
            \/ Done(k, {"quarantine_device"}, id) # {}
            \/ out.answer = "result" /\ request.tool = "quarantine_device" /\ request.target = id
      BY <1>14
    <3>2. ops.quarantined = {id \in Devices : Done(k, {"quarantine_device"}, id) # {}}
      BY <1>3 DEF Remembers
    <3>3. out.ops.quarantined \subseteq Devices
      BY <1>5 DEF Ops
    <3> QED BY <1>4, <3>1, <3>2, <3>3 DEF Handled
  <2>4. out.ops.incidents = Cardinality(Done(k, {"create_incident"}, "valid")')
    <3> PICK runs : runs = Done(k, {"create_incident"}, "valid")
      OBVIOUS
    <3>1. runs \subseteq DOMAIN ran /\ n \notin runs
      BY <1>8 DEF Done
    <3>2. IsFiniteSet(DOMAIN ran)
      BY LenProperties, FS_Interval DEF RegistryInv, RegistryTypes
    <3>3. IsFiniteSet(runs) /\ Cardinality(runs) = ops.incidents
      BY <1>3, <3>1, <3>2, FS_Subset DEF Remembers
    <3>4. CASE out.answer = "result" /\ request.tool = "create_incident"
      <4>1. Done(k, {"create_incident"}, "valid")' = runs \cup {n}
        BY <1>4, <1>14, <3>4 DEF Handled
      <4>2. Cardinality(runs \cup {n}) = ops.incidents + 1
        <5>1. Cardinality(runs \cup {n}) = IF n \in runs THEN Cardinality(runs) ELSE Cardinality(runs) + 1
          BY <3>3, FS_AddElement
        <5> QED BY <3>1, <3>3, <5>1
      <4>3. out.ops.incidents = ops.incidents + 1
        BY <1>4, <3>4 DEF Handled
      <4> QED BY <4>1, <4>2, <4>3
    <3>5. CASE ~(out.answer = "result" /\ request.tool = "create_incident")
      <4>1. Done(k, {"create_incident"}, "valid")' = runs
        BY <1>14, <3>5
      <4>2. out.ops.incidents = ops.incidents
        BY <1>4, <3>5 DEF Handled
      <4> QED BY <3>3, <4>1, <4>2
    <3> QED BY <3>4, <3>5
  <2> QED BY <1>6, <2>1, <2>2, <2>3, <2>4 DEF Remembers
<1>17. MemoryIsTheRecord'
  <2>1. \A j \in DOMAIN client' : Remembers(j, client[j].ops)'
    BY <1>6, <1>15, <1>16
  <2> QED BY <2>1 DEF MemoryIsTheRecord, Remembers, NoneTwice, Lists, isBlocked, Changes
<1> QED BY <1>9, <1>10, <1>11, <1>12, <1>17 DEF RegistryInv

-----------------------------------------------------------------------------
(* The theorems                                                            *)

LEMMA BootConnectKeeps ==
  ASSUME RegistryInv, BootConnect PROVE RegistryInv'
<1>1. boot \in Nat /\ boot' = boot + 1 /\ boot < Len(Config)
  BY DEF RegistryInv, RegistryTypes, BootConnect
<1>2. Config \in Seq(ServerIds)
  BY DEF Config
<1>3. Config[boot + 1] \in ServerIds /\ boot' \in Nat
  BY <1>1, <1>2, ElementOfSeq, LenProperties
<1> QED BY <1>3, OpenKeeps DEF BootConnect

LEMMA StepRegistryInv == RegistryInv /\ [RegistryNext]_registryVars => RegistryInv'
<1> SUFFICES ASSUME RegistryInv, [RegistryNext]_registryVars PROVE RegistryInv'
  OBVIOUS
<1>1. CASE BootConnect
  BY <1>1, BootConnectKeeps
<1>2. CASE Listen \/ UNCHANGED registryVars
  <2>1. /\ boot' \in Nat
        /\ UNCHANGED <<client, clients, tools, closing, closed, call, ran>>
    BY <1>2 DEF Listen, registryVars, RegistryInv, RegistryTypes
  <2>2. RegistryTypes' /\ MapsInv' /\ (\A c \in Calls : CallOK(c)' /\ RunsOK(c)')
    BY <2>1 DEF RegistryInv, RegistryTypes, MapsInv, Made, CallOK, RunsOK
  <2>3. MemoryIsTheRecord' /\ OrphansAreExplained'
    BY <2>1, NoCallNoRun, MemoryKept DEF RegistryInv, OrphansAreExplained
  <2> QED BY <2>2, <2>3 DEF RegistryInv
<1>3. ASSUME NEW s \in ServerIds, Connect(s) PROVE RegistryInv'
  BY <1>3, OpenKeeps DEF Connect, RegistryInv, RegistryTypes
<1>4. ASSUME NEW s \in ServerIds, BeginDisconnect(s) PROVE RegistryInv'
  BY <1>4, BeginDisconnectKeeps
<1>5. ASSUME NEW k \in DOMAIN client, ConnectStep(k) \/ Crash(k) PROVE RegistryInv'
  BY <1>5, HandshakeKeeps, ConnectFailsKeeps, RegisterKeeps, ListFailsKeeps, CrashKeeps
     DEF ConnectStep
<1>6. ASSUME NEW d \in closing, FinishDisconnect(d) \/ DisconnectFails(d) PROVE RegistryInv'
  BY <1>6, FinishDisconnectKeeps, DisconnectFailsKeeps
<1>7. ASSUME NEW c \in Calls, ExecuteStep(c) PROVE RegistryInv'
  BY <1>7, ExecuteKeeps, ServeKeeps, ReturnKeeps, BreakKeeps DEF ExecuteStep
<1>8. ASSUME NEW c \in Calls, NEW s \in ServerIds, NEW r \in Requests, Propose(c, s, r)
      PROVE  RegistryInv'
  BY <1>8, ProposeKeeps
<1> QED BY <1>1, <1>2, <1>3, <1>4, <1>5, <1>6, <1>7, <1>8 DEF RegistryNext

LEMMA RegistryInvariance == RegistrySpec => []RegistryInv
BY InitRegistryInv, StepRegistryInv, PTL DEF RegistrySpec

\* executeTool and the process it reaches: no call ever runs its tool twice, one that is
\* reported not connected never ran it, one whose answer is reported did; for any number
\* of servers, clients, calls and disconnects.
THEOREM RunsAtMostOnceHolds == RegistrySpec => []RunsAtMostOnce
<1>1. RegistryInv => RunsAtMostOnce
  <2> SUFFICES ASSUME RegistryInv, NEW c \in Calls
               PROVE  LET runs == Cardinality({i \in DOMAIN ran : ran[i] = c})
                      IN  /\ runs <= 1
                          /\ call[c].result = "notConnected" => runs = 0
                          /\ call[c].result \in {"success", "toolError"} => runs = 1
    BY DEF RunsAtMostOnce
  <2> DEFINE R == {i \in DOMAIN ran : ran[i] = c}
  <2>1. CASE call[c].answer \in Unanswered
    <3>1. R = {}
      BY <2>1 DEF RegistryInv, RunsOK
    <3>2. Cardinality(R) = 0
      BY <3>1, FS_EmptySet
    <3>3. call[c].result \notin {"success", "toolError"}
      BY <2>1 DEF RegistryInv, CallOK, Unanswered, Answers
    <3> QED BY <3>2, <3>3
  <2>2. CASE call[c].answer \notin Unanswered
    <3>1. PICK i : R = {i}
      BY <2>2 DEF RegistryInv, RunsOK
    <3>2. Cardinality(R) = 1
      BY <3>1, FS_Singleton
    <3>3. call[c].result # "notConnected"
      BY <2>2 DEF RegistryInv, CallOK, Unanswered
    <3> QED BY <3>2, <3>3
  <2> QED BY <2>1, <2>2
<1> QED BY <1>1, RegistryInvariance, PTL

\* SecurityOps: what every server process remembers is what the calls that ran there say,
\* lost replies and late requests included; for any number of processes and calls.
THEOREM MemoryIsTheRecordHolds == RegistrySpec => []MemoryIsTheRecord
<1>1. RegistryInv => MemoryIsTheRecord
  BY DEF RegistryInv
<1> QED BY <1>1, RegistryInvariance, PTL

\* McpRegistry's two maps: a call to a tool the model was offered finds its client, unless
\* the server was disconnected after the offer.
THEOREM NotConnectedIsExplainedHolds == RegistrySpec => []NotConnectedIsExplained
<1>1. RegistryInv => NotConnectedIsExplained
  BY DEF RegistryInv, CallOK, NotConnectedIsExplained
<1> QED BY <1>1, RegistryInvariance, PTL

\* connect and disconnect: a client that is open, or whose close() is under way or was
\* rejected, and that the registry has lost shares its server id with another connection,
\* which replaced it or whose end deleted them both.
THEOREM OrphansAreExplainedHolds == RegistrySpec => []OrphansAreExplained
<1>1. RegistryInv => OrphansAreExplained
  BY DEF RegistryInv
<1> QED BY <1>1, RegistryInvariance, PTL
=============================================================================
