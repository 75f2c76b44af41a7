----------------------- MODULE ApprovalRegistryProofs -----------------------
(***************************************************************************)
(* Proofs about ApprovalRegistry, for any number of calls, operators and   *)
(* rules, any timeouts and any number of restarts.                         *)
(***************************************************************************)
EXTENDS ApprovalRegistry, TLAPS

\* A call nobody parked has no verdict and nobody was asked about it.
NewIsUntouched ==
  /\ \A i \in Ids : state[i] = "new" => verdict[i] = Null
  /\ \A a \in requests \cup accepted : state[a.id] # "new"

\* A running timer still has what is left of the delay to go.
TimerCountsDown ==
  \A i \in Ids : timer[i] # Off /\ rule[i] # Null /\ rule[i].approverFallback = "AUTO_ALLOW" =>
    waited[i] + timer[i] >= delayOf(timeoutOf(rule[i]))

IInv ==
  /\ TypeOK
  /\ NewIsUntouched
  /\ PendingIsAwaited
  /\ TimerCountsDown
  /\ AcceptedIsTheVerdict
  /\ AllowIsJustified

USE ApprovalRegistryAssumption

LEMMA DelayBounds == ASSUME NEW s PROVE delayOf(s) \in 0 .. MaxDelay
  BY DEF delayOf

LEMMA InitIInv == Init => IInv
  BY DEF Init, IInv, TypeOK, NewIsUntouched, PendingIsAwaited, TimerCountsDown,
         AcceptedIsTheVerdict, AllowIsJustified, Off

LEMMA ParkStep ==
  ASSUME IInv, NEW i \in Ids, NEW r \in Rules, waitForApproval(i, r)
  PROVE  IInv'
<1> USE DEF IInv, waitForApproval
<1>1. TypeOK'
  BY DelayBounds DEF TypeOK, Off
<1>2. NewIsUntouched'
  BY DEF TypeOK, NewIsUntouched, Answers
<1>3. PendingIsAwaited'
  BY DelayBounds DEF TypeOK, PendingIsAwaited, NewIsUntouched, Off
<1>4. TimerCountsDown'
  <2>1. delayOf(timeoutOf(r)) \in Nat
    BY DelayBounds
  <2> QED BY <2>1 DEF TypeOK, TimerCountsDown
<1>5. AcceptedIsTheVerdict'
  BY DEF TypeOK, AcceptedIsTheVerdict, NewIsUntouched, Answers
<1>6. AllowIsJustified'
  BY DEF TypeOK, AllowIsJustified, NewIsUntouched
<1> QED BY <1>1, <1>2, <1>3, <1>4, <1>5, <1>6

LEMMA FireStep == ASSUME IInv, NEW i \in Ids, Fire(i) PROVE IInv'
<1> USE DEF IInv, Fire, resolvePromise
<1>0. fallbackOf(rule[i]) \in Verdicts /\ verdict[i] = Null /\ state[i] = "waiting"
  BY DEF fallbackOf, Verdicts, PendingIsAwaited, Off
<1>1. TypeOK'
  BY <1>0 DEF TypeOK, Off
<1>2. NewIsUntouched'
  BY <1>0 DEF TypeOK, NewIsUntouched
<1>3. PendingIsAwaited'
  BY <1>0 DEF TypeOK, PendingIsAwaited, Verdicts
<1>4. TimerCountsDown'
  BY DEF TypeOK, TimerCountsDown
<1>5. AcceptedIsTheVerdict'
  BY <1>0 DEF TypeOK, AcceptedIsTheVerdict, Answers, Verdicts
<1>6. AllowIsJustified'
  <2>1. fallbackOf(rule[i]) = "ALLOW" =>
          /\ rule[i] # Null /\ rule[i].approverFallback = "AUTO_ALLOW"
          /\ waited[i] >= delayOf(timeoutOf(rule[i]))
    BY DEF TypeOK, TimerCountsDown, fallbackOf, Off
  <2> QED BY <1>0, <2>1 DEF TypeOK, AllowIsJustified
<1> QED BY <1>1, <1>2, <1>3, <1>4, <1>5, <1>6

LEMMA ResolveStep == ASSUME IInv, NEW a \in requests, resolve(a) PROVE IInv'
<1> USE DEF IInv, resolve, resolvePromise
<1>0. a.id \in Ids /\ a.verdict \in Verdicts /\ a \in Answers
  BY DEF TypeOK, Answers
<1>1. CASE a.id \notin pending
  BY <1>1 DEF TypeOK, NewIsUntouched, PendingIsAwaited, TimerCountsDown, AcceptedIsTheVerdict,
              AllowIsJustified
<1>2. CASE a.id \in pending
  <2>0. verdict[a.id] = Null /\ state[a.id] = "waiting"
    BY <1>0, <1>2 DEF PendingIsAwaited
  <2>1. TypeOK'
    BY <1>0, <1>2 DEF TypeOK, Off
  <2>2. NewIsUntouched'
    BY <1>0, <1>2, <2>0 DEF TypeOK, NewIsUntouched
  <2>3. PendingIsAwaited'
    BY <1>0, <1>2, <2>0 DEF TypeOK, PendingIsAwaited, Verdicts
  <2>4. TimerCountsDown'
    BY <1>0, <1>2 DEF TypeOK, TimerCountsDown
  <2>5. AcceptedIsTheVerdict'
    BY <1>0, <1>2, <2>0 DEF TypeOK, AcceptedIsTheVerdict, Answers, Verdicts
  <2>6. AllowIsJustified'
    BY <1>0, <1>2, <2>0 DEF TypeOK, AllowIsJustified
  <2> QED BY <2>1, <2>2, <2>3, <2>4, <2>5, <2>6
<1> QED BY <1>1, <1>2

LEMMA TickStep == ASSUME IInv, Tick PROVE IInv'
<1> USE DEF IInv, Tick
<1>1. TypeOK'
  BY DEF TypeOK, Off
<1>2. NewIsUntouched' /\ AcceptedIsTheVerdict'
  BY DEF NewIsUntouched, AcceptedIsTheVerdict
<1>3. PendingIsAwaited'
  BY DEF TypeOK, PendingIsAwaited, Off
<1>4. ASSUME NEW i \in Ids
      PROVE  waited[i] \in 0 .. MaxWait /\ waited'[i] \in 0 .. MaxWait /\ waited'[i] >= waited[i]
  BY DEF TypeOK
<1>5. TimerCountsDown'
  <2> SUFFICES ASSUME NEW i \in Ids, timer'[i] # Off, rule[i] # Null,
                      rule[i].approverFallback = "AUTO_ALLOW"
               PROVE  waited'[i] + timer'[i] >= delayOf(timeoutOf(rule[i]))
    BY DEF TimerCountsDown
  <2>1. timer[i] \in 1 .. MaxDelay /\ timer'[i] = timer[i] - 1 /\ state[i] = "waiting"
    BY DEF TypeOK, PendingIsAwaited, Off
  <2>2. waited[i] + timer[i] >= delayOf(timeoutOf(rule[i]))
    BY <2>1 DEF TimerCountsDown, Off
  <2>3. delayOf(timeoutOf(rule[i])) <= MaxWait
    BY WaitAssumption DEF TypeOK, timeoutOf
  <2>4. waited'[i] = waited[i] + 1 \/ waited'[i] = MaxWait
    BY <2>1 DEF TypeOK
  <2> QED BY <1>4, <2>1, <2>2, <2>3, <2>4, DelayBounds
<1>6. AllowIsJustified'
  BY <1>4, DelayBounds DEF AllowIsJustified
<1> QED BY <1>1, <1>2, <1>3, <1>5, <1>6

LEMMA StepIInv == IInv /\ [Next]_vars => IInv'
<1> SUFFICES ASSUME IInv, [Next]_vars PROVE IInv'
  OBVIOUS
<1>1. ASSUME NEW i \in Ids, NEW o \in Operators, NEW v \in Verdicts, Answer(o, i, v)
      PROVE  IInv'
  BY <1>1 DEF Answer, Answers, IInv, TypeOK, NewIsUntouched, PendingIsAwaited, TimerCountsDown,
              AcceptedIsTheVerdict, AllowIsJustified
<1>2. ASSUME NEW i \in Ids, Resume(i) PROVE IInv'
  BY <1>2 DEF Resume, Answers, IInv, TypeOK, NewIsUntouched, PendingIsAwaited, TimerCountsDown,
              AcceptedIsTheVerdict, AllowIsJustified
<1>3. ASSUME Restart PROVE IInv'
  BY <1>3 DEF Restart, Answers, Off, IInv, TypeOK, NewIsUntouched, PendingIsAwaited,
              TimerCountsDown, AcceptedIsTheVerdict, AllowIsJustified
<1>4. ASSUME UNCHANGED vars PROVE IInv'
  BY <1>4 DEF vars, IInv, TypeOK, NewIsUntouched, PendingIsAwaited, TimerCountsDown,
              AcceptedIsTheVerdict, AllowIsJustified
<1> QED BY <1>1, <1>2, <1>3, <1>4, ParkStep, FireStep, ResolveStep, TickStep DEF Next

THEOREM IInvHolds == Spec => []IInv
  BY InitIInv, StepIInv, PTL DEF Spec

\* An answer the server confirmed is the verdict the turn gets, whatever it raced.
THEOREM AcceptedIsTheVerdictHolds == Spec => []AcceptedIsTheVerdict
<1>1. IInv => AcceptedIsTheVerdict
  BY DEF IInv
<1> QED BY <1>1, IInvHolds, PTL

\* No call is approved but by a confirmed answer or the whole delay of an AUTO_ALLOW rule.
THEOREM AllowIsJustifiedHolds == Spec => []AllowIsJustified
<1>1. IInv => AllowIsJustified
  BY DEF IInv
<1> QED BY <1>1, IInvHolds, PTL

\* The registry never holds a call nobody waits for, nor forgets one somebody waits for.
THEOREM PendingIsAwaitedHolds == Spec => []PendingIsAwaited
<1>1. IInv => PendingIsAwaited
  BY DEF IInv
<1> QED BY <1>1, IInvHolds, PTL
=============================================================================
