------------------------------- MODULE AuditProofs ------------------------------
(***************************************************************************)
(* Proofs about the audit package: the audit service (AuditChain), and, in *)
(* the second half, what becomes of a chain whose stored entries change    *)
(* (ChainAlterations).                                                     *)
(*                                                                         *)
(* Of the service, for any number of record() calls, faults and restarts:  *)
(* the table is a chain 0 .. n-1, and an insert on its way either          *)
(* continues it at n or comes too late, and is refused.                    *)
(***************************************************************************)
EXTENDS AuditChain, ChainAlterations, FiniteSetTheorems, SequenceTheorems, WellFoundedInduction, TLAPS

Count == Cardinality(DOMAIN rows)
Tip == IF Count = 0 THEN GENESIS_HASH ELSE rows[Count - 1].hash

Entry(entry) ==
  /\ entry.sequence \in Nat /\ entry.event \in Events
  /\ entry.hash = computeHash(entry)

ChainOK ==
  /\ Count \in Nat /\ DOMAIN rows = 0 .. Count - 1
  /\ \A i \in DOMAIN rows : /\ Entry(rows[i]) /\ rows[i].sequence = i
                            /\ linked(rows, i)

SentOK ==
  \A entry \in sent : /\ Entry(entry) /\ entry.sequence <= Count
                      /\ entry.sequence = Count => entry.prevHash = Tip

\* An event is inserted once: its insert is on its way, is in the table, or was refused.
OncePerEvent ==
  /\ \A entry \in sent : pc[entry.event] \in {"inserting", "failed", "ok"}
  /\ \A i \in DOMAIN rows : pc[rows[i].event] \in {"inserting", "failed", "ok"}
  /\ \A x, y \in sent : x.event = y.event => x = y
  /\ \A entry \in sent, i \in DOMAIN rows : entry.event # rows[i].event
  /\ \A i, j \in DOMAIN rows : rows[i].event = rows[j].event => i = j

ProcessOK ==
  /\ pc \in [Events -> Pcs]
  /\ chain \in Seq(Events)
  /\ reply \in [Events -> {"none", "done", "duplicate"}]
  /\ faults \in 0 .. MaxFaults
  /\ \A e \in Events : pc[e] = "inserting" => HasLock(e)

IInv == ProcessOK /\ ChainOK /\ SentOK /\ OncePerEvent

USE AuditChainAssumption DEF AuditChainAssumption

-----------------------------------------------------------------------------
(* The repository over a table that is a chain                             *)

LEMMA LatestIsTip ==
  ASSUME ChainOK
  PROVE  IF Count = 0 THEN Latest = NoEntry ELSE Latest = rows[Count - 1]
<1>1. CASE Count = 0
  BY <1>1 DEF ChainOK, Latest
<1>2. CASE Count # 0
  <2>1. Count - 1 \in DOMAIN rows /\ \A t \in DOMAIN rows : t <= Count - 1
    BY <1>2 DEF ChainOK
  <2>2. \A s \in DOMAIN rows : (\A t \in DOMAIN rows : t <= s) => s = Count - 1
    BY <2>1 DEF ChainOK
  <2>3. (CHOOSE s \in DOMAIN rows : \A t \in DOMAIN rows : t <= s) = Count - 1
    BY <2>1, <2>2
  <2> QED BY <1>2, <2>1, <2>3 DEF Latest
<1> QED BY <1>1, <1>2

LEMMA NextEntry ==
  ASSUME ChainOK, NEW e \in Events
  PROVE  createEntry(Latest, e) = sealed(Count, e, Tip)
<1>1. CASE Count = 0
  BY <1>1, LatestIsTip DEF createEntry, Tip
<1>2. CASE Count # 0
  <2>1. Count - 1 \in DOMAIN rows
    BY <1>2 DEF ChainOK
  <2>2. rows[Count - 1].sequence = Count - 1 /\ Count \in Nat
    BY <2>1 DEF ChainOK
  <2>3. rows[Count - 1] # NoEntry
    BY <1>2, <2>2 DEF NoEntry
  <2> QED BY <1>2, <2>2, <2>3, LatestIsTip DEF createEntry, Tip
<1> QED BY <1>1, <1>2

LEMMA getAllIsRows ==
  ASSUME ChainOK
  PROVE  DOMAIN getAll = DOMAIN rows /\ \A i \in DOMAIN rows : getAll[i] = rows[i]
<1>1. DOMAIN getAll = DOMAIN rows
  BY DEF ChainOK, getAll, Count
<1>2. ASSUME NEW i \in DOMAIN rows PROVE getAll[i] = rows[i]
  <2> DEFINE below(s) == {t \in DOMAIN rows : t < s}
  <2>1. ASSUME NEW s \in DOMAIN rows PROVE Cardinality(below(s)) = s
    <3>1. s \in Nat /\ below(s) = 0 .. s - 1
      BY DEF ChainOK
    <3>2. Cardinality(0 .. s - 1) = s
      BY <3>1, FS_Interval
    <3> QED BY <3>1, <3>2
  <2> HIDE DEF below
  <2>2. (CHOOSE s \in DOMAIN rows : Cardinality(below(s)) = i) = i
    BY <2>1
  <2> USE DEF below
  <2>3. getAll[i] = rows[CHOOSE s \in DOMAIN rows : Cardinality(below(s)) = i]
    BY DEF getAll, ChainOK, Count
  <2> QED BY <2>2, <2>3
<1> QED BY <1>1, <1>2

\* A table that is a chain verifies.
LEMMA ChainOKVerifies == ChainOK => ChainVerifies
<1> SUFFICES ASSUME ChainOK PROVE ChainVerifies
  OBVIOUS
<1>1. \A i \in DOMAIN getAll : /\ contiguous(getAll, i) /\ linked(getAll, i)
                               /\ authentic(getAll, i)
  <2> SUFFICES ASSUME NEW i \in DOMAIN rows
               PROVE  /\ contiguous(getAll, i) /\ linked(getAll, i)
                      /\ authentic(getAll, i)
    BY getAllIsRows
  <2>1. i # 0 => i - 1 \in DOMAIN rows
    BY DEF ChainOK
  <2>2. linked(rows, i) /\ rows[i].sequence = i /\ rows[i].hash = computeHash(rows[i])
    BY DEF ChainOK, Entry
  <2> QED BY <2>1, <2>2, getAllIsRows DEF contiguous, linked, authentic
<1>2. Broken(getAll) = {}
  BY <1>1 DEF Broken
<1> QED BY <1>2 DEF ChainVerifies, verifyAudit, verifyChain

-----------------------------------------------------------------------------
(* The invariant                                                           *)

LEMMA InitIInv == Init => IInv
<1> SUFFICES ASSUME Init PROVE IInv
  OBVIOUS
<1>1. DOMAIN rows = {} /\ sent = {} /\ Count = 0
  BY FS_EmptySet DEF Init, Count
<1>2. pc \in [Events -> Pcs] /\ reply \in [Events -> {"none", "done", "duplicate"}]
  BY DEF Init, Pcs
<1>3. chain \in Seq(Events) /\ faults \in 0 .. MaxFaults
  BY DEF Init
<1>4. ChainOK /\ SentOK /\ OncePerEvent
  BY <1>1 DEF ChainOK, SentOK, OncePerEvent
<1>5. \A e \in Events : pc[e] # "inserting"
  BY DEF Init
<1> QED BY <1>2, <1>3, <1>4, <1>5 DEF IInv, ProcessOK

\* The process's own steps do not touch the table; of what is sent nothing is new.
LEMMA QuietKeeps ==
  ASSUME IInv, ProcessOK', UNCHANGED rows, sent' \subseteq sent,
         \A e \in Events : pc[e] \in {"inserting", "failed", "ok"}
                          => pc'[e] \in {"inserting", "failed", "ok"}
  PROVE  IInv'
<1>1. ChainOK' /\ Count' = Count /\ Tip' = Tip
  BY DEF IInv, ChainOK, Count, Entry, linked, computeHash, Tip
<1>2. SentOK'
  BY <1>1 DEF IInv, SentOK, Entry, computeHash
<1>3. \A entry \in sent : entry.event \in Events
  BY DEF IInv, SentOK, Entry
<1>4. \A i \in DOMAIN rows : rows[i].event \in Events
  BY DEF IInv, ChainOK, Entry
<1>5. OncePerEvent'
  BY <1>3, <1>4 DEF IInv, OncePerEvent
<1> QED BY <1>1, <1>2, <1>5 DEF IInv

LEMMA InsertKeeps == ASSUME IInv, NEW e \in Events, Insert(e) PROVE IInv'
<1> DEFINE entry == sealed(Count, e, Tip)
<1>1. sent' = sent \cup {entry} /\ UNCHANGED rows /\ pc[e] = "waiting"
  BY NextEntry DEF IInv, Insert
<1>2. /\ Entry(entry) /\ entry.sequence = Count /\ entry.event = e /\ entry.prevHash = Tip
      /\ Count \in Nat
  BY DEF IInv, ChainOK, Entry, sealed, computeHash
<1> HIDE DEF entry
<1>3. ProcessOK' /\ pc' = [pc EXCEPT ![e] = "inserting"]
  BY DEF IInv, ProcessOK, Insert, Pcs, HasLock
<1>4. ChainOK' /\ Count' = Count /\ Tip' = Tip
  BY <1>1 DEF IInv, ChainOK, Count, Entry, linked, computeHash, Tip
<1>5. SentOK'
  BY <1>1, <1>2, <1>4 DEF IInv, SentOK, Entry, computeHash
<1>6. \A x \in sent : x.event \in Events /\ x.event # e
  BY <1>1 DEF IInv, SentOK, Entry, OncePerEvent
<1>7. \A i \in DOMAIN rows : rows[i].event \in Events /\ rows[i].event # e
  BY <1>1 DEF IInv, ChainOK, Entry, OncePerEvent
<1>8. OncePerEvent'
  <2>1. pc \in [Events -> Pcs]
    BY DEF IInv, ProcessOK
  <2> QED BY <1>1, <1>2, <1>3, <1>6, <1>7, <2>1 DEF IInv, OncePerEvent
<1> QED BY <1>3, <1>4, <1>5, <1>8 DEF IInv

\* What an insert that is not refused does to the table.
LEMMA Grown ==
  ASSUME IInv, NEW entry \in sent, entry.sequence \notin DOMAIN rows,
         rows' = [s \in DOMAIN rows \cup {entry.sequence} |->
                    IF s = entry.sequence THEN entry ELSE rows[s]]
  PROVE  /\ entry.sequence = Count /\ Count' = Count + 1 /\ DOMAIN rows' = 0 .. Count
         /\ \A i \in DOMAIN rows : rows'[i] = rows[i]
         /\ rows'[Count] = entry /\ entry.prevHash = Tip
<1>1. Count \in Nat /\ DOMAIN rows = 0 .. Count - 1
  BY DEF IInv, ChainOK
<1>2. entry.sequence \in Nat /\ entry.sequence <= Count
  BY DEF IInv, SentOK, Entry
<1>3. entry.sequence = Count
  BY <1>1, <1>2
<1>4. DOMAIN rows' = 0 .. Count
  BY <1>1, <1>3
<1>5. Count' = Count + 1
  <2>1. Cardinality(0 .. Count) = Count + 1
    BY <1>1, FS_Interval
  <2>2. Count' = Cardinality(DOMAIN rows')
    BY DEF Count
  <2> QED BY <1>4, <2>1, <2>2
<1> QED BY <1>1, <1>3, <1>4, <1>5 DEF IInv, SentOK

LEMMA ExecuteKeeps == ASSUME IInv, NEW entry \in sent, Execute(entry) PROVE IInv'
<1>1. ProcessOK'
  BY DEF IInv, SentOK, Entry, ProcessOK, Execute, HasLock
<1>2. UNCHANGED pc /\ sent' = sent \ {entry}
  BY DEF Execute
<1>3. CASE entry.sequence \in DOMAIN rows
  BY <1>1, <1>2, <1>3, QuietKeeps DEF Execute
<1>4. CASE entry.sequence \notin DOMAIN rows
  <2>1. rows' = [s \in DOMAIN rows \cup {entry.sequence} |->
                   IF s = entry.sequence THEN entry ELSE rows[s]]
    BY <1>4 DEF Execute
  <2>2. /\ entry.sequence = Count /\ Count' = Count + 1 /\ DOMAIN rows' = 0 .. Count
        /\ \A i \in DOMAIN rows : rows'[i] = rows[i]
        /\ rows'[Count] = entry /\ entry.prevHash = Tip
    BY <1>4, <2>1, Grown
  <2>3. Count \in Nat /\ DOMAIN rows = 0 .. Count - 1 /\ Entry(entry)
    BY DEF IInv, ChainOK, SentOK
  <2>4. ASSUME NEW i \in DOMAIN rows'
        PROVE  Entry(rows[i])' /\ rows'[i].sequence = i /\ linked(rows, i)'
    <3>1. CASE i = Count
      BY <2>2, <2>3, <3>1 DEF Entry, computeHash, linked, Tip
    <3>2. CASE i \in DOMAIN rows
      <4>1. Entry(rows[i]) /\ rows[i].sequence = i /\ linked(rows, i)
        BY <3>2 DEF IInv, ChainOK
      <4>2. i # 0 => i - 1 \in DOMAIN rows
        BY <2>3, <3>2
      <4> QED BY <2>2, <3>2, <4>1, <4>2 DEF Entry, computeHash, linked
    <3> QED BY <2>2, <2>3, <3>1, <3>2
  <2>5. ChainOK'
    BY <2>2, <2>3, <2>4 DEF ChainOK
  <2>6. SentOK'
    BY <1>2, <2>2, <2>3 DEF IInv, SentOK, Entry, computeHash
  <2>7. OncePerEvent'
    <3>1. \A i \in DOMAIN rows' : i = Count \/ i \in DOMAIN rows
      BY <2>2, <2>3
    <3>2. \A i \in DOMAIN rows : rows[i].event # entry.event
      BY DEF IInv, OncePerEvent
    <3> QED BY <1>2, <2>2, <3>1, <3>2 DEF IInv, OncePerEvent
  <2> QED BY <1>1, <2>5, <2>6, <2>7 DEF IInv
<1> QED BY <1>3, <1>4

LEMMA StepIInv == IInv /\ [Next]_vars => IInv'
<1> SUFFICES ASSUME IInv, [Next]_vars PROVE IInv'
  OBVIOUS
<1>1. /\ pc \in [Events -> Pcs] /\ chain \in Seq(Events)
      /\ reply \in [Events -> {"none", "done", "duplicate"}]
      /\ faults \in 0 .. MaxFaults
      /\ \A e \in Events : pc[e] = "inserting" => HasLock(e)
  BY DEF IInv, ProcessOK
<1>2. ASSUME NEW e \in Events, NEW outcome \in {"ok", "failed"}, HasLock(e),
             pc[e] \in {"waiting", "inserting"}, Settle(e, outcome),
             faults' \in 0 .. MaxFaults, UNCHANGED <<rows, sent, reply>>
      PROVE  IInv'
  <2>1. chain' \in Seq(Events) /\ pc' \in [Events -> Pcs]
    BY <1>1, <1>2 DEF Settle, HasLock, Pcs
  <2>2. \A f \in Events : pc'[f] # "inserting"
    BY <1>1, <1>2 DEF Settle, HasLock
  <2>3. ProcessOK'
    BY <1>1, <1>2, <2>1, <2>2 DEF ProcessOK
  <2> QED BY <1>1, <1>2, <2>3, QuietKeeps DEF Settle
<1>3. ASSUME NEW e \in Events, record(e) PROVE IInv'
  <2>1. chain' \in Seq(Events) /\ pc' \in [Events -> Pcs]
    BY <1>1, <1>3 DEF record, Pcs
  <2>2. \A f \in Events : HasLock(f) => HasLock(f)'
    BY <1>1, <1>3 DEF record, HasLock
  <2>3. ProcessOK'
    BY <1>1, <1>3, <2>1, <2>2 DEF ProcessOK, record
  <2> QED BY <1>1, <1>3, <2>3, QuietKeeps DEF record
<1>4. ASSUME NEW e \in Events, Return(e) PROVE IInv'
  BY <1>1, <1>2, <1>4 DEF Return
<1>5. ASSUME NEW e \in Events, Fail(e) PROVE IInv'
  <2>1. HasLock(e) /\ pc[e] \in {"waiting", "inserting"}
    BY <1>1, <1>5 DEF Fail
  <2>2. Settle(e, "failed") /\ faults' \in 0 .. MaxFaults /\ UNCHANGED <<rows, sent, reply>>
    BY <1>1, <1>5 DEF Fail
  <2> QED BY <1>2, <2>1, <2>2
<1>6. ASSUME NEW entry \in sent, Vanish(entry) PROVE IInv'
  <2>1. ProcessOK'
    BY <1>1, <1>6 DEF Vanish, ProcessOK, HasLock
  <2> QED BY <1>6, <2>1, QuietKeeps DEF Vanish
<1>7. ASSUME Restart PROVE IInv'
  <2>1. pc' \in [Events -> Pcs] /\ \A f \in Events : pc'[f] # "inserting"
    BY <1>1, <1>7 DEF Restart, Pcs
  <2>2. chain' \in Seq(Events) /\ faults' \in 0 .. MaxFaults
    BY <1>1, <1>7 DEF Restart
  <2>3. ProcessOK'
    BY <1>1, <1>7, <2>1, <2>2 DEF ProcessOK, Restart
  <2>4. \A e \in Events : pc[e] \in {"inserting", "failed", "ok"}
                         => pc'[e] \in {"inserting", "failed", "ok"}
    BY <1>1, <1>7 DEF Restart
  <2> QED BY <1>7, <2>3, <2>4, QuietKeeps DEF Restart
<1>8. CASE UNCHANGED vars
  <2>1. ProcessOK'
    BY <1>1, <1>8 DEF vars, ProcessOK, HasLock
  <2> QED BY <1>8, <2>1, QuietKeeps DEF vars
<1> QED BY <1>3, <1>4, <1>5, <1>6, <1>7, <1>8, InsertKeeps, ExecuteKeeps DEF Next

\* Whatever fails and restarts, and whichever late insert the database still runs, the
\* table verifies.
THEOREM ChainVerifiesHolds == Spec => []ChainVerifies
<1>1. IInv => ChainVerifies
  BY ChainOKVerifies DEF IInv
<1> QED BY <1>1, InitIInv, StepIInv, PTL DEF Spec

\* Type correctness of the audit service.
THEOREM TypeCorrect == Spec => []TypeOK
<1>1. IInv => TypeOK
  BY DEF IInv, ProcessOK, ChainOK, SentOK, Entry, TypeOK
<1> QED BY <1>1, InitIInv, StepIInv, PTL DEF Spec

-----------------------------------------------------------------------------
(* Without faults                                                          *)

\* One insert at a time, and it continues the chain.
Undisturbed ==
  faults = 0 =>
    /\ \A e \in Events : /\ pc[e] # "failed" /\ reply[e] # "duplicate"
                         /\ pc[e] \in {"new", "waiting"} => reply[e] = "none"
    /\ \A entry \in sent : /\ pc[entry.event] = "inserting" /\ reply[entry.event] = "none"
                           /\ entry.sequence = Count

LEMMA StepUndisturbed == IInv /\ Undisturbed /\ [Next]_vars => Undisturbed'
<1> SUFFICES ASSUME IInv, Undisturbed, [Next]_vars, faults' = 0 PROVE Undisturbed'
  BY DEF Undisturbed
<1>1. /\ pc \in [Events -> Pcs] /\ chain \in Seq(Events)
      /\ reply \in [Events -> {"none", "done", "duplicate"}]
      /\ faults \in Nat
      /\ \A e \in Events : pc[e] = "inserting" => HasLock(e)
  BY DEF IInv, ProcessOK
<1>2. \A entry \in sent : entry.event \in Events
  BY DEF IInv, SentOK, Entry
<1>3. ASSUME NEW e \in Events, record(e) PROVE Undisturbed'
  BY <1>1, <1>2, <1>3 DEF Undisturbed, record, Count
<1>4. ASSUME NEW e \in Events, Insert(e) PROVE Undisturbed'
  <2> DEFINE entry == sealed(Count, e, Tip)
  <2>1. sent' = sent \cup {entry} /\ UNCHANGED rows /\ pc[e] = "waiting"
    BY <1>4, NextEntry DEF IInv, Insert
  <2>2. entry.sequence = Count /\ entry.event = e
    BY DEF sealed
  <2> HIDE DEF entry
  <2>3. sent = {}
    <3> SUFFICES ASSUME NEW x \in sent PROVE FALSE
      OBVIOUS
    <3>1. pc[x.event] = "inserting" /\ faults = 0
      BY <1>4 DEF Undisturbed, Insert
    <3> QED BY <1>1, <1>2, <1>4, <2>1, <3>1 DEF HasLock, Insert
  <2> QED BY <1>1, <1>4, <2>1, <2>2, <2>3 DEF Undisturbed, Insert, Count
<1>5. ASSUME NEW e \in Events, Return(e) PROVE Undisturbed'
  <2>1. /\ pc[e] = "inserting" /\ reply[e] = "done" /\ faults = 0
        /\ pc' = [pc EXCEPT ![e] = "ok"]
    BY <1>1, <1>5 DEF Undisturbed, Return, Settle
  <2>2. sent = {}
    <3> SUFFICES ASSUME NEW x \in sent PROVE FALSE
      OBVIOUS
    <3>1. pc[x.event] = "inserting" /\ reply[x.event] = "none"
      BY <2>1 DEF Undisturbed
    <3> QED BY <1>1, <1>2, <2>1, <3>1 DEF HasLock
  <2> QED BY <1>1, <1>5, <2>1, <2>2 DEF Undisturbed, Return, Count
<1>6. ASSUME NEW entry \in sent, Execute(entry) PROVE Undisturbed'
  <2>1. /\ pc[entry.event] = "inserting" /\ entry.sequence = Count /\ faults = 0
        /\ entry.event \in Events
    BY <1>2, <1>6 DEF Undisturbed, Execute
  <2>2. entry.sequence \notin DOMAIN rows
    BY <2>1 DEF IInv, ChainOK
  <2>3. sent' = {}
    <3> SUFFICES ASSUME NEW x \in sent PROVE x = entry
      BY <1>6 DEF Execute
    <3>1. pc[x.event] = "inserting"
      BY <2>1 DEF Undisturbed
    <3>2. x.event = entry.event
      BY <1>1, <1>2, <2>1, <3>1 DEF HasLock
    <3> QED BY <3>2 DEF IInv, OncePerEvent
  <2> QED BY <1>1, <1>6, <2>1, <2>2, <2>3 DEF Undisturbed, Execute
<1>7. ASSUME NEW entry \in sent, Vanish(entry) PROVE Undisturbed'
  BY <1>1, <1>2, <1>7 DEF Undisturbed, Vanish, Count
<1>8. CASE (\E e \in Events : Fail(e)) \/ Restart
  BY <1>1, <1>8 DEF Fail, Restart
<1>9. CASE UNCHANGED vars
  BY <1>9 DEF Undisturbed, vars, Count
<1> QED BY <1>3, <1>4, <1>5, <1>6, <1>7, <1>8, <1>9 DEF Next

\* No record() fails but for a database failure or a restart, however many wait for the
\* lock: in particular none is refused for a tip another one has moved.
THEOREM FailsOnlyOnFaultHolds == Spec => []FailsOnlyOnFault
<1>1. Init => Undisturbed
  BY DEF Init, Undisturbed
<1>2. IInv /\ Undisturbed => FailsOnlyOnFault
  BY DEF IInv, ProcessOK, Undisturbed, FailsOnlyOnFault
<1> QED BY <1>1, <1>2, InitIInv, StepIInv, StepUndisturbed, PTL DEF Spec

-----------------------------------------------------------------------------
(* The refinement                                                          *)

\* What the log is while the table is a chain.
LEMMA RecordedIs ==
  ASSUME ChainOK
  PROVE  /\ Recorded \in Seq(Events) /\ Len(Recorded) = Count
         /\ \A i \in 1 .. Count : Recorded[i] = rows[i - 1].event
<1>1. Count \in Nat /\ DOMAIN rows = 0 .. Count - 1
  BY DEF ChainOK
<1>2. Recorded = [i \in 1 .. Count |-> getAll[i - 1].event]
  BY DEF Recorded, Count
<1>3. ASSUME NEW i \in 1 .. Count
      PROVE  getAll[i - 1].event = rows[i - 1].event /\ getAll[i - 1].event \in Events
  <2>1. i - 1 \in DOMAIN rows
    BY <1>1
  <2> QED BY <2>1, getAllIsRows DEF ChainOK, Entry
<1> QED BY <1>1, <1>2, <1>3

LEMMA InitRefines == Init => Log!Init
<1> SUFFICES ASSUME Init PROVE Recorded = <<>>
  BY DEF Log!Init
<1>1. ChainOK /\ Count = 0
  BY InitIInv, FS_EmptySet DEF IInv, Init, Count
<1> QED BY <1>1, RecordedIs

LEMMA StepRefines == IInv /\ [Next]_vars => [Log!Next]_Recorded
<1> SUFFICES ASSUME IInv, [Next]_vars PROVE Log!Next \/ Recorded' = Recorded
  OBVIOUS
<1>1. ChainOK /\ ChainOK'
  BY StepIInv DEF IInv
<1>2. CASE UNCHANGED rows
  BY <1>2 DEF Recorded, getAll
<1>3. ASSUME NEW entry \in sent, Execute(entry), entry.sequence \notin DOMAIN rows
      PROVE  Log!Next
  <2>1. /\ Count' = Count + 1 /\ \A i \in DOMAIN rows : rows'[i] = rows[i]
        /\ rows'[Count] = entry /\ entry.event \in Events
        /\ DOMAIN rows = 0 .. Count - 1 /\ Count \in Nat
    BY <1>3, Grown DEF IInv, SentOK, Entry, ChainOK, Execute
  <2>2. /\ Recorded \in Seq(Events) /\ Len(Recorded) = Count
        /\ \A i \in 1 .. Count : Recorded[i] = rows[i - 1].event
    BY <1>1, RecordedIs
  <2>3. /\ Recorded' \in Seq(Events) /\ Len(Recorded') = Count'
        /\ \A i \in 1 .. Count' : Recorded'[i] = rows'[i - 1].event
    <3> SUFFICES (/\ Recorded \in Seq(Events) /\ Len(Recorded) = Count
                  /\ \A i \in 1 .. Count : Recorded[i] = rows[i - 1].event)'
      OBVIOUS
    <3> QED BY <1>1, RecordedIs, PTL
  <2>4. ~Log!Logged(entry.event)
    BY <1>3, <2>1, <2>2 DEF Log!Logged, IInv, OncePerEvent
  <2>5. Recorded' = Append(Recorded, entry.event)
    <3> DEFINE longer == Append(Recorded, entry.event)
    <3>1. /\ longer \in Seq(Events) /\ Len(longer) = Count + 1
          /\ \A i \in 1 .. Count : longer[i] = Recorded[i]
          /\ longer[Count + 1] = entry.event
      BY <2>1, <2>2, AppendProperties
    <3> HIDE DEF longer
    <3>2. ASSUME NEW i \in 1 .. Count + 1 PROVE Recorded'[i] = longer[i]
      <4>1. CASE i = Count + 1
        BY <2>1, <2>3, <3>1, <4>1
      <4>2. CASE i \in 1 .. Count
        <5>1. i - 1 \in DOMAIN rows
          BY <2>1, <4>2
        <5> QED BY <2>1, <2>2, <2>3, <3>1, <4>2, <5>1
      <4> QED BY <2>1, <4>1, <4>2
    <3>3. Recorded' = longer
      BY <2>1, <2>3, <3>1, <3>2, SeqEqual
    <3> QED BY <3>3 DEF longer
  <2> QED BY <2>1, <2>4, <2>5 DEF Log!Next, Log!Record
<1>4. UNCHANGED rows \/ \E entry \in sent : Execute(entry) /\ entry.sequence \notin DOMAIN rows
  BY DEF Next, vars, record, Insert, Return, Fail, Vanish, Restart, Execute
<1> QED BY <1>2, <1>3, <1>4

\* The service implements the abstract log: whatever fails, the table's events are
\* appended one at a time, each at most once, and none is ever lost or changed.
THEOREM ImplementsLogHolds == Spec => ImplementsLog
<1> QED BY InitRefines, StepRefines, InitIInv, StepIInv, PTL DEF Spec, ImplementsLog, Log!Spec

-----------------------------------------------------------------------------
(* Alterations of the stored chain, for chains of any length and any       *)
(* number of alterations.  What verifyChain finds is a matter of the first *)
(* entry that differs, and what a hash commits to one of going back from   *)
(* entry to entry: both are arguments by the least number of a set.        *)

AlteredEntry(e) ==
  /\ e.sequence \in Nat /\ e.event \in Events
  /\ e = [sequence |-> e.sequence, event |-> e.event,
          prevHash |-> e.prevHash, hash |-> e.hash]
List(list) ==
  /\ Size(list) \in Nat /\ DOMAIN list = 0 .. Size(list) - 1
  /\ \A i \in DOMAIN list : AlteredEntry(list[i])

Verifies(list) ==
  \A i \in DOMAIN list :
    contiguous(list, i) /\ linked(list, i) /\ authentic(list, i)

AlteredInv ==
  /\ List(written) /\ Verifies(written)
  /\ List(entries)
  /\ alterations \in 0 .. MaxAlterations
  /\ alterations = 0 => entries = written

USE AlterationAssumption DEF AlterationAssumption

LEMMA SmallestOf ==
  ASSUME NEW T \in SUBSET Nat, T # {}
  PROVE  \E x \in T : \A y \in T : x <= y
<1> DEFINE R == OpToRel(<, Nat)
<1>1. R = {ss \in Nat \X Nat : ss[1] < ss[2]}
  BY Zenon DEF OpToRel
<1>2. \A x, y \in Nat : x < y => <<x, y>> \in R
  BY <1>1
<1>3. IsWellFoundedOn(R, Nat)
  BY NatLessThanWellFounded, Zenon
<1> HIDE DEF R
<1>4. PICK x \in T : \A y \in T : ~ (<<y, x>> \in R)
  BY <1>3, WFMin, Zenon
<1>5. ASSUME NEW y \in T PROVE x <= y
  <2>1. x \in Nat /\ y \in Nat /\ ~(y < x)
    BY <1>2, <1>4
  <2> QED BY <2>1
<1> QED BY <1>5

\* A function on 0 .. n-1 has size n.
LEMMA SizeOf ==
  ASSUME NEW n \in Nat, NEW f, DOMAIN f = 0 .. n - 1
  PROVE  Size(f) = n
BY FS_Interval DEF Size

-----------------------------------------------------------------------------
(* The lists the steps make are lists of entries                           *)

LEMMA AlteredInit == AlterationInit => AlteredInv
<1> SUFFICES ASSUME AlterationInit PROVE AlteredInv
  OBVIOUS
<1>1. DOMAIN written = {} /\ entries = written /\ Size(written) = 0
  BY FS_EmptySet DEF AlterationInit, Size
<1> QED BY <1>1 DEF AlterationAssumption, AlterationInit, AlteredInv, List, Verifies

LEMMA WriteKeeps ==
  ASSUME AlteredInv, NEW event \in Events, Write(event)
  PROVE  AlteredInv'
<1> DEFINE n == Size(written)
           e == createEntry(IF n = 0 THEN NoEntry ELSE written[n - 1], event)
<1>1. n \in Nat /\ DOMAIN written = 0 .. n - 1 /\ Verifies(written)
  BY DEF AlteredInv, List
<1>2. e = sealed(n, event, IF n = 0 THEN GENESIS_HASH ELSE written[n - 1].hash)
  <2>1. CASE n = 0
    BY <2>1 DEF createEntry
  <2>2. CASE n # 0
    <3>1. n - 1 \in DOMAIN written
      BY <1>1, <2>2
    <3>2. written[n - 1].sequence = n - 1
      BY <1>1, <3>1 DEF Verifies, contiguous
    <3>3. written[n - 1] # NoEntry
      BY <1>1, <2>2, <3>2 DEF NoEntry
    <3> QED BY <1>1, <2>2, <3>2, <3>3 DEF createEntry
  <2> QED BY <2>1, <2>2
<1>3. /\ written' = [i \in 0 .. n |-> IF i < n THEN written[i] ELSE e]
      /\ entries' = written' /\ alterations' = 0
  BY DEF Write
<1> HIDE DEF e
<1>4. /\ AlteredEntry(e) /\ e.sequence = n /\ computeHash(e) = e.hash
      /\ e.prevHash = IF n = 0 THEN GENESIS_HASH ELSE written[n - 1].hash
  BY <1>1, <1>2 DEF AlteredEntry, sealed, computeHash
<1>5. Size(written') = n + 1
  <2>1. DOMAIN written' = 0 .. (n + 1) - 1 /\ n + 1 \in Nat
    BY <1>1, <1>3
  <2> QED BY <2>1, SizeOf
<1> HIDE DEF n
<1>6. List(written')
  BY <1>1, <1>3, <1>4, <1>5 DEF AlteredInv, List
<1>7. Verifies(written')
  <2> SUFFICES ASSUME NEW i \in 0 .. n
               PROVE  /\ contiguous(written', i) /\ linked(written', i)
                      /\ authentic(written', i)
    BY <1>3 DEF Verifies
  <2>1. CASE i = n
    BY <1>1, <1>3, <1>4, <2>1 DEF contiguous, linked, authentic
  <2>2. CASE i # n
    <3>1. i \in DOMAIN written /\ written'[i] = written[i]
      BY <1>1, <1>3, <2>2
    <3>2. i # 0 => written'[i - 1] = written[i - 1]
      BY <1>1, <1>3, <3>1
    <3> QED BY <1>1, <3>1, <3>2 DEF Verifies, contiguous, linked, authentic
  <2> QED BY <2>1, <2>2
<1> QED BY <1>3, <1>6, <1>7 DEF AlteredInv

LEMMA AlterKeeps ==
  ASSUME AlteredInv, NEW list, Alter(list), List(list)
  PROVE  AlteredInv'
<1>1. alterations' \in 0 .. MaxAlterations /\ alterations' # 0
  BY DEF AlteredInv, Alter, AlterationAssumption
<1> QED BY <1>1 DEF AlteredInv, Alter

\* A list of the same length, of entries.
LEMMA SameLength ==
  ASSUME NEW list, NEW other, List(list), DOMAIN other = DOMAIN list,
         \A i \in DOMAIN list : AlteredEntry(other[i])
  PROVE  List(other)
BY DEF List, Size

LEMMA AlteredStep == AlteredInv /\ [AlterationNext]_(alterationVars) => AlteredInv'
<1> SUFFICES ASSUME AlteredInv, [AlterationNext]_(alterationVars) PROVE AlteredInv'
  OBVIOUS
<1> DEFINE n == Size(entries)
<1>1. /\ List(entries) /\ n \in Nat /\ DOMAIN entries = 0 .. n - 1
      /\ \A i \in DOMAIN entries : AlteredEntry(entries[i])
  BY DEF AlteredInv, List
<1> HIDE DEF n
<1>2. ASSUME NEW i \in DOMAIN entries, NEW e, AlteredEntry(e),
             Alter([entries EXCEPT ![i] = e])
      PROVE  AlteredInv'
  <2>1. List([entries EXCEPT ![i] = e])
    BY <1>1, <1>2, SameLength
  <2> QED BY <1>2, <2>1, AlterKeeps
<1>3. ASSUME NEW event \in Events, Write(event) PROVE AlteredInv'
  BY <1>3, WriteKeeps
<1>4. ASSUME NEW i \in DOMAIN entries, NEW event \in Events, Edit(i, event)
      PROVE  AlteredInv'
  <2>1. Alter([entries EXCEPT ![i] = [entries[i] EXCEPT !.event = event]])
    BY <1>4 DEF Edit
  <2>2. AlteredEntry([entries[i] EXCEPT !.event = event])
    BY <1>1 DEF AlteredEntry
  <2> QED BY <1>2, <2>1, <2>2
<1>5. ASSUME NEW i \in DOMAIN entries, Rehash(i) PROVE AlteredInv'
  <2>1. Alter([entries EXCEPT ![i] =
                         [entries[i] EXCEPT !.hash = computeHash(entries[i])]])
    BY <1>5 DEF Rehash
  <2>2. AlteredEntry([entries[i] EXCEPT !.hash = computeHash(entries[i])])
    BY <1>1 DEF AlteredEntry
  <2> QED BY <1>2, <2>1, <2>2
<1>6. ASSUME NEW i \in DOMAIN entries, Relink(i) PROVE AlteredInv'
  <2>1. Alter([entries EXCEPT ![i] = [entries[i] EXCEPT !.prevHash = entries[i - 1].hash]])
    BY <1>6 DEF Relink
  <2>2. AlteredEntry([entries[i] EXCEPT !.prevHash = entries[i - 1].hash])
    BY <1>1 DEF AlteredEntry
  <2> QED BY <1>2, <2>1, <2>2
<1>7. ASSUME NEW i \in DOMAIN entries, Renumber(i) PROVE AlteredInv'
  <2>1. Alter([entries EXCEPT ![i] = [entries[i] EXCEPT !.sequence = i]])
    BY <1>7 DEF Renumber
  <2>2. AlteredEntry([entries[i] EXCEPT !.sequence = i])
    BY <1>1 DEF AlteredEntry
  <2> QED BY <1>2, <2>1, <2>2
<1>8. ASSUME NEW i \in DOMAIN entries, Delete(i) PROVE AlteredInv'
  <2> DEFINE list == [k \in 0 .. n - 2 |-> entries[IF k < i THEN k ELSE k + 1]]
  <2>1. \A k \in 0 .. n - 2 : k \in DOMAIN entries /\ k + 1 \in DOMAIN entries
    BY <1>1
  <2>2. \A k \in DOMAIN list : AlteredEntry(list[k])
    BY <1>1, <2>1
  <2>3. n - 1 \in Nat /\ DOMAIN list = 0 .. (n - 1) - 1
    BY <1>1
  <2>4. Alter(list)
    BY <1>8 DEF Delete, n
  <2> HIDE DEF list
  <2>5. List(list)
    BY <2>2, <2>3, SizeOf DEF List
  <2> QED BY <2>4, <2>5, AlterKeeps
<1>9. ASSUME NEW i \in DOMAIN entries, Duplicate(i) PROVE AlteredInv'
  <2> DEFINE list == [k \in 0 .. n |-> entries[IF k <= i THEN k ELSE k - 1]]
  <2>1. \A k \in 0 .. n : (IF k <= i THEN k ELSE k - 1) \in DOMAIN entries
    BY <1>1
  <2>2. \A k \in DOMAIN list : AlteredEntry(list[k])
    BY <1>1, <2>1
  <2>3. n + 1 \in Nat /\ DOMAIN list = 0 .. (n + 1) - 1
    BY <1>1
  <2>4. Alter(list)
    BY <1>9 DEF Duplicate, n
  <2> HIDE DEF list
  <2>5. List(list)
    BY <2>2, <2>3, SizeOf DEF List
  <2> QED BY <2>4, <2>5, AlterKeeps
<1>10. ASSUME NEW i \in DOMAIN entries, NEW j \in DOMAIN entries, Swap(i, j)
       PROVE  AlteredInv'
  <2>1. List([entries EXCEPT ![i] = entries[j], ![j] = entries[i]])
    BY <1>1, SameLength
  <2> QED BY <1>10, <2>1, AlterKeeps DEF Swap
<1>11. CASE UNCHANGED alterationVars
  BY <1>11 DEF AlteredInv, alterationVars
<1> QED BY <1>3, <1>4, <1>5, <1>6, <1>7, <1>8, <1>9, <1>10, <1>11 DEF AlterationNext

\* Type correctness of the two chains.
THEOREM AlteredTypeCorrect == AlterationSpec => []AlterationTypeOK
<1>1. AlteredInv => AlterationTypeOK
  BY DEF AlteredInv, List, AlteredEntry, AlterationTypeOK
<1> QED BY <1>1, AlteredInit, AlteredStep, PTL DEF AlterationSpec

-----------------------------------------------------------------------------
(* What verifying finds                                                    *)

LEMMA ValidVerifies ==
  ASSUME NEW list
  PROVE  valid(list) <=> Verifies(list)
<1>1. valid(list) <=> Broken(list) = {}
  BY DEF valid, verifyChain
<1>2. Broken(list) = {} <=> Verifies(list)
  BY DEF Broken, Verifies
<1> QED BY <1>1, <1>2

\* Equal hashes of two authentic entries: equal content.
LEMMA HashDecides ==
  ASSUME NEW x, NEW y, AlteredEntry(x), AlteredEntry(y),
         computeHash(x) = x.hash, computeHash(y) = y.hash,
         x.hash = y.hash
  PROVE  x = y
<1>1. x.prevHash = y.prevHash /\ x.sequence = y.sequence /\ x.event = y.event
  BY DEF computeHash
<1> QED BY <1>1 DEF AlteredEntry

\* From one entry back to the one before it, and so on: the least distance at which the
\* lists differ cannot be.
LEMMA HashCommits ==
  ASSUME AlteredInv, Verifies(entries), NEW k \in DOMAIN entries \cap DOMAIN written,
         entries[k].hash = written[k].hash, NEW j \in 0 .. k
  PROVE  entries[j] = written[j]
<1> DEFINE T == {d \in 0 .. k : entries[k - d].hash # written[k - d].hash}
<1>1. /\ k \in Nat /\ \A i \in 0 .. k : i \in DOMAIN entries /\ i \in DOMAIN written
      /\ Verifies(written)
  BY DEF AlteredInv, List
<1>2. \A i \in 0 .. k : /\ AlteredEntry(entries[i]) /\ AlteredEntry(written[i])
                       /\ authentic(entries, i) /\ authentic(written, i)
                       /\ linked(entries, i) /\ linked(written, i)
  BY <1>1 DEF AlteredInv, List, Verifies
<1>3. \A i \in 0 .. k : entries[i].hash = written[i].hash => entries[i] = written[i]
  BY <1>2, HashDecides DEF authentic
<1>4. T = {}
  <2> SUFFICES ASSUME T # {} PROVE FALSE
    OBVIOUS
  <2>1. T \in SUBSET Nat
    BY <1>1
  <2>2. PICK d \in T : \A y \in T : d <= y
    <3> HIDE DEF T
    <3> QED BY <2>1, SmallestOf
  <2>3. d \in 0 .. k /\ d # 0 /\ entries[k - d].hash # written[k - d].hash
    BY <1>1, <2>2
  <2>4. d - 1 \in 0 .. k /\ d - 1 \notin T
    BY <1>1, <2>2, <2>3
  <2>5. k - (d - 1) \in 0 .. k /\ entries[k - (d - 1)].hash = written[k - (d - 1)].hash
    BY <1>1, <2>3, <2>4
  <2>6. entries[k - (d - 1)].prevHash = written[k - (d - 1)].prevHash
    BY <1>3, <2>5
  <2>7. k - (d - 1) # 0 /\ (k - (d - 1)) - 1 = k - d
    BY <1>1, <2>3
  <2>8. /\ entries[k - (d - 1)].prevHash = entries[k - d].hash
        /\ written[k - (d - 1)].prevHash = written[k - d].hash
    BY <1>2, <2>5, <2>7 DEF linked
  <2> QED BY <2>3, <2>6, <2>8
<1>5. k - j \in 0 .. k /\ k - (k - j) = j
  BY <1>1
<1>6. entries[j].hash = written[j].hash
  BY <1>4, <1>5
<1> QED BY <1>3, <1>6

\* A stored chain that verifies and still has the written hash at one entry is the
\* written chain up to there, whatever was edited, re-hashed, re-linked, renumbered,
\* deleted, duplicated or swapped, and however often.
THEOREM HashCommitsToHistoryHolds == AlterationSpec => []HashCommitsToHistory
<1>1. AlteredInv => HashCommitsToHistory
  BY HashCommits, ValidVerifies DEF HashCommitsToHistory
<1> QED BY <1>1, AlteredInit, AlteredStep, PTL DEF AlterationSpec

LEMMA BreakLocated ==
  ASSUME AlteredInv, ~Verifies(entries)
  PROVE  BreakIsLocated
<1>1. /\ DOMAIN entries \subseteq Nat /\ List(entries) /\ List(written) /\ Verifies(written)
  BY DEF AlteredInv, List
<1>2. Broken(entries) # {} /\ Broken(entries) \in SUBSET Nat
  BY <1>1 DEF Verifies, Broken
<1> DEFINE broken == CHOOSE i \in Broken(entries) :
                       \A j \in Broken(entries) : i <= j
<1>3. broken \in Broken(entries) /\ \A j \in Broken(entries) : broken <= j
  BY <1>2, SmallestOf
<1>r. /\ verifyChain(entries).brokenAtSequence = entries[broken].sequence
      /\ broken \in DOMAIN entries
  BY <1>2, <1>3 DEF verifyChain, Broken
<1> HIDE DEF broken
\* An entry before every difference passes the checks.
<1>4. ASSUME NEW i \in DOMAIN entries, \A j \in 0 .. i : j \notin differing
      PROVE  i \notin Broken(entries)
  <2>1. \A j \in 0 .. i : /\ j \in DOMAIN entries /\ j \in DOMAIN written
                         /\ entries[j] = written[j]
    BY <1>1, <1>4 DEF differing, List
  <2>2. i \in 0 .. i /\ (i # 0 => i - 1 \in 0 .. i)
    BY <1>1
  <2>3. /\ contiguous(written, i) /\ linked(written, i)
        /\ authentic(written, i)
    BY <1>1, <2>1, <2>2 DEF Verifies
  <2> QED BY <2>1, <2>2, <2>3
          DEF Broken, contiguous, linked, authentic
<1>5. differing # {} /\ differing \in SUBSET Nat
  BY <1>1, <1>3, <1>4 DEF differing, Broken
<1>6. PICK i \in differing : \A j \in differing : i <= j
  BY <1>5, SmallestOf
<1>7. i <= broken
  <2> SUFFICES ASSUME broken < i PROVE FALSE
    BY <1>2, <1>3, <1>5, <1>6
  <2>1. broken \in DOMAIN entries /\ broken \in Nat
    BY <1>2, <1>3 DEF Broken
  <2>2. \A j \in 0 .. broken : j \notin differing
    BY <1>5, <1>6, <2>1
  <2> QED BY <1>3, <1>4, <2>1, <2>2
<1>8. ~(contiguous(entries, i) /\ authentic(entries, i)) => broken = i
  <2> SUFFICES ASSUME ~(contiguous(entries, i) /\ authentic(entries, i)) PROVE broken = i
    OBVIOUS
  <2>1. i \in Broken(entries)
    BY <1>6 DEF Broken, differing
  <2>2. broken <= i /\ broken \in Nat /\ i \in Nat
    BY <1>2, <1>3, <1>5, <1>6, <2>1
  <2> QED BY <1>7, <2>2
<1> QED BY <1>r, <1>6, <1>7, <1>8 DEF BreakIsLocated

\* The brokenAtSequence that verifyChain reports is the sequence of an entry that is not
\* before the first one that differs from what was written, and that is the first one when
\* its number is not its place or its hash does not match its content.
THEOREM BreakIsLocatedHolds == AlterationSpec => []BreakIsLocated
<1>1. AlteredInv => BreakIsLocated
  BY BreakLocated, ValidVerifies DEF BreakIsLocated
<1> QED BY <1>1, AlteredInit, AlteredStep, PTL DEF AlterationSpec
=============================================================================
