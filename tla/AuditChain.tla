----------------------------- MODULE AuditChain -----------------------------
(***************************************************************************)
(* The audit service: recordAudit of packages/server/src/auditService.ts   *)
(* over the AuditEntry table (audit/src/repository.ts,                     *)
(* server/src/prismaAuditStore.ts, server/prisma/schema.prisma).           *)
(*                                                                         *)
(* Each record() waits for the one before it (the promise lock), reads the *)
(* latest row, builds the next entry and inserts it.  The insert travels:  *)
(* the database may run it after the process that sent it has given up on  *)
(* it (a lost connection) or has died.  The unique index on sequence is    *)
(* all that protects the chain then.                                       *)
(***************************************************************************)
EXTENDS HashChain, Sequences

CONSTANT
  MaxFaults    \* bound: database failures and restarts in a behaviour

ASSUME AuditChainAssumption == MaxFaults \in Nat /\ IsFiniteSet(Events)

VARIABLES
  rows,     \* the table: sequence |-> entry (sequence is unique)
  pc,       \* pc[e]: where the record() call of event e is
  chain,    \* the promise lock: the unsettled calls of this process, in call order
  sent,     \* inserts on their way to the database
  reply,    \* reply[e]: what the database answered to e's insert
  faults    \* history: number of failures and restarts

vars == <<rows, pc, chain, sent, reply, faults>>

Pcs == {"new", "waiting", "inserting", "ok", "failed"}

TypeOK ==
  /\ \A s \in DOMAIN rows : s \in Nat /\ rows[s].sequence = s /\ rows[s].event \in Events
  /\ pc \in [Events -> Pcs]
  /\ chain \in Seq(Events)
  /\ \A entry \in sent : entry.sequence \in Nat /\ entry.event \in Events
  /\ reply \in [Events -> {"none", "done", "duplicate"}]
  /\ faults \in 0 .. MaxFaults

Init ==
  /\ rows = [s \in {} |-> NoEntry]
  /\ pc = [e \in Events |-> "new"]
  /\ chain = <<>>
  /\ sent = {}
  /\ reply = [e \in Events |-> "none"]
  /\ faults = 0

-----------------------------------------------------------------------------
(* The repository                                                          *)

\* getLatest: the row with the greatest sequence.
Latest ==
  IF DOMAIN rows = {} THEN NoEntry
  ELSE rows[CHOOSE s \in DOMAIN rows : \A t \in DOMAIN rows : t <= s]

\* getAll: every row, ascending by sequence.
getAll ==
  [i \in 0 .. Cardinality(DOMAIN rows) - 1 |->
     rows[CHOOSE s \in DOMAIN rows : Cardinality({t \in DOMAIN rows : t < s}) = i]]

verifyAudit == verifyChain(getAll)

-----------------------------------------------------------------------------
(* recordAudit                                                             *)

record(e) ==
  /\ pc[e] = "new"
  /\ pc' = [pc EXCEPT ![e] = "waiting"]
  /\ chain' = Append(chain, e)
  /\ UNCHANGED <<rows, sent, reply, faults>>

\* Mutation of HasLock: no record() waits for another.
NoLock(e) == chain # <<>>

\* The promise e awaits is settled: every call before it is.
HasLock(e) == chain # <<>> /\ Head(chain) = e

\* Mutation of Settle: a failed append keeps the lock (chain = next).
SettleKeepsLock(e, outcome) ==
  /\ pc' = [pc EXCEPT ![e] = outcome]
  /\ chain' = IF outcome = "ok" THEN Tail(chain) ELSE chain

\* A call settles, which only the first of the chain can: the lock passes to the next
\* call, also after a failure (chain = next.catch(...)).
Settle(e, outcome) ==
  /\ pc' = [pc EXCEPT ![e] = outcome]
  /\ chain' = Tail(chain)

\* getLatest, createEntry, and the insert goes out.
Insert(e) ==
  /\ pc[e] = "waiting"
  /\ HasLock(e)
  /\ pc' = [pc EXCEPT ![e] = "inserting"]
  /\ sent' = sent \cup {createEntry(Latest, e)}
  /\ UNCHANGED <<rows, chain, reply, faults>>

\* Mutation of Execute: an upsert, a row with that sequence is overwritten.
ExecuteUpsert(entry) ==
  /\ entry \in sent
  /\ sent' = sent \ {entry}
  /\ rows' = [s \in DOMAIN rows \cup {entry.sequence} |->
                IF s = entry.sequence THEN entry ELSE rows[s]]
  /\ reply' = [reply EXCEPT ![entry.event] = "done"]
  /\ UNCHANGED <<pc, chain, faults>>

\* The database runs an insert: a sequence that exists is refused.
Execute(entry) ==
  /\ entry \in sent
  /\ sent' = sent \ {entry}
  /\ IF entry.sequence \in DOMAIN rows
     THEN /\ reply' = [reply EXCEPT ![entry.event] = "duplicate"]
          /\ UNCHANGED rows
     ELSE /\ rows' = [s \in DOMAIN rows \cup {entry.sequence} |->
                        IF s = entry.sequence THEN entry ELSE rows[s]]
          /\ reply' = [reply EXCEPT ![entry.event] = "done"]
  /\ UNCHANGED <<pc, chain, faults>>

\* The insert's answer reaches the process.
Return(e) ==
  /\ pc[e] = "inserting"
  /\ reply[e] # "none"
  /\ Settle(e, IF reply[e] = "done" THEN "ok" ELSE "failed")
  /\ UNCHANGED <<rows, sent, reply, faults>>

-----------------------------------------------------------------------------
(* Failures                                                                *)

\* A database call fails on the process's side: the read, or the insert, which the
\* database may or may not have run or may run later.
Fail(e) ==
  /\ faults < MaxFaults
  /\ \/ pc[e] = "waiting" /\ HasLock(e)
     \/ pc[e] = "inserting"
  /\ Settle(e, "failed")
  /\ faults' = faults + 1
  /\ UNCHANGED <<rows, sent, reply>>

\* An insert the process has given up on never reaches the database.
Vanish(entry) ==
  /\ entry \in sent
  /\ pc[entry.event] = "failed"
  /\ sent' = sent \ {entry}
  /\ UNCHANGED <<rows, pc, chain, reply, faults>>

\* The process dies with its lock and its calls; rows and travelling inserts stay.
Restart ==
  /\ faults < MaxFaults
  /\ faults' = faults + 1
  /\ pc' = [e \in Events |-> IF pc[e] \in {"waiting", "inserting"} THEN "failed" ELSE pc[e]]
  /\ chain' = <<>>
  /\ UNCHANGED <<rows, sent, reply>>

Next ==
  \/ \E e \in Events : record(e) \/ Insert(e) \/ Return(e) \/ Fail(e)
  \/ \E entry \in sent : Execute(entry) \/ Vanish(entry)
  \/ Restart

Spec == Init /\ [][Next]_vars

\* The event loop runs settled promises and the database answers.
FairSpec ==
  /\ Spec
  /\ \A e \in Events : WF_vars(Insert(e)) /\ WF_vars(Return(e))
  /\ WF_vars(\E entry \in sent : Execute(entry))

-----------------------------------------------------------------------------
(* Properties                                                              *)

\* Whatever fails, and whichever late insert the database still runs, the stored
\* chain verifies: no fork, no gap, no broken link.
ChainVerifies == verifyAudit.valid

\* The lock: without a database failure or a restart no record() fails, however many
\* turns record at once; in particular no two of them read the same tip.
FailsOnlyOnFault == (\E e \in Events : pc[e] = "failed") => faults > 0

\* The service implements the abstract log.
Recorded == [i \in 1 .. Cardinality(DOMAIN rows) |-> getAll[i - 1].event]
Log == INSTANCE AppendOnlyLog WITH log <- Recorded
ImplementsLog == Log!Spec

\* The lock is never stuck: every call settles, also after one before it failed.
EveryRecordSettles == \A e \in Events : pc[e] = "waiting" ~> pc[e] \in {"ok", "failed"}
=============================================================================
