-------------------------- MODULE ChainAlterations --------------------------
(***************************************************************************)
(* What verifyChain (packages/audit/src/hashChain.ts:63-101) finds out     *)
(* about a chain whose stored entries changed after they were written: the *)
(* detection its comment and its tests describe.  A chain is written with  *)
(* createEntry; then entries are edited, re-hashed, re-linked, deleted,    *)
(* duplicated or swapped, one at a time.  GET /audit/verify gives          *)
(* verifyChain the list as it then is.                                     *)
(***************************************************************************)
EXTENDS HashChain

CONSTANTS
  MaxLength,       \* bound: entries written
  MaxAlterations   \* bound: alterations

ASSUME AlterationAssumption == MaxLength \in Nat /\ MaxAlterations \in Nat

VARIABLES
  written,      \* the chain as it was written
  entries,      \* the chain as it is stored now
  alterations   \* history: number of alterations

alterationVars == <<written, entries, alterations>>

Size(list) == Cardinality(DOMAIN list)

AlterationTypeOK ==
  /\ \A list \in {written, entries} :
       /\ DOMAIN list = 0 .. Size(list) - 1
       /\ \A i \in DOMAIN list : list[i].event \in Events /\ list[i].sequence \in Nat
  /\ alterations \in 0 .. MaxAlterations

AlterationInit == /\ written = [i \in {} |-> NoEntry]
        /\ entries = written
        /\ alterations = 0

Write(event) ==
  LET n == Size(written)
  IN  /\ alterations = 0 /\ n < MaxLength
      /\ written' = [i \in 0 .. n |->
                       IF i < n THEN written[i]
                       ELSE createEntry(IF n = 0 THEN NoEntry ELSE written[n - 1], event)]
      /\ entries' = written'
      /\ UNCHANGED alterations

Alter(list) ==
  /\ alterations < MaxAlterations
  /\ alterations' = alterations + 1
  /\ entries' = list
  /\ UNCHANGED written

Edit(i, event) == Alter([entries EXCEPT ![i].event = event])
Rehash(i)      == Alter([entries EXCEPT ![i].hash = computeHash(entries[i])])
Relink(i)      == i > 0 /\ Alter([entries EXCEPT ![i].prevHash = entries[i - 1].hash])
Renumber(i)    == Alter([entries EXCEPT ![i].sequence = i])
Delete(i)      == Alter([k \in 0 .. Size(entries) - 2 |-> entries[IF k < i THEN k ELSE k + 1]])
Duplicate(i)   == Alter([k \in 0 .. Size(entries) |-> entries[IF k <= i THEN k ELSE k - 1]])
Swap(i, j)     == Alter([entries EXCEPT ![i] = entries[j], ![j] = entries[i]])

AlterationNext ==
  \/ \E event \in Events : Write(event)
  \/ \E i \in DOMAIN entries :
       \/ \E event \in Events : Edit(i, event)
       \/ Rehash(i) \/ Relink(i) \/ Renumber(i) \/ Delete(i) \/ Duplicate(i)
       \/ \E j \in DOMAIN entries : Swap(i, j)

AlterationSpec == AlterationInit /\ [][AlterationNext]_alterationVars

-----------------------------------------------------------------------------
(* Properties                                                              *)

valid(list) == verifyChain(list).valid

\* "Every hash transitively commits to the entire history before it": a stored chain
\* that verifies and still has the written hash at k is the written chain up to k.
HashCommitsToHistory ==
  valid(entries) =>
    \A k \in DOMAIN entries \cap DOMAIN written :
      entries[k].hash = written[k].hash => \A j \in 0 .. k : entries[j] = written[j]

\* The number that verifyChain reports is the sequence of a stored entry that is not before
\* the first one that differs from what was written, and that is the first one itself when
\* its number is not its place or its hash does not match its content.  (The number alone
\* is that place only while the numbers still run 0, 1, 2, ...: entry 0 stored twice is
\* reported as 0, and the first entry that differs is the second.)
differing == {i \in DOMAIN entries : i \notin DOMAIN written \/ entries[i] # written[i]}
BreakIsLocated ==
  ~valid(entries) =>
    \E first \in differing, broken \in DOMAIN entries :
      /\ \A i \in differing : first <= i
      /\ verifyChain(entries).brokenAtSequence = entries[broken].sequence
      /\ first <= broken
      /\ ~(contiguous(entries, first) /\ authentic(entries, first)) => broken = first
=============================================================================
