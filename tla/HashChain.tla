------------------------------ MODULE HashChain ------------------------------
(***************************************************************************)
(* packages/audit/src/hashChain.ts: building and verifying a chain.        *)
(*                                                                         *)
(* A list of entries is a function with domain 0 .. n-1, indexed like the  *)
(* array.  `event' stands for everything an entry is about (timestamp,     *)
(* eventType, payload; its random id is no integrity material).  SHA-256   *)
(* over the canonical JSON is taken as ideal: the hash IS the hashed       *)
(* material, so equal hashes mean equal material.                          *)
(***************************************************************************)
EXTENDS Integers, FiniteSets

CONSTANTS
  Events,         \* what entries can be about
  GENESIS_HASH,   \* prevHash of the first entry
  Null            \* no broken sequence

\* createEntry's prevEntry when there is none: equal to no entry.
NoEntry == [sequence |-> -1]

computeHash(entry) == <<entry.prevHash, entry.sequence, entry.event>>

sealed(sequence, event, prevHash) ==
  [sequence |-> sequence, event |-> event, prevHash |-> prevHash,
   hash |-> <<prevHash, sequence, event>>]

\* Mutation of createEntry: linked to the entry before the last.
createEntryStale(prev, event) ==
  IF prev = NoEntry THEN sealed(0, event, GENESIS_HASH)
  ELSE sealed(prev.sequence + 1, event, prev.prevHash)

createEntry(prev, event) ==
  IF prev = NoEntry THEN sealed(0, event, GENESIS_HASH)
  ELSE sealed(prev.sequence + 1, event, prev.hash)

-----------------------------------------------------------------------------
(* verifyChain                                                             *)

contiguous(entries, i) == entries[i].sequence = i
\* Mutation of linked: only the first entry's link is checked.
linkedFirstOnly(entries, i) == i = 0 => entries[i].prevHash = GENESIS_HASH

linked(entries, i) ==
  entries[i].prevHash = IF i = 0 THEN GENESIS_HASH ELSE entries[i - 1].hash
authentic(entries, i) == computeHash(entries[i]) = entries[i].hash

Broken(entries) ==
  {i \in DOMAIN entries :
     ~(contiguous(entries, i) /\ linked(entries, i) /\ authentic(entries, i))}

\* Mutation of verifyChain: it reports the place of that entry in the list.
verifyChainPlace(entries) ==
  IF Broken(entries) = {} THEN [valid |-> TRUE, brokenAtSequence |-> Null]
  ELSE LET first == CHOOSE i \in Broken(entries) : \A j \in Broken(entries) : i <= j
       IN  [valid |-> FALSE, brokenAtSequence |-> first]

\* It reports the sequence field of the first entry that fails a check.
verifyChain(entries) ==
  IF Broken(entries) = {} THEN [valid |-> TRUE, brokenAtSequence |-> Null]
  ELSE LET first == CHOOSE i \in Broken(entries) : \A j \in Broken(entries) : i <= j
       IN  [valid |-> FALSE, brokenAtSequence |-> entries[first].sequence]
=============================================================================
