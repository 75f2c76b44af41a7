----------------------------- MODULE Attestation -----------------------------
(***************************************************************************)
(* The life of a decision's signature: the key file of                     *)
(* packages/server/src/attestation.ts, the attestations it signs, and the  *)
(* two ways of the dashboard to verify one (lib/verify-signature.ts and    *)
(* components/audit/attestation-badge.tsx): in the browser with the key it *)
(* caches, or by asking the server.                                        *)
(*                                                                         *)
(* Ed25519 is taken as ideal: a signature is the key that made it and what *)
(* it was made of, and no other signature verifies.  What is signed is one *)
(* of Contents.  A badge checks the copy its page was loaded with.         *)
(***************************************************************************)
EXTENDS Integers, FiniteSets

CONSTANTS
  Badges,          \* the badges of the page, each with its attestation
  Contents,        \* what a decision may say
  Null, Undefined,
  Torn,            \* what a crash leaves of a file that was being written
  MaxKeys,         \* bound: key pairs generated
  MaxAlterations   \* bound: alterations of stored attestations

ASSUME AttestationAssumption ==
  MaxKeys \in Nat /\ MaxAlterations \in Nat /\ Null \notin {Torn, "valid", "invalid"} \cup Nat \cup Contents

VARIABLES
  file,        \* policy-key.json: Null, Torn, or the key pair it holds
  keys,        \* the number of key pairs generated; a pair is its number
  server,      \* the key pair of the running server, Null when there is none
  stored,      \* stored[a]: the attestation of badge a in the audit log, Null before
  cachedKey,   \* the variable of the page: Undefined, Null or a key
  badge,       \* badge[a]: the attestation it got, its state, the answer on its way
  alterations, \* history: alterations so far
  served,      \* history: the key pairs the server had since the page was loaded
  removed      \* history: somebody removed the key file

vars == <<file, keys, server, stored, cachedKey, badge, alterations, served, removed>>

Keys == 1 .. keys

Init ==
  /\ file = Null
  /\ keys = 0
  /\ server = Null
  /\ stored = [a \in Badges |-> Null]
  /\ cachedKey = Undefined
  /\ badge = [a \in Badges |-> [att |-> Null, state |-> "idle", answer |-> Null, lost |-> FALSE]]
  /\ alterations = 0
  /\ served = {}
  /\ removed = FALSE

-----------------------------------------------------------------------------
(* loadOrCreateKeys, when the module is loaded                             *)

Up(k) == server' = k /\ served' = served \cup {k}

LoadKeys ==
  /\ server = Null /\ file \in Keys
  /\ Up(file)
  /\ UNCHANGED <<file, keys, stored, cachedKey, badge, alterations, removed>>

\* Mutation of CreateKeys: the server runs before the file is written.
CreateKeysUnsaved ==
  /\ server = Null /\ file = Null /\ keys < MaxKeys
  /\ keys' = keys + 1
  /\ Up(keys')
  /\ UNCHANGED <<file, stored, cachedKey, badge, alterations, removed>>

\* The process may die while it writes.  What it leaves then no later boot can parse:
\* loadOrCreateKeys throws until somebody removes the file.
CreateKeys ==
  /\ server = Null /\ file = Null /\ keys < MaxKeys
  /\ keys' = keys + 1
  /\ \/ file' = keys' /\ Up(keys')
     \/ file' = Torn /\ UNCHANGED <<server, served>>
  /\ UNCHANGED <<stored, cachedKey, badge, alterations, removed>>

Crash ==
  /\ server # Null
  /\ server' = Null
  /\ UNCHANGED <<file, keys, stored, cachedKey, badge, alterations, served, removed>>

\* The file is not under version control: a new checkout or container starts without.
LoseFile ==
  /\ server = Null /\ file # Null
  /\ file' = Null
  /\ removed' = TRUE
  /\ UNCHANGED <<keys, server, stored, cachedKey, badge, alterations, served>>

-----------------------------------------------------------------------------
(* Attestations                                                            *)

signature(key, content) == [by |-> key, of |-> content]

attestDecision(a, content) ==
  /\ server # Null /\ stored[a] = Null
  /\ stored' = [stored EXCEPT ![a] = [keyId |-> server, signed |-> content,
                                      signature |-> signature(server, content)]]
  /\ UNCHANGED <<file, keys, server, cachedKey, badge, alterations, served, removed>>

\* Somebody changes the row of the audit log.
Alter(a) ==
  /\ stored[a] # Null /\ alterations < MaxAlterations
  /\ alterations' = alterations + 1
  /\ \/ \E content \in Contents : stored' = [stored EXCEPT ![a].signed = content]
     \/ \E k \in Keys : stored' = [stored EXCEPT ![a].keyId = k]
     \/ stored' = [stored EXCEPT ![a].signature = Null]
  /\ UNCHANGED <<file, keys, server, cachedKey, badge, served, removed>>

\* The signature is the key's signature of what is signed.
signedWith(att, key) == att.signature = signature(key, att.signed)

\* verifyAttestation of the server, which also wants its own keyId.
accepts(att) == att.keyId = server /\ signedWith(att, server)

-----------------------------------------------------------------------------
(* The page                                                                *)

Load ==
  /\ server # Null
  /\ cachedKey' = Undefined
  /\ badge' = [a \in Badges |-> [att |-> stored[a], state |-> "idle", answer |-> Null,
                                 lost |-> FALSE]]
  /\ served' = {server}
  /\ UNCHANGED <<file, keys, server, stored, alterations, removed>>

become(a, state) ==
  badge' = [badge EXCEPT ![a].state = state, ![a].answer = Null, ![a].lost = FALSE]
shows(valid) == IF valid THEN "valid" ELSE "invalid"

\* With a key the browser decides, whatever the keyId says; without one, or when the
\* signature is no base64, the server is asked.
check(a, key) ==
  IF key # Null /\ badge[a].att.signature # Null
  THEN become(a, shows(signedWith(badge[a].att, key))) ELSE become(a, "asking")

Verify(a) ==
  /\ badge[a].att # Null /\ badge[a].state \in {"idle", "valid", "invalid"}
  /\ IF cachedKey = Undefined THEN become(a, "fetching") ELSE check(a, cachedKey)
  /\ UNCHANGED <<file, keys, server, stored, cachedKey, alterations, served, removed>>

\* The server answers GET /policy/pubkey or POST /policy/verify; the answer is on its way.
Answer(a) ==
  /\ server # Null /\ badge[a].answer = Null
  /\ \/ badge[a].state = "fetching" /\ badge' = [badge EXCEPT ![a].answer = server]
     \/ /\ badge[a].state = "asking"
        /\ badge' = [badge EXCEPT ![a].answer = shows(accepts(badge[a].att))]
  /\ UNCHANGED <<file, keys, server, stored, cachedKey, alterations, served, removed>>

\* importPublicKey: a key, or Null when the fetch fails or the browser has no Ed25519.
\* Of two badges that fetch at a time the later one has the last word.
KeyArrives(a) ==
  /\ badge[a].state = "fetching"
  /\ \E key \in {badge[a].answer, Null} : cachedKey' = key /\ check(a, key)
  /\ UNCHANGED <<file, keys, server, stored, alterations, served, removed>>

\* Mutation of AnswerArrives: a request that fails counts as a confirmation.
AnswerArrivesOpen(a) ==
  /\ badge[a].state = "asking"
  /\ \/ badge[a].answer # Null /\ become(a, badge[a].answer)
     \/ become(a, "valid")
  /\ UNCHANGED <<file, keys, server, stored, cachedKey, alterations, served, removed>>

\* The server's verdict, or, when the request fails, false.
AnswerArrives(a) ==
  /\ badge[a].state = "asking"
  /\ \/ badge[a].answer # Null /\ become(a, badge[a].answer)
     \/ badge' = [badge EXCEPT ![a].state = "invalid", ![a].answer = Null, ![a].lost = TRUE]
  /\ UNCHANGED <<file, keys, server, stored, cachedKey, alterations, served, removed>>

-----------------------------------------------------------------------------

Next ==
  \/ LoadKeys \/ CreateKeys \/ Crash \/ LoseFile \/ Load
  \/ \E a \in Badges :
       \/ \E content \in Contents : attestDecision(a, content)
       \/ Alter(a) \/ Verify(a) \/ Answer(a) \/ KeyArrives(a) \/ AnswerArrives(a)

Spec == Init /\ [][Next]_vars

-----------------------------------------------------------------------------
(* Properties                                                              *)

\* "signature valid" is shown only of what the policy engine signed: no alteration of the
\* content or the signature, no lost request and no mix of keys can make it so.
ValidMeansSigned ==
  \A a \in Badges : badge[a].state = "valid" =>
    \E k \in Keys : badge[a].att.signature = signature(k, badge[a].att.signed)

\* "signature invalid" is shown of a genuine attestation only when a request of this
\* badge failed, or the server has had another key since the page was loaded than the one
\* that signed it, and then only because somebody removed the key file: no crash and no
\* restart by itself invalidates the log.
Genuine(att) == att.keyId \in Keys /\ signedWith(att, att.keyId)
InvalidIsExplained ==
  \A a \in Badges : badge[a].state = "invalid" /\ Genuine(badge[a].att) =>
    badge[a].lost \/ (removed /\ served # {badge[a].att.keyId})
=============================================================================
