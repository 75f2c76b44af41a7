------------------------------ MODULE RuleTable ------------------------------
(***************************************************************************)
(* The Rule table as a set of rows, and what the handlers of POST, PATCH   *)
(* and DELETE /rules (packages/server/src/app.ts) make of it: the rows     *)
(* after the request, and whether it is answered with success.  The id is  *)
(* the primary key; a request that breaks the key or names no row changes  *)
(* nothing.                                                                *)
(***************************************************************************)
EXTENDS PolicyEngine

CONSTANTS
  Proposals,   \* the tool calls the rules are asked about
  Usages       \* the usage snapshots they are asked about with

VARIABLE table \* the rows of the Rule table, a set

ASSUME ProposalsAssumption == \A p \in Proposals : p.suspicious \in BOOLEAN

\* What the handlers let into the table.
IsRule(r) == /\ {"id", "enabled"} \subseteq DOMAIN r
             /\ r.id \in RuleIds /\ r.enabled \in BOOLEAN

ids(rows) == {r.id : r \in rows}

post(rows, rule) ==
  [rows |-> IF rule.id \in ids(rows) THEN rows ELSE rows \cup {rule},
   ok |-> rule.id \notin ids(rows)]

patch(rows, id, enabled) ==
  [rows |-> {IF r.id = id THEN [r EXCEPT !.enabled = enabled] ELSE r : r \in rows},
   ok |-> id \in ids(rows)]

delete(rows, id) == [rows |-> {r \in rows : r.id # id}, ok |-> id \in ids(rows)]

stored(rows, id) == \E r \in rows : r.id = id /\ r.enabled
=============================================================================
