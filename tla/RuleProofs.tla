------------------------------ MODULE RuleProofs ------------------------------
(***************************************************************************)
(* Proofs about the rule table: what RuleStore makes of it and the         *)
(* verdicts its rows give, and, in the second half, the policy page over   *)
(* it (RulePages).                                                         *)
(*                                                                         *)
(* Of the store, for any number of rows, operators and boots: the table is *)
(* a finite set of rules, so that every order loadRules may return it in   *)
(* is a list StatusIsOrderFree speaks of; and, as long as no process       *)
(* crashed, at most one seeder has got past its first row.                 *)
(***************************************************************************)
EXTENDS RuleStore, RulePages, PolicyEngineProofs, FiniteSetTheorems

-----------------------------------------------------------------------------
(* The table                                                               *)

IsTable(rows) == \A r \in rows : IsRule(r)

LEMMA PatchedRule ==
  ASSUME NEW r, IsRule(r), NEW e \in BOOLEAN
  PROVE  /\ IsRule([r EXCEPT !.enabled = e]) /\ [r EXCEPT !.enabled = e].id = r.id
         /\ [r EXCEPT !.enabled = e].enabled = e
BY DEF IsRule

LEMMA PostKeeps ==
  ASSUME NEW rows, IsTable(rows), NEW rule, IsRule(rule)
  PROVE  /\ IsTable(post(rows, rule).rows)
         /\ ids(post(rows, rule).rows) = ids(rows) \cup {rule.id}
BY DEF IsTable, post, ids

LEMMA PatchKeeps ==
  ASSUME NEW rows, IsTable(rows), NEW id, NEW e \in BOOLEAN
  PROVE  /\ IsTable(patch(rows, id, e).rows)
         /\ ids(patch(rows, id, e).rows) = ids(rows)
<1> DEFINE patched(r) == IF r.id = id THEN [r EXCEPT !.enabled = e] ELSE r
<1>1. \A r \in rows : IsRule(patched(r)) /\ patched(r).id = r.id
  BY PatchedRule DEF IsTable
<1>2. patch(rows, id, e).rows = {patched(r) : r \in rows}
  BY DEF patch
<1> HIDE DEF patched
<1> QED BY <1>1, <1>2 DEF IsTable, ids

LEMMA DeleteKeeps ==
  ASSUME NEW rows, IsTable(rows), NEW id
  PROVE  /\ IsTable(delete(rows, id).rows)
         /\ ids(delete(rows, id).rows) = ids(rows) \ {id}
BY DEF IsTable, delete, ids

TableOK == IsTable(table) /\ IsFiniteSet(table)

LEMMA AddKeeps ==
  ASSUME TableOK, NEW r, IsRule(r), table' = table \/ table' = table \cup {r}
  PROVE  TableOK'
<1>1. IsFiniteSet(table \cup {r})
  BY FS_AddElement DEF TableOK
<1>2. IsTable(table \cup {r})
  BY DEF TableOK, IsTable
<1> QED BY <1>1, <1>2 DEF TableOK

LEMMA InitTable == Init => TableOK
BY FS_EmptySet DEF Init, TableOK, IsTable

StoreTypes ==
  /\ pc \in [Seeders -> Pcs]
  /\ at \in [Seeders -> DOMAIN DEMO_RULES]

LEMMA DemoRows ==
  /\ Len(DEMO_RULES) \in Nat \ {0} /\ DOMAIN DEMO_RULES = 1 .. Len(DEMO_RULES)
  /\ \A i \in DOMAIN DEMO_RULES : DEMO_RULES[i] \in RuleSet(DEMO_RULES) /\ IsRule(DEMO_RULES[i])
BY DemoAssumption DEF RuleSet

LEMMA InitTypes == Init => StoreTypes
BY DemoRows DEF Init, StoreTypes, Pcs

LEMMA StepTypes == StoreTypes /\ [Next]_vars => StoreTypes'
<1> SUFFICES ASSUME StoreTypes, [Next]_vars PROVE StoreTypes'
  OBVIOUS
<1>1. ASSUME NEW s \in Seeders, Start(s) \/ CountRows(s) \/ CreateDemoRule(s) \/ Crash(s)
      PROVE  StoreTypes'
  <2>1. at[s] # Len(DEMO_RULES) => at[s] + 1 \in DOMAIN DEMO_RULES
    <3>1. at[s] \in 1 .. Len(DEMO_RULES) /\ Len(DEMO_RULES) \in Nat
      BY DemoRows DEF StoreTypes
    <3>2. at[s] # Len(DEMO_RULES) => at[s] + 1 \in 1 .. Len(DEMO_RULES)
      BY <3>1
    <3> QED BY <3>2, DemoRows
  <2>2. 1 \in DOMAIN DEMO_RULES
    BY DemoRows
  <2>3. CASE CreateDemoRule(s)
    BY <2>1, <2>2, <2>3 DEF StoreTypes, CreateDemoRule, Pcs, afterSeeding
  <2>4. CASE Start(s) \/ CountRows(s) \/ Crash(s)
    BY <2>2, <2>4 DEF StoreTypes, Start, CountRows, Crash, Pcs, afterSeeding
  <2> QED BY <1>1, <2>3, <2>4
<1>2. CASE UNCHANGED <<pc, at>>
  BY <1>2 DEF StoreTypes
<1> QED BY <1>1, <1>2 DEF Next, vars, PostRule, PatchRule, DeleteRule

LEMMA StepTable == StoreTypes /\ TableOK /\ [Next]_vars => TableOK'
<1> SUFFICES ASSUME StoreTypes, TableOK, [Next]_vars PROVE TableOK'
  OBVIOUS
<1>1. ASSUME NEW s \in Seeders, CreateDemoRule(s) PROVE TableOK'
  <2>1. IsRule(DEMO_RULES[at[s]])
    BY DemoRows DEF StoreTypes
  <2>2. table' = table \/ table' = table \cup {DEMO_RULES[at[s]]}
    BY <1>1 DEF CreateDemoRule
  <2> QED BY <2>1, <2>2, AddKeeps
<1>2. ASSUME NEW rule \in NewRules, PostRule(rule) PROVE TableOK'
  <2>1. table' = table \/ table' = table \cup {rule}
    BY <1>2 DEF PostRule, post
  <2> QED BY <2>1, AddKeeps, DemoAssumption
<1>3. ASSUME NEW id \in RuleIds, NEW e \in BOOLEAN, PatchRule(id, e) PROVE TableOK'
  <2>1. IsTable(table')
    BY <1>3, PatchKeeps DEF PatchRule, TableOK
  <2> DEFINE f == [r \in table |-> IF r.id = id THEN [r EXCEPT !.enabled = e] ELSE r]
  <2>2. f \in Surjection(table, table')
    BY <1>3 DEF PatchRule, patch, Surjection
  <2>3. IsFiniteSet(table')
    BY <2>2, FS_Surjection DEF TableOK
  <2> QED BY <2>1, <2>3 DEF TableOK
<1>4. ASSUME NEW id \in RuleIds, DeleteRule(id) PROVE TableOK'
  <2>1. table' \in SUBSET table
    BY <1>4 DEF DeleteRule, delete
  <2> QED BY <2>1, FS_Subset DEF TableOK, IsTable
<1>5. CASE UNCHANGED table
  BY <1>5 DEF TableOK
<1> QED BY <1>1, <1>2, <1>3, <1>4, <1>5 DEF Next, vars, Start, CountRows, Crash

-----------------------------------------------------------------------------
(* The verdicts                                                            *)

\* A list of all the rows of a finite table holds each of them, and nothing else.
LEMMA ListHoldsTable ==
  ASSUME TableOK, NEW rows \in SetToSeqs(table)
  PROVE  IsRuleList(rows) /\ RuleSet(rows) = table
<1> DEFINE D == 1 .. Cardinality(table)
<1>1. rows \in Injection(D, table)
  BY DEF SetToSeqs, Injection, IsInjective
<1>2. Cardinality(table) \in Nat
  BY FS_CardinalityType DEF TableOK
<1>3. Cardinality(D) = Cardinality(table)
  <2>1. \A m \in Nat : Cardinality(1 .. m) = m
    BY FS_Interval
  <2> QED BY <1>2, <2>1
<1>4. rows \in Surjection(D, table)
  <2> HIDE DEF D
  <2> QED BY <1>1, <1>3, FS_Injection DEF TableOK
<1>5. DOMAIN rows = D /\ RuleSet(rows) = table
  BY <1>4 DEF Surjection, RuleSet
<1>6. \A i \in DOMAIN rows : IsRule(rows[i])
  BY <1>1, <1>5 DEF TableOK, IsTable, Injection
<1> QED BY <1>5, <1>6 DEF IsRuleList, IsRule

\* evaluate's verdict on whatever list loadRules returns is the one the set of rows calls
\* for, and the rule it names is an enabled row that calls for it by itself.
THEOREM VerdictIsHonestHolds == Spec => []VerdictIsHonest
<1>1. ASSUME TableOK PROVE VerdictIsHonest
  <2> SUFFICES ASSUME NEW rows \in SetToSeqs(table), NEW p \in Proposals, NEW u \in Usages
               PROVE  LET d == evaluate(p, rows, u, FALSE)
                      IN  /\ d.status = ReferenceStatus(p, table, u, FALSE)
                          /\ d.matchedRuleId # Null =>
                               \E r \in table : Justifies(r, d, p, u, FALSE)
    BY DEF VerdictIsHonest
  <2>1. IsRuleList(rows) /\ RuleSet(rows) = table /\ p.suspicious \in BOOLEAN
    BY <1>1, ListHoldsTable, ProposalsAssumption
  <2>2. \A open \in BOOLEAN : evaluate(p, rows, u, open).status
                               = ReferenceStatus(p, RuleSet(rows), u, open)
    BY <2>1, StatusIsOrderFree
  <2>3. \A open \in BOOLEAN : \A d :
          d = evaluate(p, rows, u, open) /\ d.matchedRuleId # Null =>
            \E r \in RuleSet(rows) : Justifies(r, d, p, u, open)
    BY <2>1, VerdictNamesItsRule
  <2> DEFINE d == evaluate(p, rows, u, FALSE)
  <2>4. d.status = ReferenceStatus(p, RuleSet(rows), u, FALSE)
    BY <2>2
  <2>5. d.matchedRuleId # Null => \E r \in RuleSet(rows) : Justifies(r, d, p, u, FALSE)
    BY <2>3
  <2> HIDE DEF d
  <2> QED BY <2>1, <2>4, <2>5 DEF d
<1> QED BY <1>1, InitTable, InitTypes, StepTable, StepTypes, PTL DEF Spec

-----------------------------------------------------------------------------
(* Seeding                                                                 *)

\* The ids of the demo rows before the k-th.
First(k) == {DEMO_RULES[i].id : i \in 1 .. k - 1}

\* Nobody has created a row, and nobody can have but the seeders: the server listens only
\* once there are rows.
Untouched ==
  /\ seeded = {} /\ table = {} /\ ~up
  /\ \A s \in Seeders : pc[s] = "create" => at[s] = 1

\* One seeder is past its first row.  While the server does not listen, the table is what
\* that seeder made of it, so that another one dies of the first row or finds the table
\* not empty; once it does, the operators cannot be in the seeder's way.
UnderWay(s) ==
  /\ pc[s] = "create" /\ at[s] # 1 /\ seeded = First(at[s])
  /\ \A other \in Seeders \ {s} : pc[other] = "create" => at[other] = 1
  /\ ~up => ids(table) = First(at[s])
  /\ \A i \in DOMAIN DEMO_RULES : i >= at[s] => DEMO_RULES[i].id \notin ids(table)

Seeded == seeded = ids(RuleSet(DEMO_RULES))

SeedingInv == crashes = 0 => Untouched \/ Seeded \/ \E s \in Seeders : UnderWay(s)

LEMMA FirstRows ==
  /\ First(1) = {}
  /\ \A k \in DOMAIN DEMO_RULES : /\ First(k + 1) = First(k) \cup {DEMO_RULES[k].id}
                                  /\ DEMO_RULES[k].id \notin First(k)
  /\ First(Len(DEMO_RULES) + 1) = ids(RuleSet(DEMO_RULES))
  /\ \A k \in DOMAIN DEMO_RULES : k # 1 => DEMO_RULES[1].id \in First(k)
<1> DEFINE n == Len(DEMO_RULES)
<1>1. n \in Nat /\ DOMAIN DEMO_RULES = 1 .. n
  BY DemoRows
<1> HIDE DEF n
<1>2. \A i, j \in 1 .. n : DEMO_RULES[i].id = DEMO_RULES[j].id => i = j
  BY <1>1, DemoAssumption
<1>3. First(1) = {}
  BY DEF First
<1>4. ASSUME NEW k \in 1 .. n
      PROVE  First(k + 1) = First(k) \cup {DEMO_RULES[k].id} /\ DEMO_RULES[k].id \notin First(k)
  <2>1. 1 .. (k + 1) - 1 = (1 .. k - 1) \cup {k} /\ 1 .. k - 1 \subseteq 1 .. n
    BY <1>1
  <2>2. DEMO_RULES[k].id \notin First(k)
    BY <1>1, <1>2 DEF First
  <2> QED BY <2>1, <2>2 DEF First
<1>5. First(n + 1) = ids(RuleSet(DEMO_RULES))
  <2>1. 1 .. (n + 1) - 1 = DOMAIN DEMO_RULES
    BY <1>1
  <2>2. First(n + 1) = {DEMO_RULES[i].id : i \in DOMAIN DEMO_RULES}
    BY <2>1, Zenon DEF First
  <2>3. ids(RuleSet(DEMO_RULES)) = {DEMO_RULES[i].id : i \in DOMAIN DEMO_RULES}
    BY DEF ids, RuleSet
  <2> QED BY <2>2, <2>3
<1>6. \A k \in 1 .. n : k # 1 => 1 \in 1 .. k - 1
  OBVIOUS
<1>7. \A k \in 1 .. n : k # 1 => DEMO_RULES[1].id \in First(k)
  BY <1>6 DEF First
<1> QED BY <1>1, <1>3, <1>4, <1>5, <1>7 DEF n

\* A step of the seeder that is under way.
LEMMA SeederGoesOn ==
  ASSUME StoreTypes, TableOK, NEW s \in Seeders, UnderWay(s), CreateDemoRule(s)
  PROVE  Seeded' \/ UnderWay(s)'
<1> DEFINE k == at[s]
           row == DEMO_RULES[k]
<1>1. k \in DOMAIN DEMO_RULES /\ k \in 1 .. Len(DEMO_RULES) /\ Len(DEMO_RULES) \in Nat
  BY DemoRows DEF StoreTypes
<1>2. row.id \notin ids(table) /\ seeded = First(k)
  BY <1>1 DEF UnderWay
<1>3. /\ table' = table \cup {row} /\ seeded' = First(k) \cup {row.id}
      /\ pc' = (IF k = Len(DEMO_RULES) THEN [pc EXCEPT ![s] = afterSeeding(s)] ELSE pc)
      /\ at' = (IF k = Len(DEMO_RULES) THEN [at EXCEPT ![s] = 1] ELSE [at EXCEPT ![s] = @ + 1])
  BY <1>2 DEF CreateDemoRule
<1>4. seeded' = First(k + 1) /\ row.id \notin First(k)
  BY <1>1, <1>3, FirstRows
<1>5. CASE k = Len(DEMO_RULES)
  BY <1>4, <1>5, FirstRows DEF Seeded
<1>6. CASE k # Len(DEMO_RULES)
  <2>1. pc' = pc /\ at' = [at EXCEPT ![s] = k + 1] /\ at'[s] = k + 1 /\ k + 1 # 1
    BY <1>1, <1>3, <1>6 DEF StoreTypes
  <2>2. ids(table') = ids(table) \cup {row.id}
    BY <1>3 DEF ids
  <2>3. \A i \in DOMAIN DEMO_RULES : i >= k + 1 => DEMO_RULES[i].id \notin ids(table')
    <3> SUFFICES ASSUME NEW i \in DOMAIN DEMO_RULES, i >= k + 1
                 PROVE  DEMO_RULES[i].id \notin ids(table')
      OBVIOUS
    <3>1. i \in Nat /\ i >= k /\ i # k
      BY <1>1, DemoRows
    <3>2. DEMO_RULES[i].id \notin ids(table) /\ DEMO_RULES[i].id # row.id
      BY <1>1, <3>1, DemoAssumption DEF UnderWay
    <3> QED BY <2>2, <3>2
  <2>4. \A other \in Seeders \ {s} : pc'[other] = "create" => at'[other] = 1
    BY <2>1 DEF UnderWay, StoreTypes
  <2>5. ~up' => ids(table') = First(k + 1)
    <3>1. up' = up
      BY <2>1 DEF up
    <3>2. ~up => ids(table) = First(k)
      BY DEF UnderWay
    <3> QED BY <1>1, <2>2, <3>1, <3>2, FirstRows
  <2> QED BY <1>4, <2>1, <2>3, <2>4, <2>5 DEF UnderWay
<1> QED BY <1>5, <1>6

\* Whatever else happens while a seeder is under way.
LEMMA OthersLeaveIt ==
  ASSUME StoreTypes, TableOK, NEW s \in Seeders, UnderWay(s), crashes' = crashes,
         NEW o \in Seeders \ {s}, Start(o) \/ CountRows(o) \/ CreateDemoRule(o)
  PROVE  UnderWay(s)'
<1>1. at[s] \in DOMAIN DEMO_RULES /\ at[s] # 1 /\ Len(DEMO_RULES) \in Nat
  BY DEF UnderWay, StoreTypes
<1>2. ~up
  <2>1. up => pc["server"] = "listening" /\ s # "server"
    BY DEF up, UnderWay
  <2>2. up => o = "server"
    BY <2>1, SeedersAssumption
  <2> QED BY <2>1, <2>2 DEF Start, CountRows, CreateDemoRule
<1>3. ids(table) = First(at[s]) /\ DEMO_RULES[1].id \in ids(table)
  BY <1>1, <1>2, FirstRows DEF UnderWay
<1>4. table # {}
  BY <1>3 DEF ids
<1>5. /\ table' = table /\ seeded' = seeded /\ at'[s] = at[s] /\ pc'[s] = pc[s]
      /\ pc'[o] = "create" => at'[o] = 1
      /\ \A other \in Seeders \ {s, o} : pc'[other] = pc[other] /\ at'[other] = at[other]
  <2>1. CASE Start(o)
    BY <2>1 DEF Start, StoreTypes
  <2>2. CASE CountRows(o)
    BY <1>4, <2>2 DEF CountRows, StoreTypes, afterSeeding
  <2>3. CASE CreateDemoRule(o)
    <3>1. DEMO_RULES[at[o]].id \in ids(table)
      BY <1>3, <2>3 DEF UnderWay, CreateDemoRule
    <3> QED BY <2>3, <3>1 DEF CreateDemoRule, StoreTypes
  <2> QED BY <2>1, <2>2, <2>3
<1> QED BY <1>2, <1>3, <1>5 DEF UnderWay

\* A request of an operator.
LEMMA OperatorsLeaveIt ==
  ASSUME StoreTypes, TableOK, NEW s \in Seeders, UnderWay(s), up, UNCHANGED <<pc, at, seeded>>,
         ids(table') \cap ids(RuleSet(DEMO_RULES)) \subseteq ids(table)
  PROVE  UnderWay(s)'
<1>1. \A i \in DOMAIN DEMO_RULES : DEMO_RULES[i].id \in ids(RuleSet(DEMO_RULES))
  BY DemoRows DEF ids
<1> QED BY <1>1 DEF UnderWay, up

SeedingTypes == StoreTypes /\ TableOK /\ crashes \in Nat

LEMMA StepSeeding == SeedingTypes /\ SeedingInv /\ [Next]_vars => SeedingInv'
<1> SUFFICES ASSUME SeedingTypes, SeedingInv, [Next]_vars, crashes' = 0
             PROVE  Untouched' \/ Seeded' \/ \E s \in Seeders : UnderWay(s)'
  BY DEF SeedingInv
<1> USE DEF SeedingTypes
<1>1. /\ crashes = 0 /\ \A s \in Seeders : ~Crash(s)
      /\ Untouched \/ Seeded \/ \E s \in Seeders : UnderWay(s)
  BY DEF Next, vars, Start, CountRows, CreateDemoRule, Crash, PostRule, PatchRule, DeleteRule,
         SeedingInv
<1>2. CASE UNCHANGED <<table, pc, at, seeded>>
  BY <1>1, <1>2 DEF Untouched, Seeded, UnderWay, up
<1>3. ASSUME NEW s \in Seeders, Start(s) \/ CountRows(s) \/ CreateDemoRule(s)
      PROVE  Untouched' \/ Seeded' \/ \E o \in Seeders : UnderWay(o)'
  <2>1. CASE Seeded
    <3>1. DEMO_RULES[at[s]].id \in ids(RuleSet(DEMO_RULES))
      BY DemoRows DEF ids, StoreTypes
    <3> QED BY <1>3, <2>1, <3>1 DEF Seeded, Start, CountRows, CreateDemoRule
  <2>2. ASSUME NEW o \in Seeders, UnderWay(o) PROVE Seeded' \/ UnderWay(o)'
    <3>1. CASE o = s
      <4>1. CreateDemoRule(s)
        BY <1>3, <2>2, <3>1 DEF UnderWay, Start, CountRows
      <4> QED BY <2>2, <3>1, <4>1, SeederGoesOn
    <3>2. CASE o # s
      <4>1. crashes' = crashes
        BY <1>3 DEF Start, CountRows, CreateDemoRule
      <4> QED BY <1>3, <2>2, <3>2, <4>1, OthersLeaveIt
    <3> QED BY <3>1, <3>2
  <2>3. CASE Untouched /\ (Start(s) \/ CountRows(s))
    <3>1. table' = {} /\ seeded' = {}
      BY <2>3 DEF Untouched, Start, CountRows
    <3>2. \/ pc' = [pc EXCEPT ![s] = "count"] /\ at' = at
          \/ pc' = [pc EXCEPT ![s] = "create"] /\ at' = [at EXCEPT ![s] = 1]
      BY <2>3 DEF Untouched, Start, CountRows
    <3>3. ~up'
      BY <2>3, <3>2, SeedersAssumption DEF Untouched, StoreTypes, up
    <3>4. \A o \in Seeders : pc'[o] = "create" => at'[o] = 1
      BY <2>3, <3>2 DEF Untouched, StoreTypes
    <3> QED BY <3>1, <3>3, <3>4 DEF Untouched
  <2>4. CASE Untouched /\ CreateDemoRule(s)
    <3> DEFINE row == DEMO_RULES[1]
    <3>1. at[s] = 1 /\ 1 \in DOMAIN DEMO_RULES /\ Len(DEMO_RULES) \in Nat
      BY <2>4, DemoRows DEF Untouched, CreateDemoRule
    <3>2. ids(table) = {} /\ ids(table \cup {row}) = {row.id}
      BY <2>4 DEF Untouched, ids
    <3>3. /\ table' = table \cup {row} /\ seeded' = {row.id}
          /\ pc' = (IF 1 = Len(DEMO_RULES) THEN [pc EXCEPT ![s] = afterSeeding(s)] ELSE pc)
          /\ at' = (IF 1 = Len(DEMO_RULES) THEN [at EXCEPT ![s] = 1] ELSE [at EXCEPT ![s] = @ + 1])
      BY <2>4, <3>1, <3>2 DEF CreateDemoRule, Untouched
    <3>4. First(2) = {row.id}
      <4>1. First(1 + 1) = First(1) \cup {DEMO_RULES[1].id} /\ First(1) = {}
        BY <3>1, FirstRows
      <4> QED BY <4>1
    <3>5. CASE 1 = Len(DEMO_RULES)
      <4>1. First(2) = ids(RuleSet(DEMO_RULES))
        <5>1. PICK n : n = Len(DEMO_RULES) /\ First(n + 1) = ids(RuleSet(DEMO_RULES))
          BY FirstRows
        <5>2. n + 1 = 2
          BY <3>5, <5>1
        <5> QED BY <5>1, <5>2
      <4> QED BY <3>3, <3>4, <4>1 DEF Seeded
    <3>6. CASE 1 # Len(DEMO_RULES)
      <4>1. pc' = pc /\ pc[s] = "create" /\ at'[s] = 2
            /\ \A other \in Seeders \ {s} : at'[other] = at[other]
        BY <2>4, <3>1, <3>3, <3>6 DEF StoreTypes, CreateDemoRule
      <4>2. \A i \in DOMAIN DEMO_RULES : i >= 2 => DEMO_RULES[i].id \notin ids(table')
        <5>1. \A i \in DOMAIN DEMO_RULES : i >= 2 => i # 1
          OBVIOUS
        <5> QED BY <3>1, <3>2, <3>3, <5>1, DemoAssumption
      <4> QED BY <2>4, <3>2, <3>3, <3>4, <4>1, <4>2 DEF UnderWay, Untouched
    <3> QED BY <3>5, <3>6
  <2> QED BY <1>1, <1>3, <2>1, <2>2, <2>3, <2>4
<1>4. ASSUME up, UNCHANGED <<pc, at, seeded>>,
             ids(table') \cap ids(RuleSet(DEMO_RULES)) \subseteq ids(table)
      PROVE  Seeded' \/ \E s \in Seeders : UnderWay(s)'
  <2>1. ASSUME NEW s \in Seeders, UnderWay(s) PROVE UnderWay(s)'
    BY <1>4, <2>1, OperatorsLeaveIt
  <2> QED BY <1>1, <1>4, <2>1 DEF Untouched, Seeded
<1>5. ASSUME NEW rule \in NewRules, PostRule(rule)
      PROVE  ids(table') \cap ids(RuleSet(DEMO_RULES)) \subseteq ids(table)
  <2>1. ids(table') = ids(table) \cup {rule.id}
    BY <1>5, PostKeeps, DemoAssumption DEF PostRule, TableOK
  <2>2. rule.id \in ids(NewRules)
    BY DEF ids
  <2> QED BY <2>1, <2>2, DemoAssumption
<1>6. ASSUME NEW id \in RuleIds, NEW e \in BOOLEAN, PatchRule(id, e)
      PROVE  ids(table') = ids(table)
  BY <1>6, PatchKeeps DEF PatchRule, TableOK
<1>7. ASSUME NEW id \in RuleIds, DeleteRule(id) PROVE ids(table') \subseteq ids(table)
  BY <1>7, DeleteKeeps DEF DeleteRule, TableOK
<1>8. ASSUME NEW rule \in NewRules, PostRule(rule) PROVE Seeded' \/ \E s \in Seeders : UnderWay(s)'
  BY <1>4, <1>5, <1>8 DEF PostRule
<1>9. ASSUME NEW id \in RuleIds, DeleteRule(id) \/ \E e \in BOOLEAN : PatchRule(id, e)
      PROVE  Seeded' \/ \E s \in Seeders : UnderWay(s)'
  <2>1. ids(table') \cap ids(RuleSet(DEMO_RULES)) \subseteq ids(table)
    BY <1>6, <1>7, <1>9
  <2> QED BY <1>4, <1>9, <2>1 DEF PatchRule, DeleteRule
<1> QED BY <1>1, <1>2, <1>3, <1>8, <1>9 DEF Next, vars

\* As long as no process crashed, the demo rules are all there ever were or none: a seeder
\* that loses the race for the first row leaves the other one undisturbed.
THEOREM SeedingIsAllOrNothingHolds == Spec => []SeedingIsAllOrNothing
<1>1. Init => SeedingInv /\ SeedingTypes
  <2>1. Init => Untouched /\ crashes \in Nat
    BY SeedersAssumption DEF Init, Untouched, up
  <2> QED BY <2>1, InitTypes, InitTable DEF SeedingInv, SeedingTypes
<1>2. SeedingTypes /\ [Next]_vars => SeedingTypes'
  <2>1. crashes \in Nat /\ [Next]_vars => crashes' \in Nat
    BY DEF Next, vars, Start, CountRows, CreateDemoRule, Crash, PostRule, PatchRule, DeleteRule
  <2> QED BY <2>1, StepTypes, StepTable DEF SeedingTypes
<1>3. SeedingInv => SeedingIsAllOrNothing
  BY DEF SeedingInv, SeedingIsAllOrNothing, Untouched, Seeded, UnderWay
<1> QED BY <1>1, <1>2, <1>3, StepSeeding, PTL DEF Spec
-----------------------------------------------------------------------------
(* The policy page: types and requests                                     *)

MadeRules == {buildRule(f, id) : f \in Forms \cup {BlankForm}, id \in RuleIds}

Request == [kind : {"patch", "post"}, id : RuleIds \cup Switches, rule : {Null} \cup MadeRules,
            value : BOOLEAN, answer : {Null, TRUE, FALSE}, heard : BOOLEAN]

Dialogs == [open : BOOLEAN, busy : BOOLEAN, form : Forms \cup {BlankForm}, filling : Nat]
Sent == [form : {f \in Forms \cup {BlankForm} : browserAccepts(f) /\ ~invalid(f)}, filling : Nat]
Switch == {Null} \cup [on : BOOLEAN, busy : BOOLEAN]

PagesTypes ==
  /\ IsTable(table)
  /\ page \in [Switches -> Switch]
  /\ dialog \in Dialogs
  /\ requests \subseteq Request
  /\ made \in Seq(Sent)
  /\ Len(made) <= Len(uuids)
  /\ slipped \in BOOLEAN

patches == {q \in requests : q.kind = "patch"}
posts == {q \in requests : q.kind = "post"}

LEMMA Fields ==
  ASSUME NEW q \in Request
  PROVE  /\ q.kind \in {"patch", "post"} /\ q.id \in RuleIds \cup Switches
         /\ q.rule \in {Null} \cup MadeRules /\ q.value \in BOOLEAN
         /\ q.answer \in {Null, TRUE, FALSE} /\ q.heard \in BOOLEAN
BY DEF Request

\* The request once its sender is gone, and once the server has answered it.
LEMMA Silenced ==
  ASSUME NEW q \in Request, NEW s, s = [q EXCEPT !.heard = FALSE]
  PROVE  /\ s \in Request /\ s.heard = FALSE /\ s.answer = q.answer
         /\ s.kind = q.kind /\ s.id = q.id /\ s.rule = q.rule /\ s.value = q.value
BY DEF Request

LEMMA Answered ==
  ASSUME NEW q \in Request, NEW ok \in BOOLEAN, NEW s, s = [q EXCEPT !.answer = ok]
  PROVE  /\ s \in Request /\ s.heard = q.heard /\ s.answer = ok
         /\ s.kind = q.kind /\ s.id = q.id /\ s.rule = q.rule /\ s.value = q.value
BY DEF Request

LEMMA NewPatch ==
  ASSUME NEW id \in Switches, NEW value \in BOOLEAN, NEW q, q = Patch(id, value)
  PROVE  /\ q \in Request /\ q.kind = "patch" /\ q.id = id /\ q.value = value
         /\ q.answer = Null /\ q.heard = TRUE
BY DEF Request, Patch

LEMMA NewPost ==
  ASSUME NEW f \in Forms \cup {BlankForm}, NEW id \in RuleIds
  PROVE  LET q == Post(buildRule(f, id))
         IN  /\ q \in Request /\ q.kind = "post" /\ q.id = id /\ q.rule = buildRule(f, id)
             /\ q.answer = Null /\ q.heard = TRUE
<1>1. buildRule(f, id) \in MadeRules
  BY DEF MadeRules
<1>2. buildRule(f, id).id = id
  BY DEF buildRule
<1> QED BY <1>1, <1>2 DEF Request, Post

LEMMA MadeIsRule ==
  ASSUME NEW f, NEW id \in RuleIds
  PROVE  IsRule(buildRule(f, id)) /\ buildRule(f, id).id = id
BY DEF buildRule, IsRule

\* What Abandon leaves of the requests.
silenced(q, gone) == IF q \in gone THEN [q EXCEPT !.heard = FALSE] ELSE q

LEMMA Abandoned ==
  ASSUME requests \subseteq Request, NEW gone, Abandon(gone)
  PROVE  /\ requests' \subseteq Request
         /\ \A q \in requests' : \E r \in requests :
              /\ q = silenced(r, gone)
              /\ q.kind = r.kind /\ q.id = r.id /\ q.rule = r.rule
              /\ q.value = r.value /\ q.answer = r.answer
              /\ q.heard = (r.heard /\ r \notin gone)
              /\ q.heard \/ q.answer = Null
<1>1. \A q \in requests' : (\E r \in requests : q = silenced(r, gone)) /\ (q.heard \/ q.answer = Null)
  BY DEF Abandon, silenced
<1>2. ASSUME NEW r \in requests, NEW q, q = silenced(r, gone)
      PROVE  /\ q \in Request
             /\ q.kind = r.kind /\ q.id = r.id /\ q.rule = r.rule
             /\ q.value = r.value /\ q.answer = r.answer
             /\ q.heard = (r.heard /\ r \notin gone)
  <2>1. CASE r \in gone
    BY <1>2, <2>1, Silenced DEF silenced
  <2>2. CASE r \notin gone
    <3>1. q = r /\ r.heard \in BOOLEAN
      BY <1>2, <2>2, Fields DEF silenced
    <3> QED BY <2>2, <3>1
  <2> QED BY <2>1, <2>2
<1> QED BY <1>1, <1>2

LEMMA Mounted == \A id : mounted(id) \in Switch
BY DEF mounted, stored, Switch

LEMMA Uuids ==
  /\ Len(uuids) \in Nat /\ DOMAIN uuids = 1 .. Len(uuids)
  /\ \A i \in DOMAIN uuids : uuids[i] \in RuleIds
BY PagesAssumption

LEMMA PagesInitTypes == PagesInit => PagesTypes
<1> SUFFICES ASSUME PagesInit PROVE PagesTypes
  OBVIOUS
<1>1. IsTable(table)
  BY PagesAssumption DEF PagesInit, IsTable
<1>2. page \in [Switches -> Switch]
  BY Mounted DEF PagesInit
<1>3. dialog \in Dialogs
  BY DEF PagesInit, NewDialog, Dialogs
<1>4. made \in Seq(Sent) /\ Len(made) <= Len(uuids) /\ slipped \in BOOLEAN
  <2>1. <<>> \in Seq(Sent) /\ made = <<>>
    BY DEF PagesInit
  <2>2. Len(<<>>) <= Len(uuids)
    BY Uuids
  <2>3. slipped \in BOOLEAN
    BY DEF PagesInit
  <2> QED BY <2>1, <2>2, <2>3
<1> QED BY <1>1, <1>2, <1>3, <1>4 DEF PagesInit, PagesTypes

LEMMA SubmitTypes ==
  ASSUME PagesTypes, Submit
  PROVE  PagesTypes'
<1>1. Len(made) \in Nat /\ Len(made) + 1 \in 1 .. Len(uuids) /\ uuids[Len(made) + 1] \in RuleIds
  BY Uuids DEF PagesTypes, Submit
<1>2. [form |-> dialog.form, filling |-> dialog.filling] \in Sent
  BY DEF PagesTypes, Sent, Dialogs, Submit
<1>3. made' \in Seq(Sent) /\ Len(made') = Len(made) + 1
  BY <1>2 DEF PagesTypes, Submit
<1>4. Post(buildRule(dialog.form, uuids[Len(made) + 1])) \in Request
  BY <1>1, NewPost DEF PagesTypes, Dialogs
<1>5. dialog' \in Dialogs
  BY DEF PagesTypes, Submit, Dialogs
<1>6. requests' \subseteq Request
  BY <1>4 DEF PagesTypes, Submit
<1>7. Len(made') <= Len(uuids)
  BY <1>1, <1>3
<1> QED BY <1>3, <1>5, <1>6, <1>7 DEF PagesTypes, Submit, IsTable

-----------------------------------------------------------------------------
(* The policy page: what its invariant is made of                          *)

\* What no request and no row and no switch was ever about.
Unborn(id) ==
  /\ id \notin ids(table)
  /\ id \in Switches => page[id] = Null
  /\ \A q \in patches : q.id # id

FromForm(q) == \E i \in DOMAIN made : q.rule = buildRule(made[i].form, uuids[i])
PostIsFresh(q) ==
  /\ FromForm(q) /\ q.id = q.rule.id
  /\ q.answer = Null => Unborn(q.id)
  /\ q.answer # FALSE /\ (q.heard \/ q.answer = Null)

IdsAreFresh ==
  /\ \A j \in DOMAIN uuids : j > Len(made) =>
       Unborn(uuids[j]) /\ \A q \in posts : q.id # uuids[j]
  /\ \A q \in posts : PostIsFresh(q)
  /\ \A q, r \in posts : q.id = r.id => q = r

\* The switch waits for the answer to a patch that is heard, showing what was sent; and
\* unless there is doubt the server holds the opposite until it has taken the patch.
PatchIsSound(q) ==
  /\ q.id \in Switches /\ (q.heard \/ q.answer = Null)
  /\ q.heard => page[q.id] # Null /\ page[q.id].busy /\ page[q.id].on = q.value
  /\ q.answer = FALSE => q.id \notin ids(table)
  /\ q.heard /\ q.id \in ids(table) /\ q.id \notin doubt =>
       stored(table, q.id) = (IF q.answer = Null THEN ~q.value ELSE q.value)

SwitchInv ==
  /\ \A q \in patches : PatchIsSound(q)
  /\ \A q, r \in patches : q.heard /\ r.heard /\ q.id = r.id => q = r
  /\ ToggleTellsTheTruth

RulesAreForms ==
  \A i \in DOMAIN made, r \in table : r.id = uuids[i] =>
    [r EXCEPT !.enabled = TRUE] = buildRule(made[i].form, uuids[i])

\* The rule sent i-th exists or still may.
Lives(i) == uuids[i] \in ids(table) \/ \E q \in posts : q.id = uuids[i] /\ q.answer = Null
Outdated(i) == dialog.filling >= i /\ \A j \in DOMAIN made : j > i => made[j].filling >= i

Awaited(i) == i = Len(made) /\ \E q \in posts : q.heard /\ q.id = uuids[i]

\* Unless something slipped: the dialog waits for the last rule sent and no other, and a
\* rule that lives is that one or was typed before what the dialog holds now.
Tidy ==
  /\ \A q \in posts : q.heard => q.id = uuids[Len(made)] /\ dialog.busy /\ dialog.open
  /\ \A i \in DOMAIN made : Lives(i) => Awaited(i) \/ Outdated(i)

FillingsInv ==
  /\ dialog.filling <= Len(made)
  /\ \A i \in DOMAIN made : made[i].filling < i
  /\ ~slipped => Tidy

PagesInv ==
  PagesTypes /\ IdsAreFresh /\ SwitchInv /\ RulesAreForms /\ FillingsInv

LEMMA PostedRule ==
  ASSUME PagesTypes, IdsAreFresh, NEW q \in posts
  PROVE  IsRule(q.rule) /\ q.id = q.rule.id /\ \E i \in DOMAIN made : q.id = uuids[i]
<1>1. PICK i \in DOMAIN made : q.rule = buildRule(made[i].form, uuids[i])
  BY DEF IdsAreFresh, PostIsFresh, FromForm
<1>2. uuids[i] \in RuleIds
  BY Uuids DEF PagesTypes
<1>3. IsRule(q.rule) /\ q.rule.id = uuids[i]
  BY <1>1, <1>2, MadeIsRule
<1>4. q.id = q.rule.id
  BY DEF IdsAreFresh, PostIsFresh
<1> QED BY <1>3, <1>4

\* What the server makes of the table when it takes a request.
outcome(q) == IF q.kind = "post" THEN post(table, q.rule) ELSE patch(table, q.id, q.value)

LEMMA RequestTable ==
  ASSUME PagesTypes, IdsAreFresh, NEW q \in requests
  PROVE  /\ IsTable(outcome(q).rows) /\ outcome(q).ok \in BOOLEAN
         /\ ids(outcome(q).rows) = IF q.kind = "post" THEN ids(table) \cup {q.id} ELSE ids(table)
         /\ outcome(q).ok = (IF q.kind = "post" THEN q.id \notin ids(table) ELSE q.id \in ids(table))
<1>1. CASE q.kind = "post"
  <2>1. IsRule(q.rule) /\ q.id = q.rule.id
    BY <1>1, PostedRule DEF posts
  <2>2. outcome(q) = post(table, q.rule)
    BY <1>1 DEF outcome
  <2>3. /\ IsTable(post(table, q.rule).rows)
        /\ ids(post(table, q.rule).rows) = ids(table) \cup {q.rule.id}
    BY <2>1, PostKeeps DEF PagesTypes
  <2>4. post(table, q.rule).ok = (q.rule.id \notin ids(table))
    BY DEF post
  <2> QED BY <1>1, <2>1, <2>2, <2>3, <2>4
<1>2. CASE q.kind # "post"
  <2>1. outcome(q) = patch(table, q.id, q.value) /\ q.value \in BOOLEAN
    BY <1>2, Fields DEF outcome, PagesTypes
  <2>2. /\ IsTable(patch(table, q.id, q.value).rows)
        /\ ids(patch(table, q.id, q.value).rows) = ids(table)
    BY <2>1, PatchKeeps DEF PagesTypes
  <2>3. patch(table, q.id, q.value).ok = (q.id \in ids(table))
    BY DEF patch
  <2> QED BY <1>2, <2>1, <2>2, <2>3
<1> QED BY <1>1, <1>2

LEMMA ArriveTable ==
  ASSUME PagesTypes, IdsAreFresh, NEW q \in requests, Arrive(q)
  PROVE  /\ table' = outcome(q).rows
         /\ requests' = (requests \ {q})
              \cup (IF q.heard THEN {[q EXCEPT !.answer = outcome(q).ok]} ELSE {})
         /\ doubt' = IF q.kind = "post" \/ ~outcome(q).ok THEN doubt
                     ELSE IF q.heard THEN doubt \ {q.id} ELSE doubt \cup {q.id}
         /\ UNCHANGED <<page, dialog, refreshing, made, slipped>>
BY DEF Arrive, outcome

-----------------------------------------------------------------------------
(* The policy page: types                                                  *)

LEMMA PatchedSwitch ==
  ASSUME PagesInv, NEW q \in requests, q.heard, q.kind = "patch"
  PROVE  /\ q.id \in Switches /\ q.value \in BOOLEAN
         /\ page[q.id] \in [on : BOOLEAN, busy : BOOLEAN]
         /\ page[q.id].busy = TRUE /\ page[q.id].on = q.value
<1>1. q \in patches
  BY DEF patches
<1>2. q.id \in Switches /\ page[q.id] # Null /\ page[q.id].busy /\ page[q.id].on = q.value
  BY <1>1 DEF PagesInv, SwitchInv, PatchIsSound
<1> QED BY <1>2, Fields DEF PagesInv, PagesTypes, Switch

LEMMA DialogKeeps ==
  ASSUME NEW n, n \in Seq(Sent), NEW d \in Dialogs
  PROVE  /\ NewDialog(Len(n)) \in Dialogs
         /\ \A b \in BOOLEAN : [d EXCEPT !.open = b] \in Dialogs
         /\ \A b \in BOOLEAN : [d EXCEPT !.busy = b] \in Dialogs
         /\ \A b, c \in BOOLEAN : [d EXCEPT !.open = b, !.busy = c] \in Dialogs
         /\ \A f \in Forms : [d EXCEPT !.form = f, !.filling = Len(n)] \in Dialogs
<1>1. Len(n) \in Nat
  OBVIOUS
<1>2. NewDialog(Len(n)) \in Dialogs
  BY <1>1 DEF Dialogs, NewDialog
<1>3. \A f \in Forms : [d EXCEPT !.form = f, !.filling = Len(n)] \in Dialogs
  BY <1>1 DEF Dialogs
<1>4. /\ \A b \in BOOLEAN : [d EXCEPT !.open = b] \in Dialogs
      /\ \A b \in BOOLEAN : [d EXCEPT !.busy = b] \in Dialogs
      /\ \A b, c \in BOOLEAN : [d EXCEPT !.open = b, !.busy = c] \in Dialogs
  BY DEF Dialogs
<1> QED BY <1>2, <1>3, <1>4

\* What an answer does to the page.
LEMMA AnswerTypes ==
  ASSUME PagesInv, NEW q \in requests, q.heard, Confirmed(q) \/ Rejected(q)
  PROVE  page' \in [Switches -> Switch] /\ dialog' \in Dialogs
<1>1. /\ page \in [Switches -> Switch] /\ dialog \in Dialogs /\ NewDialog(Len(made)) \in Dialogs
      /\ [dialog EXCEPT !.busy = FALSE] \in Dialogs
  BY DialogKeeps DEF PagesInv, PagesTypes
<1>2. CASE q.kind = "patch"
  <2>1. /\ [page[q.id] EXCEPT !.busy = FALSE] \in Switch
        /\ [on |-> ~q.value, busy |-> FALSE] \in Switch
    BY <1>2, PatchedSwitch DEF Switch
  <2>2. \/ page' = [page EXCEPT ![q.id] = [page[q.id] EXCEPT !.busy = FALSE]]
        \/ page' = [page EXCEPT ![q.id] = [on |-> ~q.value, busy |-> FALSE]]
    BY <1>1, <1>2, PatchedSwitch DEF Confirmed, Rejected
  <2> QED BY <1>1, <1>2, <2>1, <2>2 DEF Confirmed, Rejected
<1>3. CASE q.kind # "patch"
  BY <1>1, <1>3 DEF Confirmed, Rejected
<1> QED BY <1>2, <1>3

LEMMA StepPagesTypes == PagesInv /\ [PagesNext]_pagesVars => PagesTypes'
<1> SUFFICES ASSUME PagesInv, [PagesNext]_pagesVars PROVE PagesTypes'
  OBVIOUS
<1>1. /\ PagesTypes /\ IdsAreFresh
      /\ page \in [Switches -> Switch] /\ dialog \in Dialogs /\ requests \subseteq Request
  BY DEF PagesInv, PagesTypes
<1>2. /\ NewDialog(Len(made)) \in Dialogs
      /\ \A b \in BOOLEAN : [dialog EXCEPT !.open = b] \in Dialogs
      /\ \A b, c \in BOOLEAN : [dialog EXCEPT !.open = b, !.busy = c] \in Dialogs
      /\ \A f \in Forms : [dialog EXCEPT !.form = f, !.filling = Len(made)] \in Dialogs
  BY <1>1, DialogKeeps DEF PagesTypes
<1>3. CASE Load \/ Refresh \/ RefreshFails
  <2>1. requests' \subseteq Request
    BY <1>1, <1>3, Abandoned DEF Load, Refresh, RefreshFails
  <2>2. Null \in Switch
    BY DEF Switch
  <2>3. page' \in [Switches -> Switch]
    BY <1>1, <1>3, <2>2, Mounted DEF Load, Refresh, RefreshFails
  <2> QED BY <1>1, <1>2, <1>3, <2>1, <2>3 DEF PagesTypes, IsTable, Load, Refresh, RefreshFails
<1>4. ASSUME NEW id \in Switches, Toggle(id) PROVE PagesTypes'
  <2>1. page[id].on \in BOOLEAN /\ [on |-> ~page[id].on, busy |-> TRUE] \in Switch
    BY <1>1, <1>4 DEF Switch, Toggle
  <2>2. Patch(id, ~page[id].on) \in Request
    BY <2>1, NewPatch
  <2>3. page' = [page EXCEPT ![id] = [on |-> ~page[id].on, busy |-> TRUE]]
    BY <1>4 DEF Toggle
  <2> QED BY <1>1, <1>4, <2>1, <2>2, <2>3 DEF PagesTypes, IsTable, Toggle
<1>5. ASSUME NEW id \in Switches, OtherPatch(id) \/ OtherDelete(id) PROVE PagesTypes'
  <2> DEFINE e == ~stored(table, id)
  <2>1. e \in BOOLEAN
    BY DEF stored
  <2>2. IsTable(table')
    <3> HIDE DEF e
    <3>1. IsTable(patch(table, id, e).rows) /\ IsTable(delete(table, id).rows)
      BY <1>1, <2>1, PatchKeeps, DeleteKeeps DEF PagesTypes
    <3>2. table' = patch(table, id, e).rows \/ table' = delete(table, id).rows
      BY <1>5 DEF OtherPatch, OtherDelete, e
    <3> QED BY <3>1, <3>2
  <2> QED BY <1>1, <1>5, <2>2 DEF PagesTypes, OtherPatch, OtherDelete
<1>6. CASE Open \/ Close
  BY <1>1, <1>2, <1>6 DEF PagesTypes, IsTable, Open, Close
<1>7. ASSUME NEW f \in Forms, Fill(f) PROVE PagesTypes'
  BY <1>1, <1>2, <1>7 DEF PagesTypes, IsTable, Fill
<1>8. ASSUME NEW q \in requests, Arrive(q) PROVE PagesTypes'
  <2>1. IsTable(table')
    <3>1. IsTable(outcome(q).rows)
      BY <1>1, RequestTable
    <3>2. table' = outcome(q).rows
      BY <1>1, <1>8, ArriveTable
    <3> QED BY <3>1, <3>2
  <2>2. requests' \subseteq Request
    <3>1. [q EXCEPT !.answer = outcome(q).ok] \in Request
      BY <1>1, RequestTable, Answered
    <3> QED BY <1>1, <1>8, <3>1, ArriveTable
  <2> QED BY <1>1, <1>8, <2>1, <2>2, ArriveTable DEF PagesTypes
<1>9. ASSUME NEW q \in requests, Reply(q) \/ Lose(q) PROVE PagesTypes'
  <2>1. page' \in [Switches -> Switch] /\ dialog' \in Dialogs
    BY <1>9, AnswerTypes DEF Reply, Lose
  <2>2. [q EXCEPT !.heard = FALSE] \in Request
    BY <1>1, Silenced
  <2>3. requests' \subseteq Request
    BY <1>1, <1>9, <2>2 DEF Reply, Lose
  <2> QED BY <1>1, <1>9, <2>1, <2>3 DEF PagesTypes, IsTable, Reply, Lose
<1>10. CASE UNCHANGED pagesVars
  BY <1>1, <1>10 DEF PagesTypes, IsTable, pagesVars
<1> QED BY <1>1, <1>3, <1>4, <1>5, <1>6, <1>7, <1>8, <1>9, <1>10, SubmitTypes DEF PagesNext

-----------------------------------------------------------------------------
(* The policy page: fresh ids                                              *)

\* The steps that neither send a request nor take one.
Quiet ==
  \/ Load \/ Refresh \/ RefreshFails \/ Open \/ Close
  \/ \E f \in Forms : Fill(f)
  \/ \E id \in Switches : OtherPatch(id) \/ OtherDelete(id)
  \/ \E q \in requests : Reply(q) \/ Lose(q)
  \/ UNCHANGED pagesVars

LEMMA StepCases ==
  [PagesNext]_pagesVars => \/ Quiet \/ Submit
                           \/ \E id \in Switches : Toggle(id)
                           \/ \E q \in requests : Arrive(q)
BY DEF PagesNext, Quiet

\* Every request left is one there was, its sender perhaps gone.
Descends(f) ==
  \A q \in requests' : \E r \in requests :
    /\ q = f[r] /\ q.kind = r.kind /\ q.id = r.id /\ q.rule = r.rule
    /\ q.value = r.value /\ q.answer = r.answer
    /\ q.heard => r.heard
    /\ r.heard \/ r.answer = Null => q.heard \/ q.answer = Null

LEMMA QuietRequests == PagesInv /\ Quiet => \E f : Descends(f)
<1> SUFFICES ASSUME PagesInv, Quiet PROVE \E f : Descends(f)
  OBVIOUS
<1>1. requests \subseteq Request
  BY DEF PagesInv, PagesTypes
<1>2. ASSUME NEW gone, Abandon(gone) PROVE \E f : Descends(f)
  <2> DEFINE f == [r \in requests |-> silenced(r, gone)]
  <2>1. \A r \in requests : f[r] = silenced(r, gone)
    OBVIOUS
  <2> HIDE DEF f
  <2>2. Descends(f)
    <3> SUFFICES ASSUME NEW q \in requests'
                 PROVE  \E r \in requests :
                          /\ q = f[r] /\ q.kind = r.kind /\ q.id = r.id /\ q.rule = r.rule
                          /\ q.value = r.value /\ q.answer = r.answer
                          /\ q.heard => r.heard
                          /\ r.heard \/ r.answer = Null => q.heard \/ q.answer = Null
      BY DEF Descends
    <3>1. PICK r \in requests :
              /\ q = silenced(r, gone)
              /\ q.kind = r.kind /\ q.id = r.id /\ q.rule = r.rule
              /\ q.value = r.value /\ q.answer = r.answer
              /\ q.heard = (r.heard /\ r \notin gone)
              /\ q.heard \/ q.answer = Null
      BY <1>1, <1>2, Abandoned
    <3> QED BY <2>1, <3>1
  <2> QED BY <2>2
<1>3. ASSUME requests' \subseteq requests PROVE \E f : Descends(f)
  <2>1. Descends([r \in requests |-> r])
    BY <1>3 DEF Descends
  <2> QED BY <2>1
<1>4. ASSUME NEW q \in requests, q.answer = Null,
             requests' = (requests \ {q}) \cup {[q EXCEPT !.heard = FALSE]}
      PROVE  \E f : Descends(f)
  <2> DEFINE s == [q EXCEPT !.heard = FALSE]
             f == [r \in requests |-> IF r = q THEN s ELSE r]
  <2>1. /\ s.heard = FALSE /\ s.answer = q.answer
        /\ s.kind = q.kind /\ s.id = q.id /\ s.rule = q.rule /\ s.value = q.value
    BY <1>1, Silenced
  <2> HIDE DEF s
  <2>2. Descends(f)
    BY <1>4, <2>1 DEF Descends, s
  <2> QED BY <2>2
<1>5. CASE \E gone : Abandon(gone)
  BY <1>2, <1>5
<1>6. CASE requests' \subseteq requests
  BY <1>3, <1>6
<1>7. CASE \E q \in requests : Lose(q)
  BY <1>3, <1>4, <1>7 DEF Lose
<1>8. \/ \E gone : Abandon(gone) \/ requests' \subseteq requests \/ \E q \in requests : Lose(q)
  <2>1. Load \/ Refresh \/ RefreshFails => \E gone : Abandon(gone)
    BY DEF Load, Refresh, RefreshFails
  <2>2. ASSUME NEW q \in requests, Reply(q) PROVE requests' \subseteq requests
    BY <2>2 DEF Reply
  <2>3. \/ Open \/ Close \/ (\E f \in Forms : Fill(f)) \/ UNCHANGED pagesVars
        \/ \E id \in Switches : OtherPatch(id) \/ OtherDelete(id)
        => requests' \subseteq requests
    BY DEF Open, Close, Fill, OtherPatch, OtherDelete, pagesVars
  <2> QED BY <2>1, <2>2, <2>3 DEF Quiet
<1> QED BY <1>5, <1>6, <1>7, <1>8

LEMMA QuietPage ==
  ASSUME PagesInv, Quiet
  PROVE  /\ made' = made /\ ids(table') \subseteq ids(table)
         /\ \A id \in Switches : page[id] = Null /\ id \notin ids(table) => page'[id] = Null
<1>1. CASE Load \/ Refresh \/ RefreshFails
  BY <1>1 DEF Load, Refresh, RefreshFails, mounted
<1>2. CASE Open \/ Close \/ (\E f \in Forms : Fill(f)) \/ UNCHANGED pagesVars
  BY <1>2 DEF Open, Close, Fill, pagesVars
<1>3. ASSUME NEW id \in Switches, OtherPatch(id) \/ OtherDelete(id)
      PROVE  made' = made /\ page' = page /\ ids(table') \subseteq ids(table)
  <2> DEFINE e == ~stored(table, id)
  <2>1. e \in BOOLEAN
    BY DEF stored
  <2>2. ids(table') \subseteq ids(table)
    <3> HIDE DEF e
    <3>1. /\ ids(patch(table, id, e).rows) = ids(table)
          /\ ids(delete(table, id).rows) \subseteq ids(table)
      BY <2>1, PatchKeeps, DeleteKeeps DEF PagesInv, PagesTypes
    <3>2. table' = patch(table, id, e).rows \/ table' = delete(table, id).rows
      BY <1>3 DEF OtherPatch, OtherDelete, e
    <3> QED BY <3>1, <3>2
  <2> QED BY <1>3, <2>2 DEF OtherPatch, OtherDelete
<1>4. ASSUME NEW q \in requests, Reply(q) \/ Lose(q)
      PROVE  /\ made' = made /\ table' = table
             /\ \A id \in Switches : page[id] = Null => page'[id] = Null
  <2>1. made' = made /\ table' = table /\ q.heard /\ (Confirmed(q) \/ Rejected(q))
    BY <1>4 DEF Reply, Lose
  <2>2. q.kind = "patch" => q.id \in Switches /\ page[q.id] # Null
    BY <2>1 DEF PagesInv, SwitchInv, PatchIsSound, patches
  <2>3. page' = page \/ (q.kind = "patch" /\ \A id \in Switches \ {q.id} : page'[id] = page[id])
    BY <2>1 DEF PagesInv, PagesTypes, Confirmed, Rejected
  <2> QED BY <2>1, <2>2, <2>3
<1> QED BY <1>1, <1>2, <1>3, <1>4 DEF Quiet

\* The answered request takes the place of the one the server took.
LEMMA ArriveRequests ==
  ASSUME PagesInv, NEW p \in requests, Arrive(p)
  PROVE  /\ p.answer = Null
         /\ \A q \in requests' :
              \/ q \in requests /\ q # p
              \/ /\ p.heard /\ q = [p EXCEPT !.answer = outcome(p).ok]
                 /\ q.kind = p.kind /\ q.id = p.id /\ q.rule = p.rule /\ q.value = p.value
                 /\ q.heard /\ q.answer = outcome(p).ok
                 /\ q.answer # Null /\ q.answer \in BOOLEAN
         /\ ids(table') = IF p.kind = "post" THEN ids(table) \cup {p.id} ELSE ids(table)
<1>1. PagesTypes /\ IdsAreFresh /\ p \in Request
  BY DEF PagesInv, PagesTypes
<1>2. p.answer = Null
  BY DEF Arrive
<1>3. /\ outcome(p).ok \in BOOLEAN
      /\ ids(outcome(p).rows) = IF p.kind = "post" THEN ids(table) \cup {p.id} ELSE ids(table)
  BY <1>1, RequestTable
<1>4. /\ table' = outcome(p).rows
      /\ requests' = (requests \ {p})
           \cup (IF p.heard THEN {[p EXCEPT !.answer = outcome(p).ok]} ELSE {})
  BY <1>1, ArriveTable
<1>5. Null \notin BOOLEAN
  BY PagesAssumption
<1> DEFINE s == [p EXCEPT !.answer = outcome(p).ok]
<1>6. /\ s.heard = p.heard /\ s.answer = outcome(p).ok
      /\ s.kind = p.kind /\ s.id = p.id /\ s.rule = p.rule /\ s.value = p.value
  BY <1>1, <1>3, Answered
<1> HIDE DEF s
<1>7. ASSUME NEW q \in requests'
      PROVE  (q \in requests /\ q # p) \/ (p.heard /\ q = s)
  BY <1>4 DEF s
<1>8. ids(table') = ids(outcome(p).rows)
  BY <1>4
<1> QED BY <1>2, <1>3, <1>5, <1>6, <1>7, <1>8 DEF s

LEMMA UnbornStays ==
  ASSUME PagesInv, NEW id, Unborn(id),
         \/ Quiet \/ Submit \/ \E t \in Switches : Toggle(t)
         \/ \E p \in requests : Arrive(p) /\ ~(p.kind = "post" /\ p.id = id)
  PROVE  Unborn(id)'
<1>1. CASE Quiet
  <2>1. PICK f : Descends(f)
    BY <1>1, QuietRequests
  <2>2. \A q \in patches' : q.id # id
    BY <2>1 DEF Descends, patches, Unborn
  <2> QED BY <1>1, <2>2, QuietPage DEF Unborn
<1>2. CASE Submit
  <2>1. Post(buildRule(dialog.form, uuids[Len(made) + 1])).kind = "post"
    BY DEF Post
  <2>2. \A q \in patches' : q.id # id
    BY <1>2, <2>1 DEF Submit, patches, Unborn
  <2> QED BY <1>2, <2>2 DEF Unborn, Submit, ids
<1>3. ASSUME NEW t \in Switches, Toggle(t) PROVE Unborn(id)'
  <2>1. t # id
    BY <1>3 DEF Toggle, Unborn
  <2>2. Patch(t, ~page[t].on).id = t
    BY DEF Patch
  <2>3. \A q \in patches' : q.id # id
    BY <1>3, <2>1, <2>2 DEF Toggle, patches, Unborn
  <2> QED BY <1>3, <2>1, <2>3 DEF Unborn, Toggle, ids, PagesInv, PagesTypes
<1>4. ASSUME NEW p \in requests, Arrive(p), ~(p.kind = "post" /\ p.id = id)
      PROVE  Unborn(id)'
  <2>1. page' = page
    BY <1>4 DEF Arrive
  <2>2. id \notin ids(table')
    BY <1>4, ArriveRequests DEF Unborn
  <2>3. \A q \in patches' : q.id # id
    BY <1>4, ArriveRequests DEF patches, Unborn
  <2> QED BY <2>1, <2>2, <2>3 DEF Unborn
<1> QED BY <1>1, <1>2, <1>3, <1>4

LEMMA StepFresh == PagesInv /\ [PagesNext]_pagesVars => IdsAreFresh'
<1> SUFFICES ASSUME PagesInv, [PagesNext]_pagesVars PROVE IdsAreFresh'
  OBVIOUS
<1> USE DEF posts
<1>1. PagesTypes /\ IdsAreFresh /\ Len(made) \in Nat
  BY DEF PagesInv, PagesTypes
<1>2. CASE Quiet
  <2>1. PICK f : Descends(f)
    BY <1>2, QuietRequests
  <2>2. made' = made
    BY <1>2, QuietPage
  <2>3. \A id : Unborn(id) => Unborn(id)'
    BY <1>2, UnbornStays
  <2>4. \A q \in posts' : \E r \in posts :
          /\ q = f[r] /\ q.id = r.id /\ q.rule = r.rule /\ q.answer = r.answer
          /\ r.heard \/ r.answer = Null => q.heard \/ q.answer = Null
    BY <2>1 DEF Descends
  <2> HIDE DEF posts
  <2>5. \A q, r \in posts' : q.id = r.id => q = r
    BY <1>1, <2>4 DEF IdsAreFresh
  <2>6. ASSUME NEW q \in posts' PROVE PostIsFresh(q)'
    <3>1. PICK r \in posts :
            /\ q.id = r.id /\ q.rule = r.rule /\ q.answer = r.answer
            /\ r.heard \/ r.answer = Null => q.heard \/ q.answer = Null
      BY <2>4
    <3>2. PostIsFresh(r)
      BY <1>1 DEF IdsAreFresh
    <3>3. FromForm(q)'
      BY <2>2, <3>1, <3>2 DEF PostIsFresh, FromForm
    <3> QED BY <2>3, <3>1, <3>2, <3>3 DEF PostIsFresh
  <2>7. \A j \in DOMAIN uuids : j > Len(made') =>
          Unborn(uuids[j])' /\ \A q \in posts' : q.id # uuids[j]
    BY <1>1, <2>2, <2>3, <2>4 DEF IdsAreFresh
  <2> QED BY <2>5, <2>6, <2>7 DEF IdsAreFresh
<1>3. ASSUME NEW t \in Switches, Toggle(t) PROVE IdsAreFresh'
  <2>1. \A id : Unborn(id) => Unborn(id)'
    BY <1>3, UnbornStays
  <2>2. made' = made /\ posts' = posts
    <3>1. Patch(t, ~page[t].on).kind # "post"
      BY DEF Patch
    <3> QED BY <1>3, <3>1 DEF Toggle
  <2> HIDE DEF posts
  <2> QED BY <1>1, <2>1, <2>2 DEF IdsAreFresh, PostIsFresh, FromForm
<1>4. CASE Submit
  <2>1. \A id : Unborn(id) => Unborn(id)'
    BY <1>4, UnbornStays
  <2>2. PICK n \in DOMAIN uuids : n = Len(made) + 1 /\ n > Len(made) /\ uuids[n] \in RuleIds
    BY <1>1, <1>4, Uuids DEF PagesTypes, Submit
  <2> DEFINE entry == [form |-> dialog.form, filling |-> dialog.filling]
             new == Post(buildRule(dialog.form, uuids[n]))
  <2>3. /\ new.kind = "post" /\ new.id = uuids[n] /\ new.rule = buildRule(dialog.form, uuids[n])
        /\ new.answer = Null /\ new.heard = TRUE /\ new.rule.id = uuids[n]
    <3>1. dialog.form \in Forms \cup {BlankForm}
      BY <1>1 DEF PagesTypes, Dialogs
    <3>2. buildRule(dialog.form, uuids[n]).id = uuids[n]
      BY <2>2, MadeIsRule
    <3>3. /\ new.kind = "post" /\ new.id = uuids[n] /\ new.rule = buildRule(dialog.form, uuids[n])
          /\ new.answer = Null /\ new.heard = TRUE
      BY <2>2, <3>1, NewPost
    <3> QED BY <3>2, <3>3
  <2>4. made' = Append(made, entry) /\ posts' = posts \cup {new}
    BY <1>4, <2>2, <2>3 DEF Submit
  <2>5. /\ DOMAIN made' = 1 .. n /\ Len(made') = n /\ made'[n] = entry
        /\ \A i \in DOMAIN made : i \in DOMAIN made' /\ made'[i] = made[i]
    BY <1>1, <2>2, <2>4 DEF PagesTypes
  <2>6. entry.form = dialog.form /\ n \in 1 .. n
    BY <2>2, <1>1
  <2> HIDE DEF posts, entry, new
  <2>7. \A q \in posts : q.id # uuids[n]
    BY <1>1, <2>2 DEF IdsAreFresh
  <2>8. \A q, r \in posts' : q.id = r.id => q = r
    BY <1>1, <2>3, <2>4, <2>7 DEF IdsAreFresh
  <2>9. ASSUME NEW q \in posts'
        PROVE  PostIsFresh(q)'
    <3>1. CASE q \in posts
      <4>1. PostIsFresh(q)
        BY <1>1, <3>1 DEF IdsAreFresh
      <4>2. FromForm(q)'
        BY <2>5, <4>1 DEF PostIsFresh, FromForm
      <4> QED BY <2>1, <4>1, <4>2 DEF PostIsFresh
    <3>2. CASE q = new
      <4>1. Null # FALSE
        BY PagesAssumption
      <4>2. FromForm(q)'
        BY <2>3, <2>5, <2>6, <3>2 DEF FromForm
      <4>3. Unborn(uuids[n])'
        <5>1. Unborn(uuids[n])
          BY <1>1, <2>2 DEF IdsAreFresh
        <5> QED BY <2>1, <5>1
      <4> QED BY <2>3, <3>2, <4>1, <4>2, <4>3 DEF PostIsFresh
    <3> QED BY <2>4, <3>1, <3>2
  <2>10. ASSUME NEW j \in DOMAIN uuids, j > Len(made')
         PROVE  Unborn(uuids[j])' /\ \A q \in posts' : q.id # uuids[j]
    <3>1. j > Len(made) /\ j # n
      BY <1>1, <2>2, <2>5, <2>10, Uuids
    <3>2. uuids[j] # uuids[n]
      BY <2>2, <3>1, PagesAssumption
    <3> QED BY <1>1, <2>1, <2>3, <2>4, <3>1, <3>2 DEF IdsAreFresh
  <2> QED BY <2>8, <2>9, <2>10 DEF IdsAreFresh
<1>5. ASSUME NEW p \in requests, Arrive(p) PROVE IdsAreFresh'
  <2>1. \A id : Unborn(id) /\ ~(p.kind = "post" /\ p.id = id) => Unborn(id)'
    BY <1>5, UnbornStays
  <2>2. made' = made
    BY <1>5 DEF Arrive
  <2>3. p.kind = "post" => outcome(p).ok = TRUE
    <3>1. p.kind = "post" => Unborn(p.id)
      BY <1>1, <1>5 DEF Arrive, IdsAreFresh, PostIsFresh
    <3> QED BY <1>1, <3>1, RequestTable DEF Unborn
  <2>4. \A q \in posts' : \/ q \in posts /\ q # p
                          \/ /\ p \in posts /\ q = [p EXCEPT !.answer = outcome(p).ok]
                             /\ q.id = p.id /\ q.rule = p.rule
                             /\ q.heard /\ q.answer = TRUE /\ q.answer # Null
    BY <1>5, <2>3, ArriveRequests
  <2>5. p \in posts \/ p.kind # "post"
    OBVIOUS
  <2> HIDE DEF posts
  <2>6. \A q \in posts : q # p /\ p \in posts => q.id # p.id
    BY <1>1 DEF IdsAreFresh
  <2>7. \A q, r \in posts' : q.id = r.id => q = r
    BY <1>1, <2>4, <2>6 DEF IdsAreFresh
  <2>8. ASSUME NEW q \in posts' PROVE PostIsFresh(q)'
    <3>1. CASE q \in posts /\ q # p
      <4>1. PostIsFresh(q)
        BY <1>1, <3>1 DEF IdsAreFresh
      <4>2. FromForm(q)'
        BY <2>2, <4>1 DEF PostIsFresh, FromForm
      <4>3. q.answer = Null => Unborn(q.id)'
        BY <2>1, <2>5, <2>6, <3>1, <4>1 DEF PostIsFresh
      <4> QED BY <4>1, <4>2, <4>3 DEF PostIsFresh
    <3>2. CASE /\ p \in posts /\ q = [p EXCEPT !.answer = outcome(p).ok]
               /\ q.id = p.id /\ q.rule = p.rule
               /\ q.heard /\ q.answer = TRUE /\ q.answer # Null
      <4>1. PostIsFresh(p)
        BY <1>1, <3>2 DEF IdsAreFresh
      <4>2. FromForm(q)'
        BY <2>2, <3>2, <4>1 DEF PostIsFresh, FromForm
      <4> QED BY <3>2, <4>1, <4>2 DEF PostIsFresh
    <3> QED BY <2>4, <3>1, <3>2
  <2>9. \A j \in DOMAIN uuids : j > Len(made') =>
          Unborn(uuids[j])' /\ \A q \in posts' : q.id # uuids[j]
    <3>1. ASSUME NEW j \in DOMAIN uuids, j > Len(made), p \in posts PROVE p.id # uuids[j]
      BY <1>1, <3>1 DEF IdsAreFresh
    <3> QED BY <1>1, <2>1, <2>2, <2>4, <2>5, <3>1 DEF IdsAreFresh
  <2> QED BY <2>7, <2>8, <2>9 DEF IdsAreFresh
<1> QED BY <1>2, <1>3, <1>4, <1>5, StepCases

-----------------------------------------------------------------------------
(* The policy page: the rows are the rules of the forms                    *)

LEMMA EnabledTwice ==
  ASSUME NEW r, IsRule(r), NEW e \in BOOLEAN
  PROVE  [[r EXCEPT !.enabled = e] EXCEPT !.enabled = TRUE] = [r EXCEPT !.enabled = TRUE]
BY DEF IsRule

LEMMA BuiltEnabled ==
  ASSUME NEW f, NEW id
  PROVE  [buildRule(f, id) EXCEPT !.enabled = TRUE] = buildRule(f, id)
<1>1. ASSUME NEW a, NEW t, NEW n, NEW c, NEW e
      PROVE  [[id |-> a, type |-> t, toolName |-> n, enabled |-> e, config |-> c]
                EXCEPT !.enabled = e]
               = [id |-> a, type |-> t, toolName |-> n, enabled |-> e, config |-> c]
  OBVIOUS
<1>2. PICK e : e = TRUE
  OBVIOUS
<1>3. PICK n : buildRule(f, id) = [id |-> id, type |-> f.type, toolName |-> n,
                                   enabled |-> e, config |-> config(f)]
  BY <1>2 DEF buildRule
<1>4. [buildRule(f, id) EXCEPT !.enabled = e] = buildRule(f, id)
  BY <1>1, <1>3
<1> QED BY <1>2, <1>4

\* What the i-th form makes of a row with its id.
IsOfForm(r, i) == [r EXCEPT !.enabled = TRUE] = buildRule(made[i].form, uuids[i])

LEMMA PatchedRows ==
  ASSUME PagesTypes, RulesAreForms, NEW id, NEW e \in BOOLEAN,
         NEW i \in DOMAIN made, NEW r \in patch(table, id, e).rows, r.id = uuids[i]
  PROVE  IsOfForm(r, i)
<1>1. PICK old \in table : r = IF old.id = id THEN [old EXCEPT !.enabled = e] ELSE old
  BY DEF patch
<1>2. IsRule(old)
  BY DEF PagesTypes, IsTable
<1>3. [old EXCEPT !.enabled = e].id = old.id
  BY <1>2, PatchedRule
<1>4. r.id = old.id
  BY <1>1, <1>3
<1>5. IsOfForm(old, i)
  BY <1>4 DEF RulesAreForms, IsOfForm
<1>6. [r EXCEPT !.enabled = TRUE] = [old EXCEPT !.enabled = TRUE]
  BY <1>1, <1>2, EnabledTwice
<1> QED BY <1>5, <1>6 DEF IsOfForm

LEMMA StepForms == PagesInv /\ [PagesNext]_pagesVars => RulesAreForms'
<1> SUFFICES ASSUME PagesInv, [PagesNext]_pagesVars PROVE RulesAreForms'
  OBVIOUS
<1>1. PagesTypes /\ IdsAreFresh /\ RulesAreForms /\ Len(made) \in Nat
  BY DEF PagesInv, PagesTypes
<1>2. ASSUME made' = made,
             \A i \in DOMAIN made, r \in table' : r.id = uuids[i] => IsOfForm(r, i)
      PROVE  RulesAreForms'
  BY <1>2 DEF RulesAreForms, IsOfForm
<1>3. CASE UNCHANGED <<table, made>>
  BY <1>1, <1>3 DEF RulesAreForms
<1>4. CASE Submit
  <2>1. PICK n \in DOMAIN uuids : n = Len(made) + 1 /\ n > Len(made)
    BY <1>1, <1>4, Uuids DEF PagesTypes, Submit
  <2>2. uuids[n] \notin ids(table) /\ table' = table
    BY <1>1, <1>4, <2>1 DEF IdsAreFresh, Unborn, Submit
  <2>3. \A i \in DOMAIN made' : i = n \/ (i \in DOMAIN made /\ made'[i] = made[i])
    BY <1>1, <1>4, <2>1 DEF PagesTypes, Submit
  <2> QED BY <1>1, <2>2, <2>3 DEF RulesAreForms, ids
<1>5. ASSUME NEW id \in Switches, OtherPatch(id) PROVE RulesAreForms'
  <2> DEFINE e == ~stored(table, id)
  <2>1. e \in BOOLEAN /\ table' = patch(table, id, e).rows /\ made' = made
    BY <1>5 DEF OtherPatch, stored
  <2> HIDE DEF e
  <2>2. \A i \in DOMAIN made, r \in table' : r.id = uuids[i] => IsOfForm(r, i)
    BY <1>1, <2>1, PatchedRows
  <2> QED BY <1>2, <2>1, <2>2
<1>6. ASSUME NEW id \in Switches, OtherDelete(id) PROVE RulesAreForms'
  <2>1. table' \subseteq table /\ made' = made
    BY <1>6 DEF OtherDelete, delete
  <2> QED BY <1>1, <2>1 DEF RulesAreForms
<1>7. ASSUME NEW q \in requests, Arrive(q) PROVE RulesAreForms'
  <2>1. made' = made /\ table' = outcome(q).rows
    BY <1>1, <1>7, ArriveTable
  <2>2. CASE q.kind # "post"
    <3>1. q.value \in BOOLEAN /\ table' = patch(table, q.id, q.value).rows
      BY <1>1, <2>1, <2>2, Fields DEF outcome, PagesTypes
    <3>2. \A i \in DOMAIN made, r \in table' : r.id = uuids[i] => IsOfForm(r, i)
      BY <1>1, <3>1, PatchedRows
    <3> QED BY <1>2, <2>1, <3>2
  <2>3. CASE q.kind = "post"
    <3>1. PostIsFresh(q)
      BY <1>1, <2>3 DEF IdsAreFresh, posts
    <3>2. PICK k \in DOMAIN made : q.rule = buildRule(made[k].form, uuids[k])
      BY <3>1 DEF PostIsFresh, FromForm
    <3>3. k \in DOMAIN uuids /\ \A i \in DOMAIN made : i \in DOMAIN uuids
      BY <1>1, Uuids DEF PagesTypes
    <3>4. q.rule.id = uuids[k] /\ IsOfForm(q.rule, k)
      <4>1. uuids[k] \in RuleIds
        BY <3>3, Uuids
      <4>2. q.rule.id = uuids[k]
        BY <3>2, <4>1, MadeIsRule
      <4>3. [q.rule EXCEPT !.enabled = TRUE] = q.rule
        BY <3>2, BuiltEnabled
      <4> QED BY <3>2, <4>2, <4>3 DEF IsOfForm
    <3>5. table' = table \/ table' = table \cup {q.rule}
      BY <2>1, <2>3 DEF outcome, post
    <3>6. ASSUME NEW i \in DOMAIN made, NEW r \in table', r.id = uuids[i] PROVE IsOfForm(r, i)
      <4>1. CASE r \in table
        BY <1>1, <3>6, <4>1 DEF RulesAreForms, IsOfForm
      <4>2. CASE r = q.rule
        <5>1. i = k
          BY <3>3, <3>4, <3>6, <4>2, PagesAssumption
        <5> QED BY <3>4, <4>2, <5>1
      <4> QED BY <3>5, <4>1, <4>2
    <3> QED BY <1>2, <2>1, <3>6
  <2> QED BY <2>2, <2>3
<1>8. \/ UNCHANGED <<table, made>> \/ Submit
      \/ \E id \in Switches : OtherPatch(id) \/ OtherDelete(id)
      \/ \E q \in requests : Arrive(q)
  BY DEF PagesNext, pagesVars, Load, Refresh, RefreshFails, Toggle, Open, Close, Fill, Reply, Lose
<1> QED BY <1>3, <1>4, <1>5, <1>6, <1>7, <1>8

\* The engine rules by a rule of the dialog as the labels of its form say.
LEMMA FormRule ==
  ASSUME NEW f, IsForm(f), NEW id \in RuleIds, NEW p, p.suspicious = FALSE, NEW usage
  PROVE  evaluate(p, <<buildRule(f, id)>>, usage, FALSE).status = Says(f, p, usage)
<1> DEFINE r == buildRule(f, id)
           status == evaluate(p, <<r>>, usage, FALSE).status
           named == f.toolName \in {Null, Wildcard, p.toolName}
<1>1. IsRule(r) /\ r.id = id
  BY MadeIsRule
<1>2. IsRuleList(<<r>>) /\ RuleSet(<<r>>) = {r}
  BY <1>1 DEF IsRuleList, RuleSet, IsRule
<1>3. \A open \in BOOLEAN : evaluate(p, <<r>>, usage, open).status
                            = ReferenceStatus(p, RuleSet(<<r>>), usage, open)
  <2> HIDE DEF r
  <2>1. p.suspicious \in BOOLEAN
    OBVIOUS
  <2> QED BY <1>2, <2>1, StatusIsOrderFree
<1>4. status
        = IF Forbidding(p, {r}, usage) # {} THEN "DENY"
          ELSE IF Escalating(p, {r}) # {} THEN "PENDING_APPROVAL" ELSE "ALLOW"
  <2> HIDE DEF r
  <2>1. \A open \in BOOLEAN :
          ReferenceStatus(p, {r}, usage, open)
            = IF open \/ Forbidding(p, {r}, usage) # {} THEN "DENY"
              ELSE IF Escalating(p, {r}) # {} THEN "PENDING_APPROVAL" ELSE "ALLOW"
    BY DEF ReferenceStatus
  <2>2. \A open \in BOOLEAN : ~open =>
          evaluate(p, <<r>>, usage, open).status
            = IF Forbidding(p, {r}, usage) # {} THEN "DENY"
              ELSE IF Escalating(p, {r}) # {} THEN "PENDING_APPROVAL" ELSE "ALLOW"
    BY <1>2, <1>3, <2>1
  <2> QED BY <2>2
<1>5. /\ r.type = f.type /\ r.enabled = TRUE /\ r.config = config(f)
      /\ toolMatches(r.toolName, p.toolName) <=> named
  BY DEF buildRule, toolMatches
<1> SUFFICES status = Says(f, p, usage)
  OBVIOUS
<1> HIDE DEF r, status
<1>6. /\ (Forbidding(p, {r}, usage) # {}) <=>
           \/ applies(r, "BLOCK_TOOL", p)
           \/ /\ applies(r, "INPUT_VALIDATION", p)
              /\ r.config.field \in DOMAIN p.args
              /\ rejects(r.config, p.args[r.config.field])
           \/ applies(r, "BUDGET_LIMIT", p) /\ exhausted(r.config, usage)
      /\ (Escalating(p, {r}) # {}) <=> applies(r, "REQUIRE_APPROVAL", p)
  BY <1>5 DEF Forbidding, Escalating
<1>7. \A t : applies(r, t, p) <=> f.type = t /\ named
  BY <1>5 DEF applies
<1> HIDE DEF named
<1>8. CASE ~named
  <2>1. Says(f, p, usage) = "ALLOW"
    BY <1>8 DEF Says, named
  <2> QED BY <1>4, <1>6, <1>7, <1>8, <2>1
<1>9. CASE named /\ f.type \in {"BLOCK_TOOL", "REQUIRE_APPROVAL"}
  <2>1. Says(f, p, usage) = IF f.type = "BLOCK_TOOL" THEN "DENY" ELSE "PENDING_APPROVAL"
    BY <1>9 DEF Says, named
  <2> QED BY <1>4, <1>6, <1>7, <1>9, <2>1
<1>10. CASE named /\ f.type = "INPUT_VALIDATION"
  <2>1. /\ r.config.field = f.field /\ r.config.pattern = f.pattern
        /\ r.config.allowedPrefix = f.allowedPrefix /\ r.config.maxLength = f.maxLength
    BY <1>5, <1>10 DEF config
  <2> DEFINE breaks == f.field \in DOMAIN p.args /\ rejects(r.config, p.args[f.field])
  <2>2. Says(f, p, usage) = IF breaks THEN "DENY" ELSE "ALLOW"
    BY <1>10, <2>1 DEF Says, named, rejects
  <2> QED BY <1>4, <1>6, <1>7, <1>10, <2>1, <2>2
<1>11. CASE named /\ f.type = "BUDGET_LIMIT"
  <2>1. r.config.maxTokens = f.maxTokens /\ r.config.maxToolCalls = f.maxToolCalls
    BY <1>5, <1>11 DEF config
  <2>2. Says(f, p, usage) = IF exhausted(r.config, usage) THEN "DENY" ELSE "ALLOW"
    BY <1>11, <2>1 DEF Says, named, exhausted
  <2> QED BY <1>4, <1>6, <1>7, <1>11, <2>1, <2>2
<1> QED BY <1>8, <1>9, <1>10, <1>11 DEF IsForm

-----------------------------------------------------------------------------
(* The policy page: the switches                                           *)

LEMMA StoredPatch ==
  ASSUME NEW rows, IsTable(rows), NEW id, NEW e \in BOOLEAN
  PROVE  /\ id \in ids(rows) => stored(patch(rows, id, e).rows, id) = e
         /\ \A other : other # id => stored(patch(rows, id, e).rows, other) = stored(rows, other)
<1> DEFINE patched(r) == IF r.id = id THEN [r EXCEPT !.enabled = e] ELSE r
<1>1. \A r \in rows : /\ patched(r).id = r.id
                      /\ r.id = id => patched(r).enabled = e
                      /\ r.id # id => patched(r) = r
  BY PatchedRule DEF IsTable
<1>2. patch(rows, id, e).rows = {patched(r) : r \in rows}
  BY DEF patch
<1> HIDE DEF patched
<1> QED BY <1>1, <1>2 DEF ids, stored

LEMMA StoredDelete ==
  \A rows, id, other : other # id => stored(delete(rows, id).rows, other) = stored(rows, other)
BY DEF stored, delete

LEMMA StoredPost ==
  \A rows, rule, other : other # rule.id => stored(post(rows, rule).rows, other) = stored(rows, other)
BY DEF stored, post

LEMMA StoredIsBoolean == \A rows, id : stored(rows, id) \in BOOLEAN
BY DEF stored

\* Steps that change nothing of the switches.
LEMMA SwitchesStay ==
  ASSUME SwitchInv, UNCHANGED <<table, page, doubt>>, patches' \subseteq patches
  PROVE  SwitchInv'
BY DEF SwitchInv, PatchIsSound, ToggleTellsTheTruth

LEMMA ToggleSwitch ==
  ASSUME PagesInv, NEW t \in Switches, Toggle(t)
  PROVE  SwitchInv'
<1>1. /\ page \in [Switches -> Switch] /\ SwitchInv
      /\ page[t] # Null /\ page[t].busy = FALSE /\ page[t].on \in BOOLEAN
  BY DEF PagesInv, PagesTypes, Switch, Toggle
<1>2. PICK on \in BOOLEAN : on = ~page[t].on
  BY <1>1
<1>3. PICK new : /\ new = Patch(t, on)
                 /\ new.kind = "patch" /\ new.id = t /\ new.value = on
                 /\ new.answer = Null /\ new.heard = TRUE
  BY NewPatch
<1>4. /\ patches' = patches \cup {new}
      /\ page'[t] = [on |-> on, busy |-> TRUE] /\ table' = table /\ doubt' = doubt
      /\ \A id \in Switches \ {t} : page'[id] = page[id]
  BY <1>1, <1>2, <1>3 DEF patches, Toggle
<1>5. page'[t] # Null /\ page'[t].busy /\ page'[t].on = on
  <2>1. page'[t] \in [on : BOOLEAN, busy : BOOLEAN]
    BY <1>4
  <2>2. page'[t] # Null
    BY <2>1, PagesAssumption
  <2>3. page'[t].busy /\ page'[t].on = on
    BY <1>4
  <2> QED BY <2>2, <2>3
<1>6. t \notin doubt /\ t \in ids(table) => stored(table, t) = page[t].on
  BY <1>1 DEF SwitchInv, ToggleTellsTheTruth
<1>7. \A q \in patches : q.heard => q.id # t
  BY <1>1 DEF SwitchInv, PatchIsSound
<1>8. ASSUME NEW q \in patches PROVE PatchIsSound(q)'
  <2>1. PatchIsSound(q)
    BY <1>1 DEF SwitchInv
  <2> QED BY <1>4, <1>7, <2>1 DEF PatchIsSound
<1>9. PatchIsSound(new)'
  <2>1. Null # FALSE
    BY PagesAssumption
  <2> QED BY <1>1, <1>2, <1>3, <1>4, <1>5, <1>6, <2>1 DEF PatchIsSound
<1>10. \A q, r \in patches' : q.heard /\ r.heard /\ q.id = r.id => q = r
  BY <1>1, <1>3, <1>4, <1>7 DEF SwitchInv
<1>11. ToggleTellsTheTruth'
  BY <1>1, <1>4, <1>5 DEF SwitchInv, ToggleTellsTheTruth
<1> QED BY <1>4, <1>8, <1>9, <1>10, <1>11 DEF SwitchInv

LEMMA LoadSwitch ==
  ASSUME PagesInv, Load \/ RefreshFails
  PROVE  SwitchInv'
<1>1. PICK gone : Abandon(gone) /\ {q \in requests : q.kind = "patch"} \subseteq gone
  BY DEF Load, RefreshFails
<1>2. \A q \in patches' : q.kind = "patch" /\ ~q.heard /\ q.answer = Null /\ q.id \in Switches
  <2>1. requests \subseteq Request /\ SwitchInv
    BY DEF PagesInv, PagesTypes
  <2>2. \A q \in requests' : \E r \in requests :
          /\ q.kind = r.kind /\ q.id = r.id /\ q.heard = (r.heard /\ r \notin gone)
          /\ q.heard \/ q.answer = Null
    BY <1>1, <2>1, Abandoned
  <2>3. \A r \in requests : r.kind = "patch" => r \in gone /\ r.id \in Switches
    BY <1>1, <2>1 DEF patches, SwitchInv, PatchIsSound
  <2> SUFFICES ASSUME NEW q \in requests', q.kind = "patch"
               PROVE  ~q.heard /\ q.answer = Null /\ q.id \in Switches
    BY DEF patches
  <2>4. PICK r \in requests :
          /\ q.kind = r.kind /\ q.id = r.id /\ q.heard = (r.heard /\ r \notin gone)
          /\ q.heard \/ q.answer = Null
    BY <2>2
  <2> QED BY <2>3, <2>4
<1>3. ToggleTellsTheTruth'
  <2>1. \A id \in Switches : page'[id] # Null /\ id \in ids(table) => page'[id].on = stored(table, id)
    BY DEF Load, RefreshFails, mounted
  <2>2. table' = table
    BY DEF Load, RefreshFails
  <2> QED BY <2>1, <2>2 DEF ToggleTellsTheTruth
<1>4. Null # FALSE
  BY PagesAssumption
<1> QED BY <1>2, <1>3, <1>4 DEF SwitchInv, PatchIsSound

LEMMA RefreshSwitch ==
  ASSUME PagesInv, Refresh
  PROVE  SwitchInv'
<1> DEFINE gone == {q \in requests : q.kind = "patch" /\ q.id \notin ids(table)}
<1>1. requests \subseteq Request /\ SwitchInv /\ Abandon(gone)
  BY DEF PagesInv, PagesTypes, Refresh
<1>2. /\ table' = table
      /\ \A id \in Switches : id \in ids(table) /\ page[id] # Null =>
           page'[id] = page[id] /\ (id \in doubt' <=> id \in doubt)
      /\ \A id \in Switches : page[id] = Null => page'[id] = mounted(id)
  BY DEF Refresh
<1>3. ASSUME NEW q \in patches'
      PROVE  \E r \in patches : /\ q.id = r.id /\ q.value = r.value /\ q.answer = r.answer
                                /\ (q.heard \/ q.answer = Null) /\ q = silenced(r, gone)
                                /\ q.heard => r.heard /\ q.id \in ids(table)
  <2> HIDE DEF gone
  <2>1. PICK r \in requests :
          /\ q = silenced(r, gone)
          /\ q.kind = r.kind /\ q.id = r.id /\ q.value = r.value /\ q.answer = r.answer
          /\ q.heard = (r.heard /\ r \notin gone)
          /\ q.heard \/ q.answer = Null
    BY <1>1, <1>3, Abandoned DEF patches
  <2>2. r \in patches
    BY <1>3, <2>1 DEF patches
  <2>3. q.heard => r.heard /\ q.id \in ids(table)
    BY <2>1, <2>2 DEF gone, patches
  <2> QED BY <2>1, <2>2, <2>3
<1> HIDE DEF gone
<1>4. ASSUME NEW q \in patches' PROVE PatchIsSound(q)'
  <2>1. PICK r \in patches : /\ q.id = r.id /\ q.value = r.value /\ q.answer = r.answer
                             /\ (q.heard \/ q.answer = Null)
                             /\ q.heard => r.heard /\ q.id \in ids(table)
    BY <1>3, <1>4
  <2>2. PatchIsSound(r)
    BY <1>1 DEF SwitchInv
  <2> QED BY <1>2, <2>1, <2>2 DEF PatchIsSound
<1>5. ASSUME NEW q \in patches', NEW p \in patches', q.heard, p.heard, q.id = p.id
      PROVE  q = p
  <2>1. PICK r \in patches : q.id = r.id /\ q = silenced(r, gone) /\ r.heard
    BY <1>3, <1>5
  <2>2. PICK s \in patches : p.id = s.id /\ p = silenced(s, gone) /\ s.heard
    BY <1>3, <1>5
  <2>3. r = s
    BY <1>1, <1>5, <2>1, <2>2 DEF SwitchInv
  <2> QED BY <2>1, <2>2, <2>3
<1>6. ToggleTellsTheTruth'
  <2>1. \A id \in Switches : page'[id] = mounted(id) /\ page'[id] # Null =>
          page'[id].on = stored(table, id)
    BY DEF mounted
  <2> QED BY <1>1, <1>2, <2>1 DEF SwitchInv, ToggleTellsTheTruth
<1> QED BY <1>4, <1>5, <1>6 DEF SwitchInv

\* Another client changes or deletes a rule.
LEMMA OtherSwitch ==
  ASSUME PagesInv, NEW id \in Switches, OtherPatch(id) \/ OtherDelete(id)
  PROVE  SwitchInv'
<1>1. PICK e \in BOOLEAN : e = ~stored(table, id)
  BY StoredIsBoolean
<1>2. table' = patch(table, id, e).rows \/ table' = delete(table, id).rows
  BY <1>1 DEF OtherPatch, OtherDelete
<1>3. ids(table') \subseteq ids(table)
  BY <1>2, PatchKeeps, DeleteKeeps DEF PagesInv, PagesTypes
<1>4. \A other : other # id => stored(table', other) = stored(table, other)
  BY <1>2, StoredPatch, StoredDelete DEF PagesInv, PagesTypes
<1>5. doubt' = doubt \cup {id} /\ UNCHANGED <<page, requests>>
  BY DEF OtherPatch, OtherDelete
<1>6. SwitchInv
  BY DEF PagesInv
<1>7. \A q \in patches : PatchIsSound(q) => PatchIsSound(q)'
  BY <1>3, <1>4, <1>5 DEF PatchIsSound
<1> QED BY <1>3, <1>4, <1>5, <1>6, <1>7 DEF SwitchInv, ToggleTellsTheTruth, patches

\* The answer to a patch, or its loss.
LEMMA AnswerSwitch ==
  ASSUME PagesInv, NEW q \in requests, Reply(q) \/ Lose(q)
  PROVE  SwitchInv'
<1>1. /\ SwitchInv /\ table' = table /\ q.heard /\ (Confirmed(q) \/ Rejected(q))
      /\ page \in [Switches -> Switch] /\ requests \subseteq Request
  BY DEF PagesInv, PagesTypes, Reply, Lose
<1> DEFINE s == [q EXCEPT !.heard = FALSE]
<1>2. /\ s.heard = FALSE /\ s.answer = q.answer
      /\ s.kind = q.kind /\ s.id = q.id /\ s.value = q.value
  BY <1>1, Silenced
<1>3. \/ requests' = requests \ {q}
      \/ requests' = (requests \ {q}) \cup {s} /\ q.answer = Null
  BY DEF Reply, Lose
<1>4. doubt' = doubt \/ doubt' = doubt \cup {q.id}
  BY DEF Reply, Lose
<1> HIDE DEF s
<1>5. CASE q.kind # "patch"
  <2>1. page' = page /\ doubt' = doubt /\ patches' \subseteq patches
    BY <1>1, <1>2, <1>3, <1>5 DEF Confirmed, Rejected, Reply, Lose, patches
  <2> QED BY <1>1, <2>1, SwitchesStay
<1>6. CASE q.kind = "patch"
  <2>1. /\ q.id \in Switches /\ q.value \in BOOLEAN /\ PatchIsSound(q)
        /\ page[q.id] \in [on : BOOLEAN, busy : BOOLEAN] /\ page[q.id].on = q.value
    BY <1>1, <1>6, PatchedSwitch DEF SwitchInv, patches
  <2>2. \A r \in patches' : \/ r \in patches /\ r # q
                            \/ ~r.heard /\ r.answer = Null /\ r.id = q.id
    BY <1>2, <1>3 DEF patches
  <2>3. \A id \in Switches \ {q.id} : page'[id] = page[id]
    BY <1>1, <1>6 DEF Confirmed, Rejected
  <2>4. \A r \in patches : r # q /\ r.heard => r.id # q.id
    BY <1>1, <1>6 DEF SwitchInv, patches
  <2>5. ASSUME NEW r \in patches' PROVE PatchIsSound(r)'
    <3>1. CASE r \in patches /\ r # q
      <4>1. PatchIsSound(r)
        BY <1>1, <3>1 DEF SwitchInv
      <4> QED BY <1>1, <1>4, <2>3, <2>4, <3>1, <4>1 DEF PatchIsSound
    <3>2. CASE ~r.heard /\ r.answer = Null /\ r.id = q.id
      <4>1. Null # FALSE
        BY PagesAssumption
      <4> QED BY <2>1, <3>2, <4>1 DEF PatchIsSound
    <3> QED BY <2>2, <3>1, <3>2
  <2>6. \A r, p \in patches' : r.heard /\ p.heard /\ r.id = p.id => r = p
    BY <1>1, <2>2 DEF SwitchInv
  <2>7. q.id \notin doubt' /\ q.id \in ids(table) => page'[q.id].on = stored(table, q.id)
    <3>1. CASE Reply(q) /\ q.answer = TRUE
      <4>1. page'[q.id].on = q.value /\ doubt' = doubt
        BY <1>1, <1>6, <2>1, <3>1 DEF Reply, Confirmed
      <4> QED BY <1>1, <2>1, <3>1, <4>1, PagesAssumption DEF PatchIsSound
    <3>2. CASE Reply(q) /\ q.answer = FALSE
      BY <2>1, <3>2 DEF PatchIsSound
    <3>3. CASE Lose(q)
      <4>1. page'[q.id].on = ~q.value
        BY <1>1, <1>6, <2>1, <3>3 DEF Lose, Rejected
      <4>2. q.id \notin doubt' => q.id \notin doubt /\ q.answer # TRUE
        BY <1>4, <1>6, <3>3, PagesAssumption DEF Lose
      <4>3. q.answer \in {Null, TRUE, FALSE}
        BY <1>1, Fields
      <4> QED BY <1>1, <2>1, <4>1, <4>2, <4>3 DEF PatchIsSound
    <3>4. q.answer \in {Null, TRUE, FALSE} /\ (Reply(q) => q.answer # Null)
      BY <1>1, Fields DEF Reply
    <3> QED BY <3>1, <3>2, <3>3, <3>4
  <2>8. ToggleTellsTheTruth'
    BY <1>1, <1>4, <2>3, <2>7 DEF SwitchInv, ToggleTellsTheTruth
  <2> QED BY <2>5, <2>6, <2>8 DEF SwitchInv
<1> QED BY <1>5, <1>6

LEMMA ArriveSwitch ==
  ASSUME PagesInv, NEW p \in requests, Arrive(p)
  PROVE  SwitchInv'
<1>1. /\ PagesTypes /\ IdsAreFresh /\ SwitchInv /\ p \in Request
      /\ p.value \in BOOLEAN /\ page' = page
  BY Fields DEF PagesInv, PagesTypes, Arrive
<1> DEFINE s == [p EXCEPT !.answer = outcome(p).ok]
<1>2. /\ p.answer = Null
      /\ \A q \in requests' :
           \/ q \in requests /\ q # p
           \/ /\ p.heard /\ q = s
              /\ q.kind = p.kind /\ q.id = p.id /\ q.value = p.value
              /\ q.heard /\ q.answer = outcome(p).ok
              /\ q.answer # Null /\ q.answer \in BOOLEAN
      /\ ids(table') = IF p.kind = "post" THEN ids(table) \cup {p.id} ELSE ids(table)
  BY ArriveRequests
<1>3. table' = outcome(p).rows
  BY <1>1, ArriveTable
<1> HIDE DEF s
<1>4. CASE p.kind = "post"
  <2>1. Unborn(p.id)
    BY <1>1, <1>2, <1>4 DEF IdsAreFresh, PostIsFresh, posts
  <2>2. p.id = p.rule.id /\ table' = post(table, p.rule).rows /\ doubt' = doubt
    BY <1>1, <1>3, <1>4, PostedRule DEF outcome, posts, Arrive
  <2>3. \A id : id # p.id => stored(table', id) = stored(table, id) /\ (id \in ids(table') <=> id \in ids(table))
    BY <1>2, <1>4, <2>2, StoredPost
  <2>4. patches' \subseteq patches
    BY <1>2, <1>4 DEF patches
  <2>5. \A q \in patches : PatchIsSound(q) => PatchIsSound(q)'
    BY <1>1, <2>1, <2>2, <2>3 DEF PatchIsSound, Unborn
  <2>6. ToggleTellsTheTruth'
    BY <1>1, <2>1, <2>2, <2>3 DEF Unborn, SwitchInv, ToggleTellsTheTruth
  <2> QED BY <1>1, <2>4, <2>5, <2>6 DEF SwitchInv
<1>5. CASE p.kind = "patch"
  <2>1. p \in patches /\ PatchIsSound(p) /\ p.id \in Switches
    BY <1>1, <1>5 DEF SwitchInv, PatchIsSound, patches
  <2>2. table' = patch(table, p.id, p.value).rows /\ outcome(p) = patch(table, p.id, p.value)
    BY <1>3, <1>5 DEF outcome
  <2>3. /\ p.id \in ids(table) => stored(table', p.id) = p.value
        /\ \A id : id # p.id => stored(table', id) = stored(table, id)
    BY <1>1, <2>2, StoredPatch DEF PagesTypes
  <2>4. outcome(p).ok = (p.id \in ids(table)) /\ ids(table') = ids(table)
    BY <1>2, <1>5, <2>2 DEF patch
  <2>5. doubt' = IF p.id \notin ids(table) THEN doubt
                 ELSE IF p.heard THEN doubt \ {p.id} ELSE doubt \cup {p.id}
    BY <1>1, <1>5, <2>4, ArriveTable
  <2>6. \A id : id # p.id => (id \in doubt' <=> id \in doubt)
    BY <2>5
  <2>7. ASSUME NEW q \in patches, q # p PROVE PatchIsSound(q)'
    <3>1. PatchIsSound(q)
      BY <1>1, <2>7 DEF SwitchInv
    <3>2. CASE q.id = p.id
      <4>1. ~(q.heard /\ p.heard)
        BY <1>1, <2>1, <2>7, <3>2 DEF SwitchInv
      <4>2. q.heard /\ q.id \in ids(table) => q.id \in doubt'
        BY <2>5, <3>2, <4>1
      <4> QED BY <1>1, <2>4, <3>1, <4>2 DEF PatchIsSound
    <3>3. CASE q.id # p.id
      BY <1>1, <2>3, <2>4, <2>6, <3>1, <3>3 DEF PatchIsSound
    <3> QED BY <3>2, <3>3
  <2>8. ASSUME NEW q, p.heard, q.kind = p.kind, q.id = p.id, q.value = p.value,
               q.heard, q.answer = outcome(p).ok, q.answer # Null, q.answer \in BOOLEAN
        PROVE  PatchIsSound(q)'
    BY <1>1, <2>1, <2>3, <2>4, <2>8 DEF PatchIsSound
  <2>9. ASSUME NEW q \in patches' PROVE PatchIsSound(q)'
    BY <1>2, <2>7, <2>8, <2>9 DEF patches
  <2>10. \A q, r \in patches' : q.heard /\ r.heard /\ q.id = r.id => q = r
    BY <1>1, <1>2, <2>1 DEF SwitchInv, patches
  <2>11. ToggleTellsTheTruth'
    <3> SUFFICES ASSUME NEW id \in Switches \ doubt', page[id] # Null, ~page[id].busy,
                        id \in ids(table)
                 PROVE  page[id].on = stored(table', id)
      BY <1>1, <2>4 DEF ToggleTellsTheTruth
    <3>1. id # p.id
      BY <2>1, <2>5 DEF PatchIsSound
    <3> QED BY <1>1, <2>3, <2>6, <3>1 DEF SwitchInv, ToggleTellsTheTruth
  <2> QED BY <2>9, <2>10, <2>11 DEF SwitchInv
<1> QED BY <1>1, <1>4, <1>5, Fields

LEMMA StepSwitch == PagesInv /\ [PagesNext]_pagesVars => SwitchInv'
<1> SUFFICES ASSUME PagesInv, [PagesNext]_pagesVars PROVE SwitchInv'
  OBVIOUS
<1>1. CASE Open \/ Close \/ (\E f \in Forms : Fill(f)) \/ UNCHANGED pagesVars
  <2>1. UNCHANGED <<table, page, doubt>> /\ patches' \subseteq patches
    BY <1>1 DEF Open, Close, Fill, pagesVars, patches
  <2> QED BY <2>1, SwitchesStay DEF PagesInv
<1>2. CASE Submit
  <2>1. Post(buildRule(dialog.form, uuids[Len(made) + 1])).kind = "post"
    BY DEF Post
  <2>2. UNCHANGED <<table, page, doubt>> /\ patches' \subseteq patches
    BY <1>2, <2>1 DEF Submit, patches
  <2> QED BY <2>2, SwitchesStay DEF PagesInv
<1> QED BY <1>1, <1>2, LoadSwitch, RefreshSwitch, ToggleSwitch, OtherSwitch, ArriveSwitch,
           AnswerSwitch DEF PagesNext

-----------------------------------------------------------------------------
(* The policy page: the fillings                                           *)

LEMMA MadeFacts ==
  ASSUME PagesTypes
  PROVE  /\ Len(made) \in Nat /\ DOMAIN made = 1 .. Len(made)
         /\ \A i \in DOMAIN made : made[i].filling \in Nat /\ i \in Nat /\ i <= Len(made)
         /\ dialog.filling \in Nat
<1>1. made \in Seq(Sent) /\ dialog \in Dialogs
  BY DEF PagesTypes
<1>2. Len(made) \in Nat /\ DOMAIN made = 1 .. Len(made) /\ \A i \in DOMAIN made : made[i] \in Sent
  BY <1>1
<1> QED BY <1>1, <1>2 DEF Sent, Dialogs

\* Steps that touch neither the dialog nor its requests.
LEMMA FillingsStay ==
  ASSUME FillingsInv, UNCHANGED <<dialog, made, slipped>>, posts' = posts,
         ids(table') \subseteq ids(table)
  PROVE  FillingsInv'
BY DEF FillingsInv, Tidy, Lives, Awaited, Outdated

\* A dialog that starts over, or whose fields are changed, with no new rule about.
LEMMA NewFilling ==
  ASSUME PagesTypes, FillingsInv, UNCHANGED <<table, made, slipped>>,
         dialog'.filling = Len(made),
         \A i \in DOMAIN made : Lives(i)' => Lives(i),
         ~slipped => \A q \in posts' : q.heard => q.id = uuids[Len(made)] /\ dialog'.busy /\ dialog'.open
  PROVE  FillingsInv'
<1>1. ASSUME NEW i \in DOMAIN made, ~slipped, Lives(i) PROVE Outdated(i)'
  <2>1. \A j \in DOMAIN made : j > i => made[j].filling >= i
    <3>1. CASE Awaited(i)
      BY <3>1, MadeFacts DEF Awaited
    <3>2. CASE Outdated(i)
      BY <3>2 DEF Outdated
    <3> QED BY <1>1, <3>1, <3>2 DEF FillingsInv, Tidy
  <2> QED BY <1>1, <2>1, MadeFacts DEF Outdated
<1>2. dialog'.filling <= Len(made')
  BY MadeFacts
<1> QED BY <1>1, <1>2 DEF FillingsInv, Tidy

\* Nothing else is lost when only patches are abandoned.
LEMMA PatchesAbandoned ==
  ASSUME PagesInv, NEW gone, Abandon(gone), \A q \in gone : q.kind = "patch"
  PROVE  posts' = posts
<1>1. requests \subseteq Request /\ IdsAreFresh
  BY DEF PagesInv, PagesTypes
<1>2. ASSUME NEW q \in posts PROVE q \in posts'
  <2>1. q \notin gone /\ (q.heard \/ q.answer = Null) /\ q \in requests
    BY <1>1, <1>2 DEF posts, IdsAreFresh, PostIsFresh
  <2>2. q \in requests'
    BY <2>1 DEF Abandon
  <2> QED BY <2>2 DEF posts
<1>3. ASSUME NEW q \in posts' PROVE q \in posts
  <2>1. PICK r \in requests : q = silenced(r, gone) /\ q.kind = r.kind
    BY <1>1, <1>3, Abandoned DEF posts
  <2>2. r \notin gone
    BY <1>3, <2>1 DEF posts
  <2> QED BY <1>3, <2>1, <2>2 DEF silenced, posts
<1> QED BY <1>2, <1>3

LEMMA SubmitFilling ==
  ASSUME PagesInv, Submit
  PROVE  FillingsInv'
<1>1. PagesTypes /\ IdsAreFresh /\ FillingsInv /\ Len(made) \in Nat /\ dialog \in Dialogs
  BY DEF PagesInv, PagesTypes
<1>2. PICK n \in DOMAIN uuids : n = Len(made) + 1 /\ n > Len(made) /\ uuids[n] \in RuleIds
  BY <1>1, Uuids DEF PagesTypes, Submit
<1>3. PICK new : /\ new = Post(buildRule(dialog.form, uuids[n]))
                 /\ new.kind = "post" /\ new.id = uuids[n] /\ new.heard = TRUE
  BY <1>1, <1>2, NewPost DEF Dialogs
<1>4. posts' = posts \cup {new}
  BY <1>2, <1>3 DEF Submit, posts
<1>5. /\ Len(made') = n /\ DOMAIN made' = 1 .. n /\ made'[n].filling = dialog.filling
      /\ \A i \in DOMAIN made : made'[i] = made[i]
  BY <1>1, <1>2 DEF Submit, PagesTypes
<1>6. /\ dialog'.busy = TRUE /\ dialog'.open = TRUE /\ dialog'.filling = dialog.filling
      /\ table' = table /\ slipped' = slipped
  BY <1>1 DEF Submit, Dialogs
<1>7. dialog.filling <= Len(made) /\ dialog.filling \in Nat /\ ~dialog.busy
  BY <1>1, MadeFacts DEF FillingsInv, Submit
<1>8. /\ dialog'.filling <= Len(made')
      /\ \A i \in DOMAIN made' : made'[i].filling < i
  <2>1. \A i \in 1 .. n : i \in DOMAIN made \/ i = n
    BY <1>1, <1>2, MadeFacts
  <2> QED BY <1>1, <1>2, <1>5, <1>6, <1>7, <2>1 DEF FillingsInv
<1>9. ASSUME ~slipped PROVE Tidy'
  <2>1. Tidy /\ \A q \in posts : ~q.heard
    BY <1>1, <1>7, <1>9 DEF FillingsInv, Tidy
  <2>2. \A q \in posts' : q.heard => q.id = uuids[Len(made')] /\ dialog'.busy /\ dialog'.open
    BY <1>3, <1>4, <1>5, <1>6, <2>1
  <2>3. ASSUME NEW i \in DOMAIN made', Lives(i)' PROVE Awaited(i)' \/ Outdated(i)'
    <3>1. CASE i = n
      BY <1>3, <1>4, <1>5, <3>1 DEF Awaited
    <3>2. CASE i # n
      <4>1. i \in DOMAIN made /\ i \in DOMAIN uuids /\ i <= Len(made) /\ i \in Nat
        BY <1>1, <1>2, <1>5, <2>3, <3>2, MadeFacts, Uuids DEF PagesTypes
      <4>2. uuids[i] # uuids[n]
        BY <3>2, <4>1, PagesAssumption
      <4>3. Lives(i)
        BY <1>3, <1>4, <1>6, <2>3, <4>2 DEF Lives
      <4>4. Outdated(i)
        BY <2>1, <4>1, <4>3 DEF Tidy, Awaited
      <4>5. \A j \in DOMAIN made' : j > i => made'[j].filling >= i
        <5>1. \A j \in 1 .. n : j \in DOMAIN made \/ j = n
          BY <1>1, <1>2, MadeFacts
        <5> QED BY <1>5, <4>4, <5>1 DEF Outdated
      <4> QED BY <1>6, <4>4, <4>5 DEF Outdated
    <3> QED BY <3>1, <3>2
  <2> QED BY <2>2, <2>3 DEF Tidy
<1> QED BY <1>6, <1>8, <1>9 DEF FillingsInv

LEMMA ArriveFilling ==
  ASSUME PagesInv, NEW p \in requests, Arrive(p)
  PROVE  FillingsInv'
<1>1. /\ PagesTypes /\ IdsAreFresh /\ FillingsInv /\ p \in Request
      /\ UNCHANGED <<dialog, made, slipped>>
  BY DEF PagesInv, PagesTypes, Arrive
<1> DEFINE s == [p EXCEPT !.answer = outcome(p).ok]
<1>2. /\ p.answer = Null
      /\ \A q \in requests' :
           \/ q \in requests /\ q # p
           \/ /\ p.heard /\ q = s
              /\ q.kind = p.kind /\ q.id = p.id /\ q.heard /\ q.answer # Null
      /\ ids(table') = IF p.kind = "post" THEN ids(table) \cup {p.id} ELSE ids(table)
  BY ArriveRequests
<1>3. /\ \A q \in requests : q # p => q \in requests'
      /\ p.heard => s \in requests' /\ s.kind = p.kind /\ s.id = p.id /\ s.heard
  <2>1. outcome(p).ok \in BOOLEAN
    BY <1>1, RequestTable
  <2>2. s.kind = p.kind /\ s.id = p.id /\ s.heard = p.heard
    BY <1>1, <2>1, Answered
  <2>3. requests' = (requests \ {p}) \cup (IF p.heard THEN {s} ELSE {})
    BY <1>1, ArriveTable
  <2> HIDE DEF s
  <2> QED BY <2>2, <2>3
<1> HIDE DEF s
<1>4. CASE p.kind # "post"
  <2>1. posts' = posts
    BY <1>2, <1>3, <1>4 DEF posts
  <2> QED BY <1>1, <1>2, <1>4, <2>1, FillingsStay
<1>5. CASE p.kind = "post"
  <2>1. \A q \in posts' : q.heard => \E r \in posts : r.heard /\ r.id = q.id
    BY <1>2, <1>5 DEF posts
  <2>2. \A r \in posts : r.heard => \E q \in posts' : q.heard /\ q.id = r.id
    BY <1>3, <1>5 DEF posts
  <2>3. ASSUME NEW i, Lives(i)' PROVE Lives(i)
    BY <1>1, <1>2, <1>5, <2>3 DEF Lives, posts
  <2>4. Tidy => Tidy'
    BY <1>1, <2>1, <2>2, <2>3 DEF Tidy, Awaited, Outdated
  <2> QED BY <1>1, <2>4 DEF FillingsInv
<1> QED BY <1>4, <1>5

\* Anything that becomes of a heard post but its arrival.
LEMMA AnswerFilling ==
  ASSUME PagesInv, NEW q \in requests, Reply(q) \/ Lose(q)
  PROVE  FillingsInv'
<1>1. /\ PagesTypes /\ IdsAreFresh /\ FillingsInv /\ requests \subseteq Request
      /\ UNCHANGED <<table, made>> /\ q.heard /\ dialog \in Dialogs
  BY DEF PagesInv, PagesTypes, Reply, Lose
<1> DEFINE s == [q EXCEPT !.heard = FALSE]
<1>2. s.heard = FALSE /\ s.answer = q.answer /\ s.kind = q.kind /\ s.id = q.id
  BY <1>1, Silenced
<1>3. CASE q.kind # "post"
  <2>1. posts' = posts
    <3>1. requests' = requests \ {q} \/ requests' = (requests \ {q}) \cup {s}
      BY DEF Reply, Lose
    <3> HIDE DEF s
    <3> QED BY <1>2, <1>3, <3>1 DEF posts
  <2>2. dialog' = dialog /\ slipped' = slipped
    <3>1. q.kind = "patch"
      BY <1>1, <1>3, Fields
    <3> QED BY <1>1, <1>3, <3>1 DEF Reply, Lose, Confirmed, Rejected, PagesTypes
  <2> QED BY <1>1, <2>1, <2>2, FillingsStay
<1>4. CASE q.kind = "post"
  <2>1. PostIsFresh(q) /\ q \in posts
    BY <1>1, <1>4 DEF IdsAreFresh, posts
  <2>2. ~slipped => \A r \in posts : r.heard => r = q
    BY <1>1, <2>1 DEF IdsAreFresh, FillingsInv, Tidy
  <2>3. CASE requests' = requests \ {q} /\ ~slipped' /\ slipped' = slipped
    <3>1. posts' = posts \ {q}
      BY <2>3 DEF posts
    <3>2. \A i : Lives(i)' => Lives(i)
      BY <1>1, <3>1 DEF Lives
    <3>3. CASE dialog'.filling = Len(made)
      BY <1>1, <2>2, <2>3, <3>1, <3>2, <3>3, NewFilling
    <3>4. CASE dialog'.filling = dialog.filling /\ q.answer = Null
      <4>1. ASSUME NEW i \in DOMAIN made, ~slipped, Lives(i)' PROVE Outdated(i)'
        <5>1. Awaited(i) => uuids[i] = q.id
          BY <2>2, <4>1 DEF Awaited
        <5>2. uuids[i] # q.id
          BY <1>1, <2>1, <3>1, <3>4, <4>1 DEF Lives, PostIsFresh, Unborn, IdsAreFresh
        <5> QED BY <1>1, <3>2, <3>4, <4>1, <5>1, <5>2 DEF FillingsInv, Tidy, Outdated
      <4>2. dialog'.filling <= Len(made')
        BY <1>1, <3>4 DEF FillingsInv
      <4> QED BY <1>1, <2>2, <2>3, <3>1, <4>1, <4>2 DEF FillingsInv, Tidy
    <3>5. dialog'.filling = Len(made) \/ (dialog'.filling = dialog.filling /\ q.answer = Null)
      <4>1. CASE Reply(q)
        <5>1. q.answer = TRUE
          BY <1>1, <2>1, <4>1, Fields DEF Reply, PostIsFresh
        <5> QED BY <1>4, <4>1, <5>1 DEF Reply, Confirmed, NewDialog
      <4>2. CASE Lose(q) /\ q.answer = Null
        BY <1>1, <1>4, <4>2 DEF Lose, Rejected, Dialogs
      <4>3. CASE Lose(q) /\ q.answer # Null
        <5>1. q.answer = TRUE
          BY <1>1, <2>1, <4>3, Fields DEF PostIsFresh
        <5> QED BY <1>4, <2>3, <4>3, <5>1, PagesAssumption DEF Lose
      <4> QED BY <4>1, <4>2, <4>3
    <3> QED BY <3>3, <3>4, <3>5
  <2>4. CASE slipped'
    <3>1. dialog'.filling \in {dialog.filling, Len(made)}
      BY <1>1, <1>4 DEF Reply, Lose, Confirmed, Rejected, NewDialog, Dialogs
    <3> QED BY <1>1, <2>4, <3>1, MadeFacts DEF FillingsInv
  <2>5. slipped' \/ (requests' = requests \ {q} /\ ~slipped' /\ slipped' = slipped)
    BY <1>1, <1>4 DEF Reply, Lose, PagesTypes
  <2> QED BY <2>3, <2>4, <2>5
<1> QED BY <1>3, <1>4

LEMMA StepFillings == PagesInv /\ [PagesNext]_pagesVars => FillingsInv'
<1> SUFFICES ASSUME PagesInv, [PagesNext]_pagesVars PROVE FillingsInv'
  OBVIOUS
<1>1. /\ PagesTypes /\ IdsAreFresh /\ FillingsInv /\ requests \subseteq Request
      /\ dialog \in Dialogs /\ slipped \in BOOLEAN
  BY DEF PagesInv, PagesTypes
<1>2. CASE Load
  <2>1. UNCHANGED <<table, made, slipped>> /\ dialog'.filling = Len(made)
    BY <1>2 DEF Load, NewDialog
  <2>2. \A q \in requests' : \E r \in requests :
          /\ q.kind = r.kind /\ q.id = r.id /\ q.answer = r.answer
          /\ q.heard = (r.heard /\ r \notin requests)
    BY <1>1, <1>2, Abandoned DEF Load
  <2>3. \A q \in posts' : ~q.heard /\ \E r \in posts : q.id = r.id /\ q.answer = r.answer
    BY <2>2 DEF posts
  <2>4. \A i \in DOMAIN made : Lives(i)' => Lives(i)
    BY <2>1, <2>3 DEF Lives
  <2> QED BY <1>1, <2>1, <2>3, <2>4, NewFilling
<1>3. CASE Refresh \/ RefreshFails
  <2>1. PICK gone : Abandon(gone) /\ \A q \in gone : q.kind = "patch"
    BY <1>3 DEF Refresh, RefreshFails
  <2>2. posts' = posts
    BY <2>1, PatchesAbandoned
  <2>3. UNCHANGED <<dialog, made, slipped>> /\ table' = table
    BY <1>3 DEF Refresh, RefreshFails
  <2> QED BY <1>1, <2>2, <2>3, FillingsStay
<1>4. ASSUME NEW id \in Switches, Toggle(id) \/ OtherPatch(id) \/ OtherDelete(id)
      PROVE  FillingsInv'
  <2>1. Patch(id, ~page[id].on).kind # "post"
    BY DEF Patch
  <2>2. UNCHANGED <<dialog, made, slipped>> /\ posts' = posts
    BY <1>4, <2>1 DEF Toggle, OtherPatch, OtherDelete, posts
  <2>3. ids(table') \subseteq ids(table)
    <3>1. CASE Toggle(id)
      BY <3>1 DEF Toggle
    <3>2. CASE OtherPatch(id) \/ OtherDelete(id)
      BY <3>2, QuietPage DEF Quiet
    <3> QED BY <1>4, <3>1, <3>2
  <2> QED BY <1>1, <2>2, <2>3, FillingsStay
<1>5. CASE Open \/ UNCHANGED pagesVars
  <2>1. UNCHANGED <<table, made, slipped, requests>>
    BY <1>5 DEF Open, pagesVars
  <2>2. /\ dialog'.filling = dialog.filling /\ dialog'.busy = dialog.busy
        /\ dialog.open => dialog'.open
    BY <1>1, <1>5 DEF Open, pagesVars, Dialogs
  <2> QED BY <1>1, <2>1, <2>2 DEF FillingsInv, Tidy, Awaited, Outdated, Lives, posts
<1>6. CASE Close
  <2>1. UNCHANGED <<table, made, requests>> /\ dialog'.filling = dialog.filling
    BY <1>1, <1>6 DEF Close, Dialogs
  <2>2. ~slipped' => ~slipped /\ \A q \in posts : ~q.heard
    BY <1>6 DEF Close, Waiting, posts
  <2> QED BY <1>1, <2>1, <2>2 DEF FillingsInv, Tidy, Awaited, Outdated, Lives, posts
<1>7. ASSUME NEW f \in Forms, Fill(f) PROVE FillingsInv'
  <2>1. /\ UNCHANGED <<table, made, slipped, requests>> /\ dialog'.filling = Len(made)
        /\ dialog'.busy = dialog.busy /\ dialog'.open = dialog.open
    BY <1>1, <1>7 DEF Fill, Dialogs
  <2>2. \A i \in DOMAIN made : Lives(i)' => Lives(i)
    BY <2>1 DEF Lives, posts
  <2>3. ~slipped => \A q \in posts' : q.heard =>
                      q.id = uuids[Len(made)] /\ dialog'.busy /\ dialog'.open
    BY <1>1, <2>1 DEF FillingsInv, Tidy, posts
  <2> QED BY <1>1, <2>1, <2>2, <2>3, NewFilling
<1> QED BY <1>2, <1>3, <1>4, <1>5, <1>6, <1>7, SubmitFilling, ArriveFilling, AnswerFilling
        DEF PagesNext

-----------------------------------------------------------------------------
(* The policy page: the theorems                                           *)

LEMMA InitPagesInv == PagesInit => PagesInv
<1> SUFFICES ASSUME PagesInit PROVE PagesInv
  OBVIOUS
<1>1. table = Rows /\ requests = {} /\ made = <<>> /\ slipped = FALSE /\ dialog.filling = 0
  BY DEF PagesInit, NewDialog
<1>2. \A i \in DOMAIN uuids : uuids[i] \notin ids(table)
  BY <1>1, PagesAssumption DEF ids
<1>3. IdsAreFresh
  <2>1. \A id \in Switches : id \notin ids(table) => page[id] = Null
    BY DEF PagesInit, mounted
  <2> QED BY <1>1, <1>2, <2>1 DEF IdsAreFresh, Unborn, posts, patches
<1>4. SwitchInv
  <2>1. ToggleTellsTheTruth
    BY DEF PagesInit, mounted, ToggleTellsTheTruth
  <2> QED BY <1>1, <2>1 DEF SwitchInv, patches
<1>5. RulesAreForms /\ FillingsInv
  BY <1>1 DEF RulesAreForms, FillingsInv, Tidy, posts
<1> QED BY <1>3, <1>4, <1>5, PagesInitTypes DEF PagesInv

LEMMA StepPagesInv == PagesInv /\ [PagesNext]_pagesVars => PagesInv'
BY StepPagesTypes, StepFresh, StepSwitch, StepForms, StepFillings DEF PagesInv

\* A switch at rest shows the state the server holds, unless there is doubt: for any
\* number of rules, switches and requests, whatever is lost, late or done by others.
THEOREM ToggleTellsTheTruthHolds == PagesSpec => []ToggleTellsTheTruth
<1>1. PagesInv => ToggleTellsTheTruth
  BY DEF PagesInv, SwitchInv
<1> QED BY <1>1, InitPagesInv, StepPagesInv, PTL DEF PagesSpec

\* One filling of the dialog makes two rules only after a slip: the dialog closed on a
\* request under way, or a failure reported of a rule that was or would be created.
THEOREM DuplicatesAreExplainedHolds == PagesSpec => []DuplicatesAreExplained
<1>1. ASSUME PagesInv PROVE DuplicatesAreExplained
  <2> SUFFICES ASSUME NEW i \in DOMAIN made, NEW j \in DOMAIN made, i < j, made[i] = made[j],
                      {uuids[i], uuids[j]} \subseteq ids(table), ~slipped
               PROVE  FALSE
    BY DEF DuplicatesAreExplained
  <2>1. PagesTypes /\ FillingsInv /\ Tidy
    BY <1>1 DEF PagesInv, FillingsInv
  <2>2. Awaited(i) \/ Outdated(i)
    BY <2>1 DEF Tidy, Lives
  <2>3. ~Awaited(i)
    BY <2>1, MadeFacts DEF Awaited
  <2>4. made[j].filling >= i /\ made[i].filling < i
    BY <2>1, <2>2, <2>3 DEF Outdated, FillingsInv
  <2> QED BY <2>1, <2>4, MadeFacts
<1> QED BY <1>1, InitPagesInv, StepPagesInv, PTL DEF PagesSpec

\* The engine rules by every rule of the dialog as the labels of its form say, however
\* often the rule was switched off and on since.
THEOREM FormMeansWhatItSaysHolds == PagesSpec => []FormMeansWhatItSays
<1>1. ASSUME PagesInv PROVE FormMeansWhatItSays
  <2> SUFFICES ASSUME NEW i \in DOMAIN made, NEW r \in table, r.id = uuids[i],
                      NEW p \in {q \in Proposals : ~q.suspicious}, NEW u \in Usages
               PROVE  evaluate(p, <<[r EXCEPT !.enabled = TRUE]>>, u, FALSE).status
                        = Says(made[i].form, p, u)
    BY DEF FormMeansWhatItSays
  <2>1. [r EXCEPT !.enabled = TRUE] = buildRule(made[i].form, uuids[i])
    BY <1>1 DEF PagesInv, RulesAreForms
  <2>2. IsForm(made[i].form)
    <3>1. made[i].form \in Forms \cup {BlankForm}
      <4>1. made \in Seq(Sent)
        BY <1>1 DEF PagesInv, PagesTypes
      <4>2. made[i] \in Sent
        BY <4>1
      <4> QED BY <4>2 DEF Sent
    <3> QED BY <3>1, PagesAssumption DEF IsForm, BlankForm
  <2>3. uuids[i] \in RuleIds
    BY <1>1, Uuids DEF PagesInv, PagesTypes
  <2>4. p.suspicious = FALSE
    BY ProposalsAssumption
  <2>5. evaluate(p, <<buildRule(made[i].form, uuids[i])>>, u, FALSE).status
          = Says(made[i].form, p, u)
    BY <2>2, <2>3, <2>4, FormRule
  <2> QED BY <2>1, <2>5
<1> QED BY <1>1, InitPagesInv, StepPagesInv, PTL DEF PagesSpec
=============================================================================
