------------------------------ MODULE RuleStore ------------------------------
(***************************************************************************)
(* The rule table: seeding at boot (packages/server/src/rules.ts), what    *)
(* the REST calls of app.ts do to it, and the verdicts its rows give.      *)
(*                                                                         *)
(* Two processes run seedRulesIfEmpty: the server at boot and the one-shot *)
(* script seed.ts.  Each is a sequence of separate database statements, so *)
(* they interleave with each other, with the operators and with crashes.   *)
(* The table survives a crash.  loadRules selects without ORDER BY, so a   *)
(* load returns the rows in an arbitrary order: evaluate is asked about    *)
(* every one of them.                                                      *)
(***************************************************************************)
EXTENDS RuleTable, SequencesExt

CONSTANTS
  DEMO_RULES,   \* the sequence of rows seedRulesIfEmpty creates
  NewRules,     \* the rules operators may POST
  Seeders,      \* the processes that seed: "server", "script" or both
  MaxRows,      \* bound: rows an operator's POST may bring the table to
  MaxCrashes    \* bound: process crashes in a behaviour

VARIABLES
  pc,        \* pc[s]: where process s of Seeders is, a Pcs
  at,        \* at[s]: the index in DEMO_RULES of the row s creates next
  seeded,    \* history: ids of the demo rows ever created
  crashes    \* history: number of crashes so far

vars == <<table, pc, at, seeded, crashes>>

ASSUME SeedersAssumption ==
  /\ Seeders \subseteq {"server", "script"} /\ "server" \in Seeders
  /\ MaxRows \in Nat /\ MaxCrashes \in Nat

\* The demo rows have ids of their own, which no posted rule has: the dialog draws them.
ASSUME DemoAssumption ==
  /\ Len(DEMO_RULES) # 0
  /\ DEMO_RULES \in Seq(RuleSet(DEMO_RULES))
  /\ \A r \in RuleSet(DEMO_RULES) \cup NewRules : IsRule(r)
  /\ \A i, j \in DOMAIN DEMO_RULES : DEMO_RULES[i].id = DEMO_RULES[j].id => i = j
  /\ ids(RuleSet(DEMO_RULES)) \cap ids(NewRules) = {}

\* Not running, about to count the rows, inside the loop of creates, or past
\* seeding (which only the server stays in: it is listening).
Pcs == {"off", "count", "create", "listening"}

up == pc["server"] = "listening"

Init ==
  /\ table = {}
  /\ pc = [s \in Seeders |-> "off"]
  /\ at = [s \in Seeders |-> 1]
  /\ seeded = {}
  /\ crashes = 0

-----------------------------------------------------------------------------
(* seedRulesIfEmpty                                                        *)

afterSeeding(s) == IF s = "server" THEN "listening" ELSE "off"

Start(s) ==
  /\ pc[s] = "off"
  /\ pc' = [pc EXCEPT ![s] = "count"]
  /\ UNCHANGED <<table, at, seeded, crashes>>

\* Mutation of CountRows: the loop starts at the second row.
CountRowsFromTwo(s) ==
  /\ pc[s] = "count"
  /\ pc' = [pc EXCEPT ![s] = IF table # {} THEN afterSeeding(s) ELSE "create"]
  /\ at' = [at EXCEPT ![s] = 2]
  /\ UNCHANGED <<table, seeded, crashes>>

CountRows(s) ==
  /\ pc[s] = "count"
  /\ pc' = [pc EXCEPT ![s] = IF table # {} THEN afterSeeding(s) ELSE "create"]
  /\ at' = [at EXCEPT ![s] = 1]
  /\ UNCHANGED <<table, seeded, crashes>>

\* One prisma.rule.create of the loop.  The id is the primary key: when the other
\* process has created the row first this one throws, and the process exits.
CreateDemoRule(s) ==
  /\ pc[s] = "create"
  /\ LET row == DEMO_RULES[at[s]]
         last == at[s] = Len(DEMO_RULES)
     IN  IF row.id \in ids(table)
         THEN /\ pc' = [pc EXCEPT ![s] = "off"]
              /\ UNCHANGED <<table, at, seeded>>
         ELSE /\ table' = table \cup {row}
              /\ seeded' = seeded \cup {row.id}
              /\ pc' = IF last THEN [pc EXCEPT ![s] = afterSeeding(s)] ELSE pc
              /\ at' = IF last THEN [at EXCEPT ![s] = 1] ELSE [at EXCEPT ![s] = @ + 1]
  /\ UNCHANGED crashes

Crash(s) ==
  /\ pc[s] # "off"
  /\ crashes < MaxCrashes
  /\ crashes' = crashes + 1
  /\ pc' = [pc EXCEPT ![s] = "off"]
  /\ at' = [at EXCEPT ![s] = 1]
  /\ UNCHANGED <<table, seeded>>

-----------------------------------------------------------------------------
(* The operators: a request changes the table or, failing, does not        *)

PostRule(rule) ==
  /\ up /\ Cardinality(table) < MaxRows
  /\ table' = post(table, rule).rows
  /\ UNCHANGED <<pc, at, seeded, crashes>>

PatchRule(id, enabled) ==
  /\ up
  /\ table' = patch(table, id, enabled).rows
  /\ UNCHANGED <<pc, at, seeded, crashes>>

DeleteRule(id) ==
  /\ up
  /\ table' = delete(table, id).rows
  /\ UNCHANGED <<pc, at, seeded, crashes>>

Next ==
  \/ \E s \in Seeders : Start(s) \/ CountRows(s) \/ CreateDemoRule(s) \/ Crash(s)
  \/ \E rule \in NewRules : PostRule(rule)
  \/ \E id \in RuleIds : DeleteRule(id) \/ \E enabled \in BOOLEAN : PatchRule(id, enabled)

Spec == Init /\ [][Next]_vars

-----------------------------------------------------------------------------
(* Properties                                                              *)

\* The verdict on a call is the one the SET of rules calls for, in whatever order
\* loadRules returns them: every reason to deny beats approval and a disabled rule never
\* counts.  And the rule it names is an enabled one that by itself calls for it, so the
\* attested and displayed attribution is honest.
VerdictIsHonest ==
  \A rows \in SetToSeqs(table), p \in Proposals, u \in Usages :
    LET d == evaluate(p, rows, u, FALSE)
    IN  /\ d.status = ReferenceStatus(p, table, u, FALSE)
        /\ d.matchedRuleId # Null =>
             \E r \in table : Justifies(r, d, p, u, FALSE)

\* Two seeders that race never leave half of the demo rules behind: the one that
\* loses the primary key of the first row dies and the other one finishes.  (A crash
\* between two rows does leave half of them, and no later boot adds the rest.)
SeedingIsAllOrNothing ==
  (\A s \in Seeders : pc[s] \notin {"count", "create"}) /\ crashes = 0 =>
    seeded \in {{}, ids(RuleSet(DEMO_RULES))}
=============================================================================
