------------------------- MODULE PolicyEngineProofs -------------------------
(***************************************************************************)
(* What evaluate returns, for every rule list, proposal and usage: the     *)
(* status is the one ReferenceStatus reads off the SET of rules, so no     *)
(* order of the list can change it and no approval prompt is ever raised   *)
(* for a call some rule forbids.                                           *)
(***************************************************************************)
EXTENDS PolicyEngine, WellFoundedInduction, TLAPS

\* A list of rules as loadRules returns it: typed rows, in any order.
IsRuleList(rules) ==
  /\ DOMAIN rules \subseteq Nat
  /\ \A i \in DOMAIN rules : rules[i].id \in RuleIds /\ rules[i].enabled \in BOOLEAN

Denials    == {d \in Decision : d.status = "DENY"}
Escalations == {d \in Decision : d.status = "PENDING_APPROVAL"}

-----------------------------------------------------------------------------
(* FirstOf                                                                 *)

LEMMA LeastExists ==
  ASSUME NEW T, T \subseteq Nat, T # {}
  PROVE  \E i \in T : \A j \in T : i <= j
<1> DEFINE R == {ss \in Nat \X Nat : ss[1] < ss[2]}
<1>1. IsWellFoundedOn(R, Nat)
  BY NatLessThanWellFounded, Zenon DEF OpToRel
<1> HIDE DEF R
<1>2. PICK i \in T : \A j \in T : ~ (<<j, i>> \in R)
  BY <1>1, WFMin
<1>3. ASSUME NEW j \in T PROVE i <= j
  <2>1. i \in Nat /\ j \in Nat
    OBVIOUS
  <2>2. CASE j < i
    <3>1. <<j, i>> \in R
      BY <2>1, <2>2 DEF R
    <3> QED BY <1>2, <3>1
  <2> QED BY <2>1, <2>2
<1> QED BY <1>3

LEMMA FirstOfFinds ==
  ASSUME NEW S, DOMAIN S \subseteq Nat, NEW k \in DOMAIN S, S[k] # Null
  PROVE  \E i \in DOMAIN S : /\ S[i] # Null /\ FirstOf(S) = S[i] 
                             /\ \A j \in DOMAIN S : j < i => S[j] = Null
<1> DEFINE hits == {i \in DOMAIN S : S[i] # Null}
           first == CHOOSE i \in hits : \A j \in hits : i <= j
<1>1. hits # {} /\ hits \subseteq Nat
  OBVIOUS
<1>2. \E i \in hits : \A j \in hits : i <= j
  BY <1>1, LeastExists
<1>3. first \in hits /\ \A j \in hits : first <= j
  BY <1>2
<1>4. FirstOf(S) = S[first]
  BY <1>1 DEF FirstOf
<1> HIDE DEF first
<1>5. ASSUME NEW j \in DOMAIN S, j < first, S[j] # Null PROVE FALSE
  <2>1. first <= j BY <1>3, <1>5
  <2>2. first \in Nat /\ j \in Nat BY <1>3
  <2> QED BY <2>1, <2>2, <1>5
<1> QED BY <1>3, <1>4, <1>5

LEMMA FirstOfNone ==
  ASSUME NEW S, \A i \in DOMAIN S : S[i] = Null
  PROVE  FirstOf(S) = Null
  BY DEF FirstOf

\* One tier: it has an opinion exactly when some rule has one, and it is an
\* opinion of the tier's kind.
LEMMA TierOpinion ==
  ASSUME NEW D, D \subseteq Decision,
         NEW S, DOMAIN S \subseteq Nat, \A i \in DOMAIN S : S[i] \in D \cup {Null}
  PROVE  /\ FirstOf(S) \in D \cup {Null}
         /\ FirstOf(S) # Null <=> \E i \in DOMAIN S : S[i] # Null
<1>1. CASE \A i \in DOMAIN S : S[i] = Null
  BY <1>1, FirstOfNone
<1>2. CASE \E i \in DOMAIN S : S[i] # Null
  <2>1. PICK i \in DOMAIN S : S[i] # Null /\ FirstOf(S) = S[i]
    BY <1>2, FirstOfFinds
  <2> QED BY <2>1
<1> QED BY <1>1, <1>2

-----------------------------------------------------------------------------
(* The tiers of evaluate                                                   *)

LEMMA DecisionsAreNotNull ==
  /\ DefaultAllow # Null
  /\ Deny(Null) \in Denials
  /\ \A id \in RuleIds : Deny(id) \in Denials /\ Pending(id) \in Escalations
  /\ Null \notin Denials /\ Null \notin Escalations
  BY NullIsNoDecision DEF DefaultAllow, Deny, Pending, Denials, Escalations, Decision

\* evaluate's status is that of the set of rules: conflicting rules resolve the
\* same way whatever order findMany returned them in.
THEOREM StatusIsOrderFree ==
  ASSUME NEW p, p.suspicious \in BOOLEAN,
         NEW rules, IsRuleList(rules),
         NEW usage, NEW open \in BOOLEAN
  PROVE  /\ evaluate(p, rules, usage, open) \in Decision
         /\ evaluate(p, rules, usage, open).status
              = ReferenceStatus(p, RuleSet(rules), usage, open)
<1> DEFINE B == [i \in DOMAIN rules |->
                   IF rules[i].enabled THEN checkBlock(p, rules[i]) ELSE Null]
           V == [i \in DOMAIN rules |->
                   IF rules[i].enabled THEN checkInputValidation(p, rules[i]) ELSE Null]
           U == [i \in DOMAIN rules |->
                   IF rules[i].enabled THEN checkBudget(p, rules[i], usage) ELSE Null]
           A == [i \in DOMAIN rules |->
                   IF rules[i].enabled THEN checkApproval(p, rules[i]) ELSE Null]
           tiers == << IF open THEN Deny(Null) ELSE Null, FirstOf(B), FirstOf(V),
                       FirstOf(U), checkInjectionHeuristic(p), FirstOf(A), DefaultAllow >>
           forbids(r) == checkBlock(p, r) # Null \/ checkInputValidation(p, r) # Null
                           \/ checkBudget(p, r, usage) # Null
           R == RuleSet(rules)
<1>1. evaluate(p, rules, usage, open) = FirstOf(tiers)
  BY DEF evaluate, Consult
<1>2. /\ DOMAIN rules \subseteq Nat
      /\ DOMAIN B = DOMAIN rules /\ DOMAIN V = DOMAIN rules
      /\ DOMAIN U = DOMAIN rules /\ DOMAIN A = DOMAIN rules
  BY DEF IsRuleList
<1>3. \A i \in DOMAIN rules : B[i] \in Denials \cup {Null}
  BY DecisionsAreNotNull DEF checkBlock, IsRuleList
<1>4. \A i \in DOMAIN rules : V[i] \in Denials \cup {Null}
  BY DecisionsAreNotNull DEF checkInputValidation, IsRuleList
<1>5. \A i \in DOMAIN rules : U[i] \in Denials \cup {Null}
  BY DecisionsAreNotNull DEF checkBudget, IsRuleList
<1>6. \A i \in DOMAIN rules : A[i] \in Escalations \cup {Null}
  BY DecisionsAreNotNull DEF checkApproval, IsRuleList
<1> HIDE DEF B, V, U, A
<1>7. /\ FirstOf(B) \in Denials \cup {Null}
      /\ FirstOf(B) # Null <=> \E i \in DOMAIN rules : B[i] # Null
  BY <1>2, <1>3, TierOpinion DEF Denials
<1>8. /\ FirstOf(V) \in Denials \cup {Null}
      /\ FirstOf(V) # Null <=> \E i \in DOMAIN rules : V[i] # Null
  BY <1>2, <1>4, TierOpinion DEF Denials
<1>9. /\ FirstOf(U) \in Denials \cup {Null}
      /\ FirstOf(U) # Null <=> \E i \in DOMAIN rules : U[i] # Null
  BY <1>2, <1>5, TierOpinion DEF Denials
<1>10. /\ FirstOf(A) \in Escalations \cup {Null}
       /\ FirstOf(A) # Null <=> \E i \in DOMAIN rules : A[i] # Null
  BY <1>2, <1>6, TierOpinion DEF Escalations
<1>11. (\E i \in DOMAIN rules : B[i] # Null \/ V[i] # Null \/ U[i] # Null)
         <=> Forbidding(p, R, usage) # {}
  <2>1. \A r : forbids(r) <=> \/ applies(r, "BLOCK_TOOL", p) /\ Deny(r.id) # Null
                              \/ /\ applies(r, "INPUT_VALIDATION", p)
                                 /\ r.config.field \in DOMAIN p.args
                                 /\ rejects(r.config, p.args[r.config.field])
                                 /\ Deny(r.id) # Null
                              \/ /\ applies(r, "BUDGET_LIMIT", p)
                                 /\ exhausted(r.config, usage)
                                 /\ Deny(r.id) # Null
    BY DEF checkBlock, checkInputValidation, checkBudget
  <2>2. \A r \in R : r.enabled \in BOOLEAN /\ Deny(r.id) # Null
    BY DecisionsAreNotNull DEF RuleSet, IsRuleList
  <2>3. \A i \in DOMAIN rules :
           (B[i] # Null \/ V[i] # Null \/ U[i] # Null)
             <=> rules[i].enabled /\ forbids(rules[i])
    BY DEF IsRuleList, B, V, U
  <2> HIDE DEF forbids
  <2>4. Forbidding(p, R, usage) = {r \in R : r.enabled /\ forbids(r)}
    BY <2>1, <2>2 DEF Forbidding
  <2> QED BY <2>3, <2>4 DEF RuleSet
<1>12. (\E i \in DOMAIN rules : A[i] # Null) <=> Escalating(p, R) # {}
  <2>1. \A i \in DOMAIN rules :
          A[i] # Null <=> rules[i].enabled /\ applies(rules[i], "REQUIRE_APPROVAL", p)
    BY DecisionsAreNotNull DEF checkApproval, IsRuleList, A
  <2> QED BY <2>1 DEF Escalating, RuleSet
<1>13. PICK k \in 1 .. 7 : /\ tiers[k] # Null
                           /\ FirstOf(tiers) = tiers[k]
                           /\ \A j \in 1 .. 7 : j < k => tiers[j] = Null
  <2>1. DOMAIN tiers = 1 .. 7
    OBVIOUS
  <2>2. tiers[7] # Null
    BY DecisionsAreNotNull
  <2> HIDE DEF tiers
  <2> QED BY <2>1, <2>2, FirstOfFinds
<1>14. /\ tiers[1] = (IF open THEN Deny(Null) ELSE Null) /\ tiers[2] = FirstOf(B)
       /\ tiers[3] = FirstOf(V) /\ tiers[4] = FirstOf(U)
       /\ tiers[5] = (IF p.suspicious THEN Deny(Null) ELSE Null)
       /\ tiers[6] = FirstOf(A) /\ tiers[7] = DefaultAllow
  BY DEF checkInjectionHeuristic
<1>15. \A d \in Denials : d.status = "DENY"
  BY DEF Denials
<1>16. \A d \in Escalations : d.status = "PENDING_APPROVAL"
  BY DEF Escalations
<1>17. DefaultAllow.status = "ALLOW"
  BY DEF DefaultAllow
<1> DEFINE denied == open \/ p.suspicious \/ Forbidding(p, R, usage) # {}
<1>18. denied <=> \E j \in 1 .. 5 : tiers[j] # Null
  BY <1>7, <1>8, <1>9, <1>11, <1>14, DecisionsAreNotNull
<1> HIDE DEF tiers, R, denied
<1>19. \A j \in 1 .. 5 : tiers[j] \in Denials \cup {Null}
  BY <1>7, <1>8, <1>9, <1>14, DecisionsAreNotNull
<1>20. ASSUME denied
       PROVE  evaluate(p, rules, usage, open).status
                = ReferenceStatus(p, RuleSet(rules), usage, open)
  <2>1. k \in 1 .. 5
    BY <1>13, <1>18, <1>20
  <2>2. tiers[k].status = "DENY"
    BY <1>13, <1>15, <1>19, <2>1
  <2> QED BY <1>1, <1>13, <1>20, <2>2 DEF ReferenceStatus, denied, R
<1>21. ASSUME ~denied
       PROVE  evaluate(p, rules, usage, open).status
                = ReferenceStatus(p, RuleSet(rules), usage, open)
  <2>1. k \in {6, 7}
    BY <1>13, <1>18, <1>21
  <2>2. CASE Escalating(p, R) # {}
    <3>1. k = 6
      BY <1>10, <1>12, <1>13, <1>14, <2>1, <2>2
    <3> QED BY <1>1, <1>10, <1>13, <1>14, <1>16, <1>21, <2>2, <3>1
            DEF ReferenceStatus, denied, R
  <2>3. CASE Escalating(p, R) = {}
    <3>1. k = 7
      BY <1>10, <1>12, <1>13, <1>14, <2>1, <2>3
    <3> QED BY <1>1, <1>13, <1>14, <1>17, <1>21, <2>3, <3>1
            DEF ReferenceStatus, denied, R
  <2> QED BY <2>2, <2>3
<1>22. evaluate(p, rules, usage, open) \in Decision
  <2>1. k \in 1 .. 5 \/ k = 6 \/ k = 7
    OBVIOUS
  <2>2. Denials \subseteq Decision /\ Escalations \subseteq Decision
    BY DEF Denials, Escalations
  <2>3. DefaultAllow \in Decision
    BY DEF DefaultAllow, Decision
  <2> QED
    BY <1>1, <1>10, <1>13, <1>14, <1>19, <2>1, <2>2, <2>3
<1>23. evaluate(p, rules, usage, open).status = ReferenceStatus(p, RuleSet(rules), usage, open)
  BY <1>20, <1>21
<1> QED BY <1>22, <1>23
-----------------------------------------------------------------------------
(* Attribution                                                             *)

\* A tier with an opinion has the opinion of one of its rules.
LEMMA TierNamesARule ==
  ASSUME NEW S, DOMAIN S \subseteq Nat, FirstOf(S) # Null
  PROVE  \E i \in DOMAIN S : S[i] # Null /\ FirstOf(S) = S[i]
<1>1. \E i \in DOMAIN S : S[i] # Null
  BY FirstOfNone
<1> QED BY <1>1, FirstOfFinds

\* Each of the three denying tiers, and the approval tier, alone.
LEMMA OneRuleDecides ==
  ASSUME NEW p, p.suspicious \in BOOLEAN, NEW r, r.enabled, NEW usage,
         NEW open \in BOOLEAN
  PROVE  /\ (\/ checkBlock(p, r) # Null
             \/ checkInputValidation(p, r) # Null
             \/ checkBudget(p, r, usage) # Null)
            => ReferenceStatus(p, {r}, usage, open) = "DENY"
         /\ checkApproval(p, r) # Null
            => ReferenceStatus(p, {r}, usage, open) \in {"DENY", "PENDING_APPROVAL"}
<1>1. ASSUME \/ checkBlock(p, r) # Null
             \/ checkInputValidation(p, r) # Null
             \/ checkBudget(p, r, usage) # Null
      PROVE  r \in Forbidding(p, {r}, usage)
  BY <1>1 DEF Forbidding, checkBlock, checkInputValidation, checkBudget
<1>2. ASSUME checkApproval(p, r) # Null PROVE r \in Escalating(p, {r})
  BY <1>2 DEF Escalating, checkApproval
<1> QED BY <1>1, <1>2 DEF ReferenceStatus

\* The rule a verdict names is an enabled one of the list that calls for this verdict
\* all by itself: what is attested and displayed as the reason is one.
THEOREM VerdictNamesItsRule ==
  ASSUME NEW p, p.suspicious \in BOOLEAN,
         NEW rules, IsRuleList(rules), NEW usage, NEW open \in BOOLEAN,
         NEW d, d = evaluate(p, rules, usage, open), d.matchedRuleId # Null
  PROVE  \E r \in RuleSet(rules) : Justifies(r, d, p, usage, open)
<1> DEFINE B == [i \in DOMAIN rules |->
                   IF rules[i].enabled THEN checkBlock(p, rules[i]) ELSE Null]
           V == [i \in DOMAIN rules |->
                   IF rules[i].enabled THEN checkInputValidation(p, rules[i]) ELSE Null]
           U == [i \in DOMAIN rules |->
                   IF rules[i].enabled THEN checkBudget(p, rules[i], usage) ELSE Null]
           A == [i \in DOMAIN rules |->
                   IF rules[i].enabled THEN checkApproval(p, rules[i]) ELSE Null]
           tiers == << IF open THEN Deny(Null) ELSE Null, FirstOf(B), FirstOf(V),
                       FirstOf(U), checkInjectionHeuristic(p), FirstOf(A), DefaultAllow >>
           named(r) == /\ r \in RuleSet(rules) /\ r.id = d.matchedRuleId
                       /\ ReferenceStatus(p, {r}, usage, open) = d.status
<1>1. d = FirstOf(tiers)
  BY DEF evaluate, Consult
<1>2. /\ DOMAIN rules \subseteq Nat
      /\ DOMAIN B = DOMAIN rules /\ DOMAIN V = DOMAIN rules
      /\ DOMAIN U = DOMAIN rules /\ DOMAIN A = DOMAIN rules
      /\ \A i \in DOMAIN rules : rules[i] \in RuleSet(rules) /\ rules[i].enabled \in BOOLEAN
  BY DEF IsRuleList, RuleSet
<1>3. \A i \in DOMAIN rules :
        /\ B[i] # Null => rules[i].enabled /\ B[i] = checkBlock(p, rules[i])
        /\ V[i] # Null => rules[i].enabled /\ V[i] = checkInputValidation(p, rules[i])
        /\ U[i] # Null => rules[i].enabled /\ U[i] = checkBudget(p, rules[i], usage)
        /\ A[i] # Null => rules[i].enabled /\ A[i] = checkApproval(p, rules[i])
  BY <1>2
<1> HIDE DEF B, V, U, A
<1>4. PICK k \in 1 .. 7 : tiers[k] # Null /\ d = tiers[k]
  <2>1. DOMAIN tiers = 1 .. 7 /\ tiers[7] # Null
    BY DecisionsAreNotNull
  <2> HIDE DEF tiers
  <2> QED BY <1>1, <2>1, FirstOfFinds
<1>5. /\ tiers[1] = (IF open THEN Deny(Null) ELSE Null)
      /\ tiers[2] = FirstOf(B) /\ tiers[3] = FirstOf(V)
      /\ tiers[4] = FirstOf(U) /\ tiers[6] = FirstOf(A) /\ tiers[7] = DefaultAllow
      /\ tiers[5] = IF p.suspicious THEN Deny(Null) ELSE Null
  BY DEF checkInjectionHeuristic
<1> HIDE DEF tiers
<1>6. k \in {2, 3, 4, 6}
  <2>1. Deny(Null).matchedRuleId = Null /\ DefaultAllow.matchedRuleId = Null
    BY DEF Deny, DefaultAllow
  <2> QED BY <1>4, <1>5, <2>1
<1>7. d.status = ReferenceStatus(p, RuleSet(rules), usage, open)
  BY StatusIsOrderFree
<1> SUFFICES \E r : named(r)
  BY DEF Justifies
<1>8. ASSUME k \in {2, 3, 4} PROVE \E r : named(r)
  <2>1. PICK i \in DOMAIN rules :
               /\ rules[i].enabled
               /\ \/ d = checkBlock(p, rules[i]) \/ d = checkInputValidation(p, rules[i])
                  \/ d = checkBudget(p, rules[i], usage)
               /\ d # Null
    BY <1>2, <1>3, <1>4, <1>5, <1>8, TierNamesARule
  <2>2. d = Deny(rules[i].id)
    BY <2>1 DEF checkBlock, checkInputValidation, checkBudget
  <2>3. d.status = "DENY" /\ d.matchedRuleId = rules[i].id
    BY <2>2 DEF Deny
  <2>4. ReferenceStatus(p, {rules[i]}, usage, open) = "DENY"
    BY <2>1, OneRuleDecides DEF ReferenceStatus
  <2> QED BY <1>2, <2>3, <2>4
<1>9. ASSUME k = 6 PROVE \E r : named(r)
  <2>1. PICK i \in DOMAIN rules : rules[i].enabled /\ d = checkApproval(p, rules[i]) /\ d # Null
    BY <1>2, <1>3, <1>4, <1>5, <1>9, TierNamesARule
  <2>2. d = Pending(rules[i].id)
    BY <2>1 DEF checkApproval
  <2>3. d.status = "PENDING_APPROVAL" /\ d.matchedRuleId = rules[i].id
    BY <2>2 DEF Pending
  <2>4. ~open /\ ~p.suspicious /\ Forbidding(p, RuleSet(rules), usage) = {}
    BY <1>7, <2>3 DEF ReferenceStatus
  <2>5. Forbidding(p, {rules[i]}, usage) = {}
    BY <1>2, <2>4 DEF Forbidding
  <2>6. ReferenceStatus(p, {rules[i]}, usage, open) = "PENDING_APPROVAL"
    BY <2>1, <2>4, <2>5, OneRuleDecides DEF ReferenceStatus
  <2> QED BY <1>2, <2>3, <2>6
<1> QED BY <1>6, <1>8, <1>9
=============================================================================
