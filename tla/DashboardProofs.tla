--------------------------- MODULE DashboardProofs ---------------------------
(***************************************************************************)
(* What the dashboard shows is so: the badges of the Approvals page, for   *)
(* any number of badges, keys and alterations, and the rows of the Live    *)
(* Console, for any number of turns, steps, conversations, broken          *)
(* connections and restarts.                                               *)
(***************************************************************************)
EXTENDS Attestation, ConsoleStream, SequenceTheorems, TLAPS

-----------------------------------------------------------------------------
(* The badges: where each key in the page comes from (the server had it    *)
(* since the page was loaded), what each state of a badge and each answer  *)
(* under way tells of the attestation, and that there is one key pair as   *)
(* long as nobody removes the file.                                        *)

Attested(n) == [keyId : 1 .. n, signed : Contents,
                signature : [by : Nat, of : Contents] \cup {Null}]

Badge(n) ==
  [att : Attested(n) \cup {Null}, state : {"idle", "fetching", "asking", "valid", "invalid"},
   answer : {"valid", "invalid", Null} \cup 1 .. n, lost : BOOLEAN]

TypeOK ==
  /\ keys \in Nat
  /\ file \in 1 .. keys \cup {Null, Torn}
  /\ server \in 1 .. keys \cup {Null}
  /\ stored \in [Badges -> Attested(keys) \cup {Null}]
  /\ badge \in [Badges -> Badge(keys)]
  /\ removed \in BOOLEAN

\* The page's key, like those on their way to it, is one the server had since it was loaded.
KeysAreServed ==
  /\ served \subseteq 1 .. keys
  /\ server # Null => server \in served
  /\ cachedKey \in served \cup {Null, Undefined}

\* A crash or a restart makes no second key pair: that takes the loss of the file.
OneKeyPair == removed \/ (keys = 1 /\ file # Null) \/ (keys = 0 /\ file = Null)

\* What valid and invalid tell of an attestation: that one of n keys signed it, and that
\* it is not genuine or the file was removed and some key served is not the signing one.
Confirmed(att, n) == \E k \in 1 .. n : att.signature = signature(k, att.signed)
Refuted(att, lostFile, keysServed) ==
  signedWith(att, att.keyId) => lostFile /\ \E k \in keysServed : k # att.keyId

\* The states of a badge and the answers on their way to it tell the truth.
Truthful(b, n, lostFile, keysServed) ==
  /\ b.state # "idle" => b.att # Null
  /\ b.state = "fetching" => b.answer \in keysServed \cup {Null}
  /\ b.state = "asking" => /\ b.answer \in {"valid", "invalid", Null}
                           /\ b.answer = "valid" => Confirmed(b.att, n)
                           /\ b.answer = "invalid" => Refuted(b.att, lostFile, keysServed)
  /\ b.state = "valid" => Confirmed(b.att, n)
  /\ b.state = "invalid" => b.lost \/ Refuted(b.att, lostFile, keysServed)

BadgesAreTruthful == \A a \in Badges : Truthful(badge[a], keys, removed, served)

IInv == TypeOK /\ KeysAreServed /\ OneKeyPair /\ BadgesAreTruthful

USE AttestationAssumption

LEMMA InitIInv == Init => IInv
<1> SUFFICES ASSUME Init PROVE IInv
  OBVIOUS
<1>1. \A a \in Badges : badge[a] = [att |-> Null, state |-> "idle", answer |-> Null,
                                    lost |-> FALSE]
  BY DEF Init
<1>2. TypeOK
  BY DEF Init, TypeOK, Badge
<1> QED BY <1>1, <1>2 DEF Init, IInv, KeysAreServed, OneKeyPair, BadgesAreTruthful, Truthful

\* A truthful badge stays truthful while the server changes under it: more keys, more
\* keys served and a file removed take nothing back of what was said.
LEMMA BadgesStay ==
  ASSUME IInv, keys' \in Nat, keys <= keys', removed' \in BOOLEAN, removed => removed',
         served \subseteq served', badge' = badge, stored' = stored
  PROVE  /\ BadgesAreTruthful'
         /\ badge' \in [Badges -> Badge(keys')]
         /\ stored' \in [Badges -> Attested(keys') \cup {Null}]
<1>0. 1 .. keys \subseteq 1 .. keys' /\ keys \in Nat /\ removed \in BOOLEAN
  BY DEF IInv, TypeOK
<1>1. Attested(keys) \subseteq Attested(keys')
  BY <1>0 DEF Attested
<1>2. Badge(keys) \subseteq Badge(keys')
  BY <1>0, <1>1 DEF Badge
<1>3. ASSUME NEW a \in Badges PROVE Truthful(badge[a], keys', removed', served')
  <2>1. Truthful(badge[a], keys, removed, served)
    BY DEF IInv, BadgesAreTruthful
  <2>2. Confirmed(badge[a].att, keys) => Confirmed(badge[a].att, keys')
    BY <1>0 DEF Confirmed
  <2>3. Refuted(badge[a].att, removed, served) => Refuted(badge[a].att, removed', served')
    BY DEF Refuted
  <2> QED BY <2>1, <2>2, <2>3 DEF Truthful
<1>4. stored' \in [Badges -> Attested(keys') \cup {Null}]
  BY <1>1 DEF IInv, TypeOK
<1>5. badge' \in [Badges -> Badge(keys')]
  BY <1>2 DEF IInv, TypeOK
<1> QED BY <1>3, <1>4, <1>5 DEF BadgesAreTruthful

\* The key file and the server: the page is left alone.
LEMMA ServerStep ==
  ASSUME IInv, LoadKeys \/ CreateKeys \/ Crash \/ LoseFile
  PROVE  IInv'
<1>1. /\ keys \in Nat /\ served \subseteq 1 .. keys
      /\ file \in 1 .. keys \cup {Null, Torn} /\ server \in 1 .. keys \cup {Null}
      /\ removed \in BOOLEAN
  BY DEF IInv, TypeOK, KeysAreServed
<1>2. /\ keys' \in Nat /\ keys <= keys' /\ removed' \in BOOLEAN /\ (removed => removed')
      /\ served \subseteq served' /\ badge' = badge /\ stored' = stored
  <2>1. CASE LoadKeys
    BY <1>1, <2>1 DEF LoadKeys, Up
  <2>2. CASE CreateKeys
    BY <1>1, <2>2 DEF CreateKeys, Up
  <2>3. CASE Crash
    BY <1>1, <2>3 DEF Crash
  <2>4. CASE LoseFile
    BY <1>1, <2>4 DEF LoseFile
  <2> QED BY <2>1, <2>2, <2>3, <2>4
<1>3. /\ BadgesAreTruthful'
      /\ badge' \in [Badges -> Badge(keys')]
      /\ stored' \in [Badges -> Attested(keys') \cup {Null}]
  BY <1>2, BadgesStay
<1>4. 1 .. keys \subseteq 1 .. keys'
  BY <1>1, <1>2
<1> DEFINE Rest == KeysAreServed' /\ OneKeyPair'
                     /\ file' \in 1 .. keys' \cup {Null, Torn} /\ server' \in 1 .. keys' \cup {Null}
<1>5. ASSUME LoadKeys PROVE Rest
  BY <1>1, <1>5 DEF LoadKeys, Up, Keys, IInv, KeysAreServed, OneKeyPair
<1>6. ASSUME CreateKeys PROVE Rest
  <2>1. keys' = keys + 1 /\ keys' \in 1 .. keys'
    BY <1>1, <1>6 DEF CreateKeys
  <2>2. /\ cachedKey' \in served \cup {Null, Undefined}
        /\ removed' = removed /\ (removed \/ keys' = 1)
        /\ server = Null
    BY <1>1, <1>6, <2>1 DEF CreateKeys, IInv, KeysAreServed, OneKeyPair
  <2>3. ASSUME file' = keys', Up(keys') PROVE Rest
    BY <1>1, <1>4, <2>1, <2>2, <2>3 DEF Up, KeysAreServed, OneKeyPair
  <2>4. ASSUME file' = Torn, UNCHANGED <<server, served>> PROVE Rest
    BY <1>1, <1>4, <2>1, <2>2, <2>4 DEF KeysAreServed, OneKeyPair
  <2> HIDE DEF Rest
  <2> QED BY <1>6, <2>3, <2>4 DEF CreateKeys
<1>7. ASSUME Crash PROVE Rest
  BY <1>1, <1>7 DEF Crash, IInv, KeysAreServed, OneKeyPair
<1>8. ASSUME LoseFile PROVE Rest
  BY <1>1, <1>8 DEF LoseFile, IInv, KeysAreServed, OneKeyPair
<1>9. Rest
  BY <1>5, <1>6, <1>7, <1>8
<1> QED BY <1>2, <1>3, <1>9 DEF IInv, TypeOK

\* Signing, and altering what is stored: a page keeps the copies it was loaded with.
LEMMA StoredStep ==
  ASSUME IInv, NEW a \in Badges, Alter(a) \/ \E content \in Contents : attestDecision(a, content)
  PROVE  IInv'
<1>1. stored' \in [Badges -> Attested(keys) \cup {Null}]
  <2>1. keys \in Nat /\ stored \in [Badges -> Attested(keys) \cup {Null}]
        /\ server \in 1 .. keys \cup {Null}
    BY DEF IInv, TypeOK
  <2>2. CASE Alter(a)
    <3>1. stored[a] \in Attested(keys)
      BY <2>1, <2>2 DEF Alter
    <3>2. /\ \A c \in Contents : [stored[a] EXCEPT !.signed = c] \in Attested(keys)
          /\ \A k \in Keys : [stored[a] EXCEPT !.keyId = k] \in Attested(keys)
          /\ [stored[a] EXCEPT !.signature = Null] \in Attested(keys)
      BY <3>1 DEF Attested, Keys
    <3> HIDE DEF Attested
    <3> QED BY <2>1, <2>2, <3>2 DEF Alter
  <2>3. ASSUME NEW c \in Contents, attestDecision(a, c)
        PROVE  stored' \in [Badges -> Attested(keys) \cup {Null}]
    <3>1. [keyId |-> server, signed |-> c, signature |-> signature(server, c)] \in Attested(keys)
      BY <2>1, <2>3 DEF attestDecision, Attested, signature
    <3> QED BY <2>1, <2>3, <3>1 DEF attestDecision
  <2> QED BY <2>2, <2>3
<1>2. UNCHANGED <<file, keys, server, cachedKey, badge, served, removed>>
  BY DEF Alter, attestDecision
<1> QED BY <1>1, <1>2 DEF IInv, TypeOK, KeysAreServed, OneKeyPair, BadgesAreTruthful

LEMMA LoadStep == ASSUME IInv, Load PROVE IInv'
<1>1. badge' \in [Badges -> Badge(keys)]
  BY DEF IInv, TypeOK, Load, Badge
<1>2. \A a \in Badges : badge'[a].state = "idle"
  BY DEF Load
<1>3. BadgesAreTruthful'
  BY <1>2 DEF BadgesAreTruthful, Truthful
<1> QED BY <1>1, <1>3 DEF IInv, TypeOK, KeysAreServed, OneKeyPair, Load

\* What is left to show of a step of badge a: the new record of a, b, tells the truth.
LEMMA BadgeStep ==
  ASSUME IInv, NEW a \in Badges, NEW b \in Badge(keys),
         badge' = [badge EXCEPT ![a] = b], Truthful(b, keys, removed, served),
         UNCHANGED <<file, keys, server, stored, served, removed>>,
         cachedKey' \in served \cup {Null, Undefined}
  PROVE  IInv'
<1>1. badge \in [Badges -> Badge(keys)]
  BY DEF IInv, TypeOK
<1>2. badge' \in [Badges -> Badge(keys)]
  BY <1>1
<1>3. \A c \in Badges : badge'[c] = IF c = a THEN b ELSE badge[c]
  BY <1>1
<1>4. BadgesAreTruthful'
  BY <1>3 DEF IInv, BadgesAreTruthful
<1> QED BY <1>2, <1>4 DEF IInv, TypeOK, KeysAreServed, OneKeyPair

\* A key that was served and is not the signing one means that the file was removed.
LEMMA OtherKeyIsExplained ==
  ASSUME IInv, NEW a \in Badges, badge[a].att # Null, NEW k \in served,
         k # badge[a].att.keyId
  PROVE  removed
<1>1. badge[a].att.keyId \in 1 .. keys
  <2>1. badge[a] \in Badge(keys)
    BY DEF IInv, TypeOK
  <2>2. badge[a].att \in Attested(keys)
    BY <2>1 DEF Badge
  <2> QED BY <2>2 DEF Attested
<1>2. k \in 1 .. keys /\ keys \in Nat
  BY DEF IInv, TypeOK, KeysAreServed
<1>3. keys # 0 /\ keys # 1
  BY <1>1, <1>2
<1> QED BY <1>3 DEF IInv, OneKeyPair

\* The shows that a key served gives is true.
LEMMA VerdictIsTrue ==
  ASSUME IInv, NEW a \in Badges, badge[a].att # Null, NEW k \in served
  PROVE  /\ signedWith(badge[a].att, k) => Confirmed(badge[a].att, keys)
         /\ ~signedWith(badge[a].att, k) => Refuted(badge[a].att, removed, served)
<1>1. k \in 1 .. keys
  BY DEF IInv, KeysAreServed
<1>2. signedWith(badge[a].att, k) => Confirmed(badge[a].att, keys)
  BY <1>1 DEF signedWith, Confirmed
<1>3. ASSUME ~signedWith(badge[a].att, k), signedWith(badge[a].att, badge[a].att.keyId)
      PROVE  removed /\ k # badge[a].att.keyId
  <2>1. k # badge[a].att.keyId
    BY <1>3
  <2> QED BY <2>1, OtherKeyIsExplained
<1> QED BY <1>2, <1>3 DEF Refuted

\* A badge becomes what is true of its attestation.
LEMMA BecomeStep ==
  ASSUME IInv, NEW a \in Badges, badge[a].att # Null,
         NEW s \in {"fetching", "asking", "valid", "invalid"}, become(a, s),
         s = "valid" => Confirmed(badge[a].att, keys),
         s = "invalid" => Refuted(badge[a].att, removed, served),
         UNCHANGED <<file, keys, server, stored, served, removed>>,
         cachedKey' \in served \cup {Null, Undefined}
  PROVE  IInv'
<1> DEFINE b == [badge[a] EXCEPT !.state = s, !.answer = Null, !.lost = FALSE]
<1>1. badge[a] \in Badge(keys) /\ badge \in [Badges -> Badge(keys)]
  BY DEF IInv, TypeOK
<1>2. b \in Badge(keys) /\ b.state = s /\ b.answer = Null /\ b.att = badge[a].att
  BY <1>1 DEF Badge
<1>3. badge' = [badge EXCEPT ![a] = b]
  BY <1>1 DEF become
<1> HIDE DEF b
<1>4. Truthful(b, keys, removed, served)
  BY <1>2 DEF Truthful
<1> QED BY <1>2, <1>3, <1>4, BadgeStep

LEMMA CheckStep ==
  ASSUME IInv, NEW a \in Badges, badge[a].att # Null, NEW k \in served \cup {Null}, check(a, k),
         UNCHANGED <<file, keys, server, stored, served, removed>>,
         cachedKey' \in served \cup {Null, Undefined}
  PROVE  IInv'
<1>1. CASE k # Null /\ badge[a].att.signature # Null
  <2> DEFINE s == shows(signedWith(badge[a].att, k))
  <2>1. /\ s \in {"valid", "invalid"}
        /\ s = "valid" => signedWith(badge[a].att, k)
        /\ s = "invalid" => ~signedWith(badge[a].att, k)
    BY DEF shows
  <2>2. become(a, s)
    BY <1>1 DEF check
  <2>3. /\ s = "valid" => Confirmed(badge[a].att, keys)
        /\ s = "invalid" => Refuted(badge[a].att, removed, served)
    BY <1>1, <2>1, VerdictIsTrue
  <2> HIDE DEF s
  <2> QED BY <2>1, <2>2, <2>3, BecomeStep
<1>2. CASE ~(k # Null /\ badge[a].att.signature # Null)
  <2>1. become(a, "asking")
    BY <1>2 DEF check
  <2> QED BY <2>1, BecomeStep
<1> QED BY <1>1, <1>2

LEMMA VerifyStep == ASSUME IInv, NEW a \in Badges, Verify(a) PROVE IInv'
<1>1. cachedKey \in served \cup {Null, Undefined} /\ badge[a].att # Null
  BY DEF IInv, KeysAreServed, Verify
<1>2. CASE cachedKey = Undefined
  BY <1>1, <1>2, BecomeStep DEF Verify
<1>3. CASE cachedKey # Undefined
  BY <1>1, <1>3, CheckStep DEF Verify
<1> QED BY <1>2, <1>3

LEMMA KeyArrivesStep == ASSUME IInv, NEW a \in Badges, KeyArrives(a) PROVE IInv'
<1>1. Truthful(badge[a], keys, removed, served) /\ badge[a].state = "fetching"
  BY DEF IInv, BadgesAreTruthful, KeyArrives
<1>2. badge[a].answer \in served \cup {Null} /\ badge[a].att # Null
  BY <1>1 DEF Truthful
<1>3. PICK k \in {badge[a].answer, Null} : cachedKey' = k /\ check(a, k)
  BY DEF KeyArrives
<1> QED BY <1>2, <1>3, CheckStep DEF KeyArrives

LEMMA AnswerStep == ASSUME IInv, NEW a \in Badges, Answer(a) PROVE IInv'
<1>1. /\ badge[a] \in Badge(keys) /\ badge \in [Badges -> Badge(keys)]
      /\ Truthful(badge[a], keys, removed, served)
      /\ server \in served /\ server \in 1 .. keys
  BY DEF IInv, TypeOK, KeysAreServed, BadgesAreTruthful, Answer
<1> DEFINE b(x) == [badge[a] EXCEPT !.answer = x]
<1>2. \A x \in {"valid", "invalid"} \cup 1 .. keys :
        /\ b(x) \in Badge(keys) /\ b(x).answer = x
        /\ b(x).state = badge[a].state /\ b(x).att = badge[a].att
  BY <1>1 DEF Badge
<1>3. CASE badge[a].state = "fetching" /\ badge' = [badge EXCEPT ![a].answer = server]
  <2>1. badge' = [badge EXCEPT ![a] = b(server)]
    BY <1>1, <1>3
  <2>2. Truthful(b(server), keys, removed, served)
    BY <1>1, <1>2, <1>3 DEF Truthful
  <2> HIDE DEF b
  <2> QED BY <1>1, <1>2, <2>1, <2>2, BadgeStep DEF Answer, IInv, KeysAreServed
<1>4. CASE /\ badge[a].state = "asking"
           /\ badge' = [badge EXCEPT ![a].answer = shows(accepts(badge[a].att))]
  <2> DEFINE x == shows(accepts(badge[a].att))
  <2>1. /\ x \in {"valid", "invalid"}
        /\ x = "valid" => signedWith(badge[a].att, server)
        /\ x = "invalid" => badge[a].att.keyId # server \/ ~signedWith(badge[a].att, server)
    BY DEF shows, accepts
  <2>2. badge[a].att # Null
    BY <1>1, <1>4 DEF Truthful
  <2>3. /\ signedWith(badge[a].att, server) => Confirmed(badge[a].att, keys)
        /\ ~signedWith(badge[a].att, server) => Refuted(badge[a].att, removed, served)
    BY <1>1, <2>2, VerdictIsTrue
  <2>4. badge[a].att.keyId # server => Refuted(badge[a].att, removed, served)
    BY <1>1, <2>2, OtherKeyIsExplained DEF Refuted
  <2>5. badge' = [badge EXCEPT ![a] = b(x)]
    BY <1>1, <1>4
  <2> HIDE DEF x
  <2>6. Truthful(b(x), keys, removed, served)
    BY <1>2, <1>4, <2>1, <2>2, <2>3, <2>4 DEF Truthful
  <2> HIDE DEF b
  <2> QED BY <1>1, <1>2, <2>1, <2>5, <2>6, BadgeStep DEF Answer, IInv, KeysAreServed
<1> QED BY <1>3, <1>4 DEF Answer

LEMMA AnswerArrivesStep == ASSUME IInv, NEW a \in Badges, AnswerArrives(a) PROVE IInv'
<1>1. /\ badge[a] \in Badge(keys) /\ badge \in [Badges -> Badge(keys)]
      /\ Truthful(badge[a], keys, removed, served) /\ badge[a].state = "asking"
      /\ cachedKey' \in served \cup {Null, Undefined}
  BY DEF IInv, TypeOK, KeysAreServed, BadgesAreTruthful, AnswerArrives
<1>2. CASE badge[a].answer # Null /\ become(a, badge[a].answer)
  <2>1. /\ badge[a].answer \in {"valid", "invalid"} /\ badge[a].att # Null
        /\ badge[a].answer = "valid" => Confirmed(badge[a].att, keys)
        /\ badge[a].answer = "invalid" => Refuted(badge[a].att, removed, served)
    BY <1>1, <1>2 DEF Truthful
  <2> QED BY <1>1, <1>2, <2>1, BecomeStep DEF AnswerArrives
<1>3. CASE badge' = [badge EXCEPT ![a].state = "invalid", ![a].answer = Null, ![a].lost = TRUE]
  <2> DEFINE b == [badge[a] EXCEPT !.state = "invalid", !.answer = Null, !.lost = TRUE]
  <2>1. badge' = [badge EXCEPT ![a] = b]
    BY <1>1, <1>3
  <2>2. b \in Badge(keys) /\ b.state = "invalid" /\ b.att = badge[a].att /\ b.lost
    BY <1>1 DEF Badge
  <2>3. Truthful(b, keys, removed, served)
    BY <1>1, <2>2 DEF Truthful
  <2> HIDE DEF b
  <2> QED BY <1>1, <2>1, <2>2, <2>3, BadgeStep DEF AnswerArrives
<1> QED BY <1>2, <1>3 DEF AnswerArrives

LEMMA StepIInv == IInv /\ [Next]_vars => IInv'
<1> SUFFICES ASSUME IInv, [Next]_vars PROVE IInv'
  OBVIOUS
<1>1. CASE LoadKeys \/ CreateKeys \/ Crash \/ LoseFile
  BY <1>1, ServerStep
<1>2. CASE Load
  BY <1>2, LoadStep
<1>3. ASSUME NEW a \in Badges, Alter(a) \/ \E content \in Contents : attestDecision(a, content)
      PROVE  IInv'
  BY <1>3, StoredStep
<1>4. ASSUME NEW a \in Badges, Verify(a) PROVE IInv'
  BY <1>4, VerifyStep
<1>5. ASSUME NEW a \in Badges, Answer(a) PROVE IInv'
  BY <1>5, AnswerStep
<1>6. ASSUME NEW a \in Badges, KeyArrives(a) PROVE IInv'
  BY <1>6, KeyArrivesStep
<1>7. ASSUME NEW a \in Badges, AnswerArrives(a) PROVE IInv'
  BY <1>7, AnswerArrivesStep
<1>8. CASE UNCHANGED vars
  BY <1>8 DEF vars, IInv, TypeOK, KeysAreServed, OneKeyPair, BadgesAreTruthful
<1> QED BY <1>1, <1>2, <1>3, <1>4, <1>5, <1>6, <1>7, <1>8 DEF Next

LEMMA Invariance == Spec => []IInv
BY InitIInv, StepIInv, PTL DEF Spec

\* "signature valid" is shown only of what one of the system's keys signed.
THEOREM ValidMeansSignedHolds == Spec => []ValidMeansSigned
<1>1. IInv => ValidMeansSigned
  BY DEF IInv, BadgesAreTruthful, Truthful, ValidMeansSigned, Confirmed, Keys
<1> QED BY <1>1, Invariance, PTL

\* "signature invalid" is shown of a genuine attestation only after a lost request, or
\* when somebody removed the key file and the server went on with another key.
THEOREM InvalidIsExplainedHolds == Spec => []InvalidIsExplained
<1>1. IInv => InvalidIsExplained
  <2> SUFFICES ASSUME IInv, NEW a \in Badges, badge[a].state = "invalid",
                      Genuine(badge[a].att), ~badge[a].lost
               PROVE  removed /\ served # {badge[a].att.keyId}
    BY DEF InvalidIsExplained
  <2>1. Refuted(badge[a].att, removed, served)
    BY DEF IInv, BadgesAreTruthful, Truthful
  <2> QED BY <2>1 DEF Refuted, Genuine
<1> QED BY <1>1, Invariance, PTL

-----------------------------------------------------------------------------
(* The console: each field of a row is right unless an event that sets it  *)
(* is on its way, and the last of those on their way is right.             *)

Event == [type : {"turn:start", "turn:end", "assistant:text", "error"} \cup
                 {"proposal", "decision", "approval:required", "execution"},
          turn : Turns, id : Ids \cup {None}, value : Statuses \cup {None}]
TurnState == [pc : Active \cup {"unsent", "posted", "ended"}, step : 0 .. MaxSteps, conv : Nat]
Row == [shown : BOOLEAN, decision : Statuses \cup {None}, approvalId : BOOLEAN, result : BOOLEAN]

ConsoleTypes ==
  /\ turn \in [Turns -> TurnState]
  /\ decision \in [Ids -> Statuses \cup {None}] /\ verdict \in [Ids -> Verdicts \cup {None}]
  /\ executed \subseteq Ids /\ pending \subseteq Ids
  /\ conv \in Nat \ {0} /\ wire \in Seq(Event)
  /\ rows \in [Ids -> Row] /\ running \in BOOLEAN /\ joined \in BOOLEAN
  /\ sending \in Turns \cup {None} /\ busy \in [Ids -> Verdicts \cup {None}]
  /\ missed \subseteq Turns /\ broken \subseteq Turns

\* What the place of a turn says of its calls.
TurnOK(t) ==
  /\ turn[t].conv <= conv /\ (turn[t].pc = "unsent" <=> turn[t].conv = 0)
  /\ turn[t].pc \in {"unsent", "posted"} => turn[t].step = 0
  /\ turn[t].pc \in {"proposed", "held", "calling"} =>
       current(t) \in Ids /\ current(t) \notin executed
  /\ turn[t].pc = "proposed" =>
       decision[current(t)] = None /\ verdict[current(t)] = None
  /\ turn[t].pc = "held" => decision[current(t)] = "PENDING_APPROVAL"

\* A call not yet proposed has left no trace; one in the Map is held.
CallOK(p) ==
  /\ p \notin proposed => decision[p] = None /\ verdict[p] = None /\ p \notin executed
  /\ p \in pending => turn[p[1]].pc = "held" /\ p = current(p[1]) /\ verdict[p] = None

\* An event on its way is about a turn of the tab's conversation, and what it says of a
\* call is so.
EventOK(e) ==
  /\ turn[e.turn].conv = conv
  /\ e.id = None <=> e.type \in {"turn:start", "turn:end", "assistant:text", "error"}
  /\ e.id # None =>
       /\ e.id[1] = e.turn /\ e.id \in proposed
       /\ e.type = "approval:required" => e.id \in held
       /\ e.type = "decision" => e.value # None
       /\ e.type = "decision" /\ e.value = "PENDING_APPROVAL" => e.id \in held
       /\ e.type = "execution" => e.id \in executed

\* What holds of every row; the rows of other conversations are blank.
RowOK(p) ==
  /\ turn[p[1]].conv # conv => rows[p] = NoRow
  /\ rows[p].approvalId => p \in held
  /\ busy[p] # None => rows[p].approvalId /\ (p \in pending => <<p, busy[p]>> \in posts)

\* Where the tab missed nothing of a turn, a row and the events on their way to it
\* together say what the server decided: they are in order, each field of the row is
\* right unless an event that sets it is on its way, and the last of them is right.
OnWire(p, type) == \E i \in DOMAIN wire : wire[i].id = p /\ wire[i].type = type
Followed(p) == turn[p[1]].conv = conv /\ p[1] \notin missed
InOrder(p) ==
  \A i, j \in DOMAIN wire : wire[i].id = p /\ wire[j].id = p /\ i < j =>
    wire[i].type # "execution" /\ wire[j].type # "proposal"
ShownWillBe(p) == rows[p].shown <=> p \in proposed /\ ~OnWire(p, "proposal")
ResultWillBe(p) == rows[p].result <=> p \in executed /\ ~OnWire(p, "execution")
DecisionWillBe(p) ==
  /\ ~OnWire(p, "decision") => rows[p].decision = decision[p]
  /\ \A i \in DOMAIN wire :
       /\ wire[i].id = p /\ wire[i].type = "decision"
       /\ \A j \in DOMAIN wire : wire[j].id = p /\ wire[j].type = "decision" => j <= i
       => wire[i].value = decision[p]
GateWillBe(p) ==
  /\ p \in held /\ ~OnWire(p, "approval:required")
  /\ p \in executed => OnWire(p, "execution")
  => rows[p].approvalId
WillBeRight(p) ==
  InOrder(p) /\ ShownWillBe(p) /\ ResultWillBe(p) /\ DecisionWillBe(p) /\ GateWillBe(p)

\* When all under way has arrived the console is running: no event that says otherwise
\* is on its way, or the last of these starts a turn.
Switch == {"turn:start", "turn:end", "error"}
WillRun ==
  \/ running /\ \A i \in DOMAIN wire : wire[i].type \notin Switch
  \/ \E i \in DOMAIN wire : /\ wire[i].type = "turn:start"
                            /\ \A j \in DOMAIN wire : wire[j].type \in Switch => j <= i
Explained(t) ==
  /\ turn[t].conv = conv
  /\ turn[t].pc \in Active \cup {"posted"} \/ t \in missed \cup broken

ConsoleInv ==
  /\ ConsoleTypes
  /\ \A t \in Turns : TurnOK(t)
  /\ \A p \in Ids : CallOK(p) /\ RowOK(p)
  /\ \A i \in DOMAIN wire : EventOK(wire[i])
  /\ \A p \in Ids : Followed(p) => WillBeRight(p)
  /\ WillRun => \E t \in Turns : Explained(t)

\* The countdown of a gate is not ahead of the timer of the call, which starts before the
\* gate can be there; without a gate nothing is counted.
ClockOK(p) ==
  /\ gateOpen(rows[p]) \/ elapsed[p] = 0
  /\ p \in pending \/ timeout[p] = 0
  /\ waited[p] <= timeout[p]
  /\ p \in pending => elapsed[p] <= waited[p] \/ waited[p] = timeout[p]

ClocksInv ==
  /\ timeout \in [Ids -> Nat] /\ waited \in [Ids -> Nat] /\ elapsed \in [Ids -> Nat]
  /\ timeoutFor \in [Tools -> Nat \cup {None}]
  /\ \A p \in Ids : ClockOK(p)

\* All but the clocks: ConsoleInv does not speak of them.
untimed == <<serverVars, joined, wire, tab, posts, missed, broken, losses>>

LEMMA Untimed ==
  ASSUME UNCHANGED consoleVars \/ LoadRules \/ \E p \in Ids : Second(p)
  PROVE  UNCHANGED untimed
BY DEF consoleVars, untimed, LoadRules, Second

-----------------------------------------------------------------------------
(* The states are well typed                                               *)

\* The fields of an event.
LEMMA EventTyped ==
  ASSUME NEW type \in {"turn:start", "turn:end", "assistant:text", "error"} \cup
                      {"proposal", "decision", "approval:required", "execution"},
         NEW t \in Turns, NEW p \in Ids \cup {None}, NEW value \in Statuses \cup {None}
  PROVE  /\ event(type, t, p, value) \in Event
         /\ event(type, t, p, value).type = type
         /\ event(type, t, p, value).turn = t
         /\ event(type, t, p, value).id = p
         /\ event(type, t, p, value).value = value
BY DEF event, Event

\* The wire with E appended: the events that were on it are where they were, the others
\* are E's.
LEMMA Appended ==
  ASSUME NEW E \in Seq(Event), wire \in Seq(Event), wire' = wire \o E
  PROVE  /\ wire' \in Seq(Event)
         /\ DOMAIN wire = 1 .. Len(wire) /\ Len(wire) \in Nat
         /\ DOMAIN wire' = 1 .. (Len(wire) + Len(E))
         /\ \A i \in DOMAIN wire : i \in DOMAIN wire' /\ wire'[i] = wire[i]
         /\ \A i \in DOMAIN E : Len(wire) + i \in DOMAIN wire' /\ wire'[Len(wire) + i] = E[i]
         /\ \A i \in DOMAIN wire' :
              \/ i \in DOMAIN wire
              \/ \E j \in DOMAIN E : i = Len(wire) + j
<1>1. /\ wire' \in Seq(Event) /\ Len(wire') = Len(wire) + Len(E)
      /\ Len(wire) \in Nat /\ Len(E) \in Nat
      /\ DOMAIN wire = 1 .. Len(wire) /\ DOMAIN E = 1 .. Len(E)
      /\ DOMAIN wire' = 1 .. Len(wire')
  BY ConcatProperties, LenProperties
<1>2. \A i \in 1 .. Len(wire) + Len(E) :
        wire'[i] = IF i <= Len(wire) THEN wire[i] ELSE E[i - Len(wire)]
  BY ConcatProperties
<1>3. ASSUME NEW i \in DOMAIN E
      PROVE  Len(wire) + i \in DOMAIN wire' /\ wire'[Len(wire) + i] = E[i]
  <2>1. Len(wire) + i \in 1 .. Len(wire) + Len(E) /\ ~(Len(wire) + i <= Len(wire))
    BY <1>1
  <2>2. (Len(wire) + i) - Len(wire) = i
    BY <1>1
  <2> QED BY <1>1, <1>2, <2>1, <2>2
<1>4. ASSUME NEW i \in DOMAIN wire', i \notin DOMAIN wire
      PROVE  \E j \in DOMAIN E : i = Len(wire) + j
  <2>1. i - Len(wire) \in DOMAIN E /\ i = Len(wire) + (i - Len(wire))
    BY <1>1, <1>4
  <2> QED BY <2>1
<1> QED BY <1>1, <1>2, <1>3, <1>4

\* An emission reaches the tab or the tab misses it.
LEMMA EmitTyped ==
  ASSUME NEW t \in Turns, NEW E \in Seq(Event), ConsoleTypes, emit(t, E)
  PROVE  wire' \in Seq(Event) /\ missed' \subseteq Turns
BY Appended DEF emit, ConsoleTypes

\* A turn that moves keeps its step and its conversation, and the other turns stay.
LEMMA MovesTyped ==
  ASSUME NEW t \in Turns, NEW pc \in Active \cup {"unsent", "posted", "ended"},
         ConsoleTypes, moves(t, pc)
  PROVE  /\ turn' \in [Turns -> TurnState]
         /\ turn'[t].pc = pc /\ turn'[t].step = turn[t].step /\ turn'[t].conv = turn[t].conv
         /\ \A u \in Turns : u # t => turn'[u] = turn[u]
         /\ \A u \in Turns : turn'[u].step = turn[u].step /\ turn'[u].conv = turn[u].conv
BY DEF moves, ConsoleTypes, TurnState

\* What the reducer makes of the rows.
LEMMA RowTyped ==
  ASSUME NEW e \in Event, ConsoleTypes,
         e.id = None <=> e.type \in {"turn:start", "turn:end", "assistant:text", "error"}
  PROVE  reduced(e) \in [Ids -> Row]
<1> DEFINE row == rows[e.id]
<1>1. CASE e.id = None
  BY <1>1 DEF reduced, ConsoleTypes
<1>2. CASE e.id # None
  <2>1. e.id \in Ids /\ row \in Row /\ e.value \in Statuses \cup {None}
    BY <1>2 DEF Event, ConsoleTypes
  <2>2. \A d \in Statuses \cup {None}, g \in BOOLEAN :
          /\ [row EXCEPT !.shown = TRUE] \in Row
          /\ [row EXCEPT !.shown = TRUE, !.approvalId = TRUE] \in Row
          /\ [row EXCEPT !.result = TRUE, !.approvalId = FALSE] \in Row
          /\ [row EXCEPT !.decision = d, !.approvalId = g] \in Row
    BY <2>1 DEF Row
  <2>3. (row.approvalId \/ e.value = "PENDING_APPROVAL") \in BOOLEAN
    OBVIOUS
  <2>4. e.type \in {"proposal", "decision", "approval:required", "execution"} \/
        e.type \in {"turn:start", "turn:end", "assistant:text", "error"}
    BY DEF Event
  <2> QED BY <1>2, <2>1, <2>2, <2>3, <2>4 DEF reduced, ConsoleTypes
<1> QED BY <1>1, <1>2

\* The steps of a turn keep the types: the events they emit are of the right type, too.
LEMMA TurnTyped ==
  ASSUME ConsoleInv, NEW t \in Turns, TurnStep(t)
  PROVE  ConsoleTypes'
<1> USE DEF ConsoleInv
<1>0. /\ Statuses = {"ALLOW", "DENY", "PENDING_APPROVAL"} /\ Verdicts = {"ALLOW", "DENY"}
      /\ \A s \in Statuses : s \in Statuses \cup {None}
      /\ None \in Ids \cup {None} /\ None \in Statuses \cup {None}
  BY DEF Statuses, Verdicts
<1>p. PICK p : p = current(t)
  OBVIOUS
<1>1. CASE Start(t)
  <2>1. PICK e \in Event : e = event("turn:start", t, None, None)
    BY <1>0, EventTyped
  <2>2. emit(t, <<e>>) /\ moves(t, "thinking") /\ <<e>> \in Seq(Event)
    BY <1>1, <2>1 DEF Start
  <2> QED BY <1>1, <2>2, EmitTyped, MovesTyped DEF Start, ConsoleTypes, Active, tab
<1>2. CASE Propose(t)
  <2>1. PICK n : n = turn[t].step + 1
    OBVIOUS
  <2>2. n \in 1 .. MaxSteps /\ <<t, n>> \in Ids /\ turn[t].step \in Nat
    BY <1>2, <2>1, ConsoleAssumption DEF Propose, ConsoleTypes, TurnState, Ids
  <2>3. PICK e \in Event : e = event("proposal", t, <<t, n>>, None)
    BY <1>0, <2>2, EventTyped
  <2>4. emit(t, <<e>>) /\ <<e>> \in Seq(Event)
    BY <1>2, <2>1, <2>3 DEF Propose
  <2>5. turn' = [turn EXCEPT ![t].pc = "proposed", ![t].step = n]
    BY <1>2, <2>1 DEF Propose, ConsoleTypes
  <2>6. turn' \in [Turns -> TurnState]
    <3>1. [turn[t] EXCEPT !.pc = "proposed", !.step = n] \in TurnState
      <4>1. turn[t] \in TurnState /\ n \in 0 .. MaxSteps
        BY <2>2, ConsoleAssumption DEF ConsoleTypes
      <4> QED BY <4>1 DEF TurnState, Active
    <3>2. turn' = [turn EXCEPT ![t] = [turn[t] EXCEPT !.pc = "proposed", !.step = n]]
      BY <2>5 DEF ConsoleTypes
    <3> QED BY <3>1, <3>2 DEF ConsoleTypes
  <2> QED BY <1>2, <2>4, <2>6, EmitTyped DEF Propose, ConsoleTypes, tab
<1>3. CASE Resume(t)
  <2>1. p \in Ids /\ turn[t].pc = "held"
    BY <1>3, <1>p DEF Resume, TurnOK
  <2>2. PICK v : v = verdict[p]
    OBVIOUS
  <2>3. v \in Verdicts /\ v \in Statuses
    BY <1>0, <1>3, <1>p, <2>1, <2>2 DEF Resume, ConsoleTypes
  <2>4. PICK e \in Event : e = event("decision", t, p, v)
    BY <1>0, <2>1, <2>3, EventTyped
  <2>5. emit(t, <<e>>) /\ <<e>> \in Seq(Event)
    BY <1>3, <1>p, <2>2, <2>4 DEF Resume
  <2>6. turn' \in [Turns -> TurnState]
    BY <1>3, MovesTyped DEF Resume, Active
  <2>7. decision' \in [Ids -> Statuses \cup {None}]
    BY <1>3, <1>p, <2>1, <2>2, <2>3 DEF Resume, ConsoleTypes
  <2> QED BY <1>3, <2>5, <2>6, <2>7, EmitTyped DEF Resume, ConsoleTypes, tab
<1>4. CASE Execute(t)
  <2>1. p \in Ids
    BY <1>4, <1>p DEF Execute, TurnOK
  <2>4. PICK e \in Event : e = event("execution", t, p, None)
    BY <1>0, <2>1, EventTyped
  <2>5. emit(t, <<e>>) /\ <<e>> \in Seq(Event)
    BY <1>4, <1>p, <2>4 DEF Execute
  <2>6. turn' \in [Turns -> TurnState]
    BY <1>4, MovesTyped DEF Execute, Active
  <2> QED BY <1>4, <1>p, <2>1, <2>5, <2>6, EmitTyped DEF Execute, ConsoleTypes, tab
<1>5. CASE End(t)
  <2>1. PICK last \in {"assistant:text", "error"} :
          emit(t, <<event(last, t, None, None), event("turn:end", t, None, None)>>)
    BY <1>5 DEF End
  <2>2. PICK e \in Event : e = event(last, t, None, None)
    BY <1>0, EventTyped
  <2>3. PICK f \in Event : f = event("turn:end", t, None, None)
    BY <1>0, EventTyped
  <2>4. emit(t, <<e, f>>) /\ <<e, f>> \in Seq(Event)
    BY <2>1, <2>2, <2>3
  <2>6. turn' \in [Turns -> TurnState]
    BY <1>5, MovesTyped DEF End, Active
  <2> QED BY <1>5, <2>4, <2>6, EmitTyped DEF End, ConsoleTypes, tab
<1>6. CASE Throw(t)
  <2>6. turn' \in [Turns -> TurnState]
    BY <1>6, MovesTyped DEF Throw, Active
  <2> QED BY <1>6, <2>6 DEF Throw, ConsoleTypes, tab
<1>7. ASSUME NEW status \in Statuses, Decide(t, status) PROVE ConsoleTypes'
  <2>1. p \in Ids /\ status \in Statuses \cup {None}
    BY <1>7, <1>p DEF Decide, TurnOK
  <2>2. PICK e \in Event : e = event("decision", t, p, status)
    BY <2>1, EventTyped
  <2>3. PICK f \in Event : f = event("approval:required", t, p, None)
    BY <1>0, <2>1, EventTyped
  <2>4. decision' \in [Ids -> Statuses \cup {None}]
    BY <1>7, <1>p, <2>1 DEF Decide, ConsoleTypes
  <2>5. pending' \subseteq Ids
    BY <1>7, <1>p, <2>1 DEF Decide, ConsoleTypes
  <2>6. turn' \in [Turns -> TurnState]
    BY <1>7, MovesTyped DEF Decide, Active
  <2>7. wire' \in Seq(Event) /\ missed' \subseteq Turns
    <3>1. <<e>> \in Seq(Event) /\ <<e, f>> \in Seq(Event)
      OBVIOUS
    <3>2. emit(t, <<e>>) \/ emit(t, <<e, f>>)
      BY <1>7, <1>p, <2>2, <2>3 DEF Decide
    <3> QED BY <3>1, <3>2, EmitTyped
  <2> QED BY <1>7, <2>4, <2>5, <2>6, <2>7 DEF Decide, ConsoleTypes, tab
<1> QED BY <1>1, <1>2, <1>3, <1>4, <1>5, <1>6, <1>7 DEF TurnStep

LEMMA TypesStep ==
  ASSUME ConsoleInv, [ConsoleNext]_consoleVars
  PROVE  ConsoleTypes'
<1> USE DEF ConsoleInv
<1>0. /\ Statuses = {"ALLOW", "DENY", "PENDING_APPROVAL"} /\ Verdicts = {"ALLOW", "DENY"}
      /\ <<>> \in Seq(Event) /\ underWay \subseteq Turns
      /\ \A pc \in Active : pc \in Active \cup {"unsent", "posted", "ended"}
  <2>1. underWay \subseteq Turns
    <3>1. \A i \in DOMAIN wire : wire[i] \in Event
      BY ElementOfSeq, LenProperties DEF ConsoleTypes
    <3>2. \A e \in Event : e.turn \in Turns
      BY DEF Event
    <3> QED BY <3>1, <3>2 DEF underWay
  <2> QED BY <2>1 DEF Statuses, Verdicts
<1>1. ASSUME NEW t \in Turns, TurnStep(t) PROVE ConsoleTypes'
  BY <1>1, TurnTyped
<1>2. ASSUME NEW t \in Turns, Send(t) PROVE ConsoleTypes'
  <2>1. [turn[t] EXCEPT !.pc = "posted", !.conv = conv] \in TurnState
    <3>1. turn[t] \in TurnState /\ conv \in Nat
      BY DEF ConsoleTypes
    <3> QED BY <3>1 DEF TurnState
  <2>2. turn' = [turn EXCEPT ![t] = [turn[t] EXCEPT !.pc = "posted", !.conv = conv]]
    BY <1>2 DEF Send, ConsoleTypes
  <2>3. turn' \in [Turns -> TurnState]
    BY <2>1, <2>2 DEF ConsoleTypes
  <2> QED BY <1>2, <2>3 DEF Send, ConsoleTypes
<1>3. CASE SendReturns
  <2>1. sending \in Turns
    BY <1>3 DEF SendReturns, ConsoleTypes
  <2>2. PICK s \in Turns : s = sending
    BY <2>1
  <2>3. turn' \in [Turns -> TurnState]
    <3>1. CASE moves(s, "ended")
      BY <3>1, MovesTyped
    <3> QED BY <1>3, <2>2, <3>1 DEF SendReturns, ConsoleTypes
  <2> QED BY <1>3, <2>1, <2>3 DEF SendReturns, ConsoleTypes
<1>4. CASE NewSession
  <2>1. NoRow \in Row
    BY DEF NoRow, Row
  <2>2. rows' \in [Ids -> Row] /\ busy' \in [Ids -> Verdicts \cup {None}]
    BY <1>4, <2>1 DEF NewSession
  <2>3. conv' \in Nat \ {0}
    BY <1>4 DEF NewSession, ConsoleTypes
  <2> QED BY <1>0, <1>4, <2>2, <2>3 DEF NewSession, ConsoleTypes, serverVars
<1>5. CASE Receive
  <2>1. PICK e \in Event : e = Head(wire)
    BY <1>5, HeadTailProperties DEF Receive, ConsoleTypes
  <2>2. EventOK(e)
    BY <1>5, <2>1, LenProperties DEF Receive, ConsoleTypes
  <2>3. rows' \in [Ids -> Row]
    BY <1>5, <2>1, <2>2, RowTyped DEF Receive, EventOK
  <2>4. busy' \in [Ids -> Verdicts \cup {None}]
    BY <1>5 DEF Receive, ConsoleTypes
  <2>5. wire' \in Seq(Event)
    BY <1>5, HeadTailProperties DEF Receive, ConsoleTypes
  <2>6. running' \in BOOLEAN
    BY <1>5 DEF Receive, ConsoleTypes
  <2> QED BY <1>5, <2>3, <2>4, <2>5, <2>6 DEF Receive, ConsoleTypes, serverVars
<1>6. CASE Join
  BY <1>6 DEF Join, ConsoleTypes, serverVars, tab
<1>7. CASE Disconnect
  BY <1>0, <1>7 DEF Disconnect, ConsoleTypes, serverVars, tab
<1>8. CASE Restart
  <2>1. \A t \in Turns : [turn[t] EXCEPT !.pc = "ended"] \in TurnState
    BY DEF ConsoleTypes, TurnState
  <2>2. turn' \in [Turns -> TurnState]
    BY <1>8, <2>1 DEF Restart, ConsoleTypes
  <2> QED BY <1>0, <1>8, <2>2 DEF Restart, ConsoleTypes, tab
<1>9. ASSUME NEW p \in Ids, NEW v \in Verdicts,
             Fallback(p, v) \/ respond(p, v) \/ resolve(p, v) \/ GiveUp(p, v)
      PROVE  ConsoleTypes'
  <2>1. CASE Fallback(p, v)
    BY <2>1 DEF Fallback, unpark, ConsoleTypes, tab
  <2>2. CASE respond(p, v)
    BY <2>2 DEF respond, ConsoleTypes, serverVars
  <2>3. CASE resolve(p, v)
    <3>1. PICK b \in Verdicts \cup {None} : b = IF busy[p] = v THEN None ELSE busy[p]
      BY DEF ConsoleTypes
    <3>2. busy' = busy \/ busy' = [busy EXCEPT ![p] = b]
      BY <2>3, <3>1 DEF resolve, unpark, ConsoleTypes
    <3>3. busy' \in [Ids -> Verdicts \cup {None}]
      BY <3>1, <3>2 DEF ConsoleTypes
    <3> QED BY <2>3, <3>3 DEF resolve, unpark, ConsoleTypes
  <2>4. CASE GiveUp(p, v)
    BY <2>4 DEF GiveUp, ConsoleTypes, serverVars
  <2> QED BY <1>9, <2>1, <2>2, <2>3, <2>4
<1>10. CASE UNCHANGED untimed
  BY <1>10 DEF untimed, serverVars, tab, ConsoleTypes
<1> QED BY <1>1, <1>2, <1>3, <1>4, <1>5, <1>6, <1>7, <1>8, <1>9, <1>10, Untimed DEF ConsoleNext

-----------------------------------------------------------------------------
(* A turn's calls are where the turn is                                    *)

\* A call is a turn and the number of a step.
LEMMA IdForm ==
  /\ \A p \in Ids : p[1] \in Turns /\ p[2] \in 1 .. MaxSteps /\ p = <<p[1], p[2]>>
  /\ \A t \in Turns, n \in 1 .. MaxSteps : <<t, n>> \in Ids /\ <<t, n>>[1] = t /\ <<t, n>>[2] = n
  /\ None \notin Ids /\ None \notin Statuses /\ None \notin Turns
BY ConsoleAssumption DEF Ids

\* A turn does nothing to the other turns and their calls, stays in its conversation and
\* never takes a step back.
OnlyOf(t) ==
  /\ conv' = conv /\ verdict' = verdict
  /\ \A u \in Turns : u # t => turn'[u] = turn[u]
  /\ turn'[t].conv = turn[t].conv /\ turn'[t].step >= turn[t].step
  /\ turn[t].pc \in Active \cup {"posted"} /\ turn'[t].pc \in Active \cup {"ended"}
  /\ \A p \in Ids : p # current(t) => /\ decision'[p] = decision[p]
                                      /\ p \in executed' <=> p \in executed
                                      /\ p \in pending' <=> p \in pending

LEMMA TurnStaysOff ==
  ASSUME ConsoleInv, NEW t \in Turns, TurnStep(t)
  PROVE  OnlyOf(t)
<1> USE DEF ConsoleInv
<1>0. turn \in [Turns -> TurnState] /\ decision \in [Ids -> Statuses \cup {None}]
      /\ turn[t].step \in Nat /\ turn[t] \in TurnState
  BY DEF ConsoleTypes, TurnState
<1>1. CASE Start(t)
  BY <1>0, <1>1, MovesTyped DEF Start, OnlyOf, tab, Active
<1>2. CASE Propose(t)
  <2>1. turn' = [turn EXCEPT ![t] = [turn[t] EXCEPT !.pc = "proposed", !.step = turn[t].step + 1]]
    BY <1>0, <1>2 DEF Propose
  <2>2. /\ turn'[t].pc = "proposed" /\ turn'[t].step = turn[t].step + 1
        /\ turn'[t].conv = turn[t].conv
    BY <1>0, <2>1 DEF TurnState
  <2>3. \A u \in Turns : u # t => turn'[u] = turn[u]
    BY <1>0, <2>1
  <2> QED BY <1>0, <1>2, <2>2, <2>3 DEF Propose, OnlyOf, tab, Active
<1>3. CASE Resume(t)
  <2>1. \A u \in Turns : u # t => turn'[u] = turn[u]
    BY <1>3, MovesTyped DEF Resume, Active
  <2>2. /\ turn'[t].pc \in Active /\ turn'[t].step = turn[t].step
        /\ turn'[t].conv = turn[t].conv
    BY <1>3, MovesTyped DEF Resume, Active
  <2> QED BY <1>0, <1>3, <2>1, <2>2 DEF Resume, OnlyOf, tab, Active
<1>4. CASE Execute(t)
  BY <1>0, <1>4, MovesTyped DEF Execute, OnlyOf, tab, Active
<1>5. CASE End(t)
  BY <1>0, <1>5, MovesTyped DEF End, OnlyOf, tab, Active
<1>6. CASE Throw(t)
  BY <1>0, <1>6, MovesTyped DEF Throw, OnlyOf, tab, Active
<1>7. ASSUME NEW status \in Statuses, Decide(t, status) PROVE OnlyOf(t)
  <2>1. \A u \in Turns : u # t => turn'[u] = turn[u]
    BY <1>7, MovesTyped DEF Decide, Active
  <2>2. /\ turn'[t].pc \in Active /\ turn'[t].step = turn[t].step
        /\ turn'[t].conv = turn[t].conv
    BY <1>7, MovesTyped DEF Decide, Active
  <2> QED BY <1>0, <1>7, <2>1, <2>2 DEF Decide, OnlyOf, tab, Active
<1> QED BY <1>1, <1>2, <1>3, <1>4, <1>5, <1>6, <1>7 DEF TurnStep

LEMMA TurnServer ==
  ASSUME ConsoleInv, NEW t \in Turns, TurnStep(t)
  PROVE  TurnOK(t)' /\ \A p \in Ids : p[1] = t => CallOK(p)'
<1> USE DEF ConsoleInv
<1>0. /\ turn \in [Turns -> TurnState] /\ decision \in [Ids -> Statuses \cup {None}]
      /\ turn[t].step \in 0 .. MaxSteps /\ turn[t] \in TurnState /\ turn[t].conv \in Nat
      /\ MaxSteps \in Nat \ {0} /\ conv # 0
      /\ verdict \in [Ids -> Verdicts \cup {None}]
  BY ConsoleAssumption DEF ConsoleTypes, TurnState
<1>1. TurnOK(t) /\ OnlyOf(t) /\ \A p \in Ids : CallOK(p)
  BY TurnStaysOff
<1>p. PICK p : p = current(t)
  OBVIOUS
<1>2. p = <<t, turn[t].step>>
  BY <1>p DEF current
<1>3. turn[t].conv # 0 /\ turn[t].pc # "unsent" /\ turn[t].conv <= conv
  BY <1>1 DEF OnlyOf, TurnOK, Active
<1>4. ASSUME turn'[t].step = turn[t].step, turn'[t].conv = turn[t].conv
      PROVE  /\ current(t)' = p
             /\ \A q \in Ids : q[1] = t => (q \in proposed' <=> q \in proposed)
  BY <1>2, <1>4 DEF current, proposed
<1>5. \A q \in Ids : q[1] = t => (q = p <=> q[2] = turn[t].step)
  BY <1>2, IdForm
<1>6. \A q \in Ids : q[1] = t => (q \in proposed <=> q[2] <= turn[t].step)
  BY DEF proposed
<1>7. \A q \in Ids : q[1] = t => (q \in proposed' <=> q[2] <= turn'[t].step)
  BY DEF proposed
<1>8. ASSUME p \in Ids PROVE p \in proposed
  BY <1>0, <1>2, <1>8, IdForm, <1>6
<1>a. CASE Start(t)
  <2>1. /\ turn[t].pc = "posted" /\ turn'[t].pc = "thinking" /\ turn'[t].step = turn[t].step
        /\ turn'[t].conv = turn[t].conv
        /\ UNCHANGED <<decision, executed, pending, verdict, conv>>
    BY <1>a, MovesTyped DEF Start, Active, tab
  <2>2. TurnOK(t)'
    BY <1>1, <1>3, <2>1 DEF TurnOK
  <2> QED BY <1>1, <1>4, <2>1, <2>2 DEF CallOK
<1>b. CASE Propose(t)
  <2>1. turn' = [turn EXCEPT ![t] = [turn[t] EXCEPT !.pc = "proposed", !.step = turn[t].step + 1]]
    BY <1>0, <1>b DEF Propose
  <2>2. /\ turn'[t].pc = "proposed" /\ turn'[t].step = turn[t].step + 1
        /\ turn'[t].conv = turn[t].conv
    BY <1>0, <2>1 DEF TurnState
  <2>3. /\ turn[t].pc = "thinking" /\ turn[t].step < MaxSteps
        /\ UNCHANGED <<decision, executed, pending, verdict, conv>>
    BY <1>b DEF Propose, tab
  <2>4. PICK q : q = <<t, turn[t].step + 1>>
    OBVIOUS
  <2>5. q \in Ids /\ q[1] = t /\ q[2] = turn[t].step + 1
    BY <1>0, <2>3, <2>4, IdForm
  <2>6. q \notin proposed /\ current(t)' = q
    BY <1>0, <1>6, <2>2, <2>4, <2>5 DEF current
  <2>7. decision[q] = None /\ verdict[q] = None /\ q \notin executed
    BY <1>1, <2>5, <2>6 DEF CallOK
  <2>8. TurnOK(t)'
    BY <1>1, <1>3, <2>2, <2>3, <2>5, <2>6, <2>7 DEF TurnOK
  <2>9. ASSUME NEW r \in Ids, r[1] = t PROVE CallOK(r)'
    <3>1. r \notin pending
      BY <1>1, <2>3, <2>9 DEF CallOK
    <3>2. r \notin proposed' => r \notin proposed
      BY <1>0, <1>6, <1>7, <2>2, <2>9, IdForm
    <3> QED BY <1>1, <2>3, <3>1, <3>2 DEF CallOK
  <2> QED BY <2>8, <2>9
<1>c. CASE Resume(t)
  <2>0. turn[t].pc = "held" /\ verdict[p] # None
    BY <1>c, <1>p DEF Resume
  <2>1. p \in Ids /\ p \notin executed
    BY <1>1, <1>p, <2>0 DEF TurnOK
  <2>2. PICK v \in Verdicts : v = verdict[p]
    BY <1>0, <2>0, <2>1
  <2>3. PICK pc \in {"calling", "thinking"} : pc = IF v = "ALLOW" THEN "calling" ELSE "thinking"
    OBVIOUS
  <2>4. /\ moves(t, pc) /\ decision' = [decision EXCEPT ![p] = v]
        /\ UNCHANGED <<executed, pending, verdict, conv>>
    BY <1>c, <1>p, <2>2, <2>3 DEF Resume, tab
  <2>5. /\ turn'[t].pc = pc /\ turn'[t].step = turn[t].step
        /\ turn'[t].conv = turn[t].conv
    BY <2>4, MovesTyped DEF Active
  <2>6. TurnOK(t)'
    BY <1>1, <1>3, <1>4, <2>1, <2>3, <2>4, <2>5 DEF TurnOK
  <2>7. ASSUME NEW r \in Ids, r[1] = t PROVE CallOK(r)'
    <3>1. r \notin pending
      BY <1>1, <1>p, <2>0, <2>7 DEF CallOK
    <3>2. r \notin proposed => r # p
      BY <1>8, <2>1
    <3> QED BY <1>0, <1>1, <1>4, <2>4, <2>5, <2>7, <3>1, <3>2 DEF CallOK
  <2> QED BY <2>6, <2>7
<1>d. CASE Execute(t)
  <2>0. turn[t].pc = "calling"
    BY <1>d DEF Execute
  <2>1. p \in Ids
    BY <1>1, <1>p, <2>0 DEF TurnOK
  <2>2. /\ executed' = executed \cup {p} /\ UNCHANGED <<decision, pending, verdict, conv>>
        /\ turn'[t].pc = "thinking" /\ turn'[t].step = turn[t].step
        /\ turn'[t].conv = turn[t].conv
    BY <1>d, <1>p, MovesTyped DEF Execute, Active, tab
  <2>6. TurnOK(t)'
    BY <1>1, <1>3, <2>2 DEF TurnOK
  <2>7. ASSUME NEW r \in Ids, r[1] = t PROVE CallOK(r)'
    <3>1. r \notin pending
      BY <1>1, <2>0, <2>7 DEF CallOK
    <3>2. r \notin proposed => r # p
      BY <1>8, <2>1
    <3> QED BY <1>1, <1>4, <2>2, <2>7, <3>1, <3>2 DEF CallOK
  <2> QED BY <2>6, <2>7
<1>e. CASE End(t) \/ Throw(t)
  <2>1. /\ turn[t].pc \in Active /\ turn'[t].pc = "ended"
        /\ turn[t].pc = "held" => verdict[p] # None
        /\ turn'[t].step = turn[t].step /\ turn'[t].conv = turn[t].conv
        /\ UNCHANGED <<decision, executed, pending, verdict, conv>>
    BY <1>e, <1>p, MovesTyped DEF End, Throw, Active, tab
  <2>2. TurnOK(t)'
    BY <1>1, <1>3, <2>1 DEF TurnOK
  <2>3. \A r \in Ids : r[1] = t => r \notin pending
    BY <1>1, <1>p, <2>1 DEF CallOK
  <2> QED BY <1>1, <1>4, <2>1, <2>2, <2>3 DEF CallOK
<1>f. ASSUME NEW status \in Statuses, Decide(t, status)
      PROVE  TurnOK(t)' /\ \A r \in Ids : r[1] = t => CallOK(r)'
  <2>0. turn[t].pc = "proposed"
    BY <1>f DEF Decide
  <2>1. p \in Ids /\ p \notin executed /\ verdict[p] = None
    BY <1>1, <1>p, <2>0 DEF TurnOK
  <2>2. PICK pc \in {"held", "calling", "thinking"} :
          /\ moves(t, pc)
          /\ pc = "held" <=> status = "PENDING_APPROVAL"
          /\ pending' = IF status = "PENDING_APPROVAL" THEN pending \cup {p} ELSE pending
    BY <1>f, <1>p DEF Decide
  <2>3. decision' = [decision EXCEPT ![p] = status] /\ UNCHANGED <<executed, verdict, conv>>
    BY <1>f, <1>p DEF Decide, tab
  <2>5. /\ turn'[t].pc = pc /\ turn'[t].step = turn[t].step
        /\ turn'[t].conv = turn[t].conv
    BY <2>2, MovesTyped DEF Active
  <2>6. TurnOK(t)'
    <3>1. current(t)' = p /\ decision'[p] = status
      BY <1>0, <1>4, <2>1, <2>3, <2>5
    <3> QED BY <1>1, <1>3, <2>1, <2>2, <2>3, <2>5, <3>1 DEF TurnOK
  <2>7. ASSUME NEW r \in Ids, r[1] = t PROVE CallOK(r)'
    <3>1. r \notin pending
      BY <1>1, <2>0, <2>7 DEF CallOK
    <3>2. r \notin proposed => r # p
      BY <1>8, <2>1
    <3>3. r \notin proposed' => decision'[r] = None /\ verdict'[r] = None /\ r \notin executed'
      BY <1>0, <1>1, <1>4, <2>3, <2>5, <2>7, <3>2 DEF CallOK
    <3>4. r \in pending' => turn'[t].pc = "held" /\ r = current(t)' /\ verdict'[r] = None
      BY <1>4, <2>1, <2>2, <2>3, <2>5, <3>1
    <3> QED BY <2>7, <3>3, <3>4 DEF CallOK
  <2> QED BY <2>6, <2>7
<1> QED BY <1>a, <1>b, <1>c, <1>d, <1>e, <1>f DEF TurnStep

LEMMA TurnsStep ==
  ASSUME ConsoleInv, [ConsoleNext]_consoleVars
  PROVE  (\A t \in Turns : TurnOK(t)') /\ (\A p \in Ids : CallOK(p)')
<1> USE DEF ConsoleInv
<1>0. /\ turn \in [Turns -> TurnState] /\ conv \in Nat \ {0}
      /\ \A t \in Turns : turn[t].step \in 0 .. MaxSteps /\ turn[t].conv \in Nat
      /\ verdict \in [Ids -> Verdicts \cup {None}]
      /\ \A t \in Turns : TurnOK(t) /\ turn[t] \in TurnState
      /\ \A p \in Ids : CallOK(p)
  BY DEF ConsoleTypes, TurnState
<1>1. ASSUME NEW t \in Turns, TurnStep(t)
      PROVE  (\A u \in Turns : TurnOK(u)') /\ (\A p \in Ids : CallOK(p)')
  <2>1. OnlyOf(t) /\ TurnOK(t)' /\ \A p \in Ids : p[1] = t => CallOK(p)'
    BY <1>1, TurnStaysOff, TurnServer
  <2>2. \A p \in Ids : p[1] # t => p # current(t)
    BY DEF current
  <2>3. ASSUME NEW u \in Turns, u # t PROVE TurnOK(u)'
    <3>1. turn'[u] = turn[u] /\ current(u)' = current(u)
      BY <2>1, <2>3 DEF OnlyOf, current
    <3>2. current(u) \in Ids => /\ decision'[current(u)] = decision[current(u)]
                                /\ current(u) \in executed' <=> current(u) \in executed
                                /\ verdict'[current(u)] = verdict[current(u)]
      BY <2>1, <2>3 DEF OnlyOf, current
    <3> QED BY <1>0, <2>1, <3>1, <3>2 DEF TurnOK, OnlyOf
  <2>4. ASSUME NEW p \in Ids, p[1] # t PROVE CallOK(p)'
    <3>1. /\ decision'[p] = decision[p] /\ verdict'[p] = verdict[p]
          /\ p \in executed' <=> p \in executed
          /\ p \in pending' <=> p \in pending
      BY <2>1, <2>2, <2>4 DEF OnlyOf
    <3>2. /\ turn'[p[1]] = turn[p[1]] /\ current(p[1])' = current(p[1])
          /\ p \in proposed' <=> p \in proposed
      BY <2>1, <2>4, IdForm DEF OnlyOf, current, proposed
    <3> QED BY <1>0, <3>1, <3>2 DEF CallOK
  <2> QED BY <2>1, <2>3, <2>4
<1>2. ASSUME NEW t \in Turns, Send(t)
      PROVE  (\A u \in Turns : TurnOK(u)') /\ (\A p \in Ids : CallOK(p)')
  <2>1. turn' = [turn EXCEPT ![t] = [turn[t] EXCEPT !.pc = "posted", !.conv = conv]]
    BY <1>0, <1>2 DEF Send
  <2>2. turn'[t].pc = "posted" /\ turn'[t].step = turn[t].step /\ turn'[t].conv = conv
    BY <1>0, <2>1 DEF TurnState
  <2>3. \A u \in Turns : (u # t => turn'[u] = turn[u]) /\ turn'[u].step = turn[u].step
    BY <1>0, <2>1, <2>2
  <2>4. turn[t].pc = "unsent" /\ UNCHANGED <<decision, executed, pending, verdict, conv>>
    BY <1>2 DEF Send
  <2>5. ASSUME NEW u \in Turns PROVE TurnOK(u)'
    <3>1. current(u)' = current(u)
      BY <2>3 DEF current
    <3> QED BY <1>0, <2>2, <2>3, <2>4, <3>1 DEF TurnOK
  <2>6. ASSUME NEW p \in Ids PROVE CallOK(p)'
    <3>1. (p \in proposed' <=> p \in proposed) /\ current(p[1])' = current(p[1])
      BY <2>3, IdForm DEF current, proposed
    <3>2. turn[p[1]].pc = "held" => turn'[p[1]].pc = "held"
      BY <2>3, <2>4, IdForm
    <3> QED BY <1>0, <2>4, <3>1, <3>2 DEF CallOK
  <2> QED BY <2>5, <2>6
<1>3. CASE SendReturns \/ Restart
  <2>1. /\ \A t \in Turns : /\ turn'[t].step = turn[t].step /\ turn'[t].conv = turn[t].conv
                            /\ \/ turn'[t] = turn[t]
                               \/ (turn'[t].pc = "ended" /\ turn[t].pc # "unsent")
        /\ UNCHANGED <<decision, executed, verdict, conv>>
        /\ pending' \subseteq pending
        /\ \A t \in Turns : turn'[t] # turn[t] /\ turn[t].pc = "held" => pending' = {}
    <3>1. CASE SendReturns
      <4>1. PICK s \in Turns : s = sending
        BY <3>1 DEF SendReturns, ConsoleTypes
      <4>2. turn' = turn \/ (turn[s].pc = "posted" /\ moves(s, "ended"))
        BY <3>1, <4>1 DEF SendReturns, moves
      <4> QED BY <1>0, <3>1, <4>2, MovesTyped DEF SendReturns
    <3>2. CASE Restart
      <4>1. \A t \in Turns : turn'[t] = IF turn[t].pc \in Active THEN [turn[t] EXCEPT !.pc = "ended"]
                                        ELSE turn[t]
        BY <3>2 DEF Restart
      <4>2. \A t \in Turns : /\ [turn[t] EXCEPT !.pc = "ended"].pc = "ended"
                             /\ [turn[t] EXCEPT !.pc = "ended"].step = turn[t].step
                             /\ [turn[t] EXCEPT !.pc = "ended"].conv = turn[t].conv
        BY <1>0 DEF TurnState
      <4> QED BY <3>2, <4>1, <4>2 DEF Restart, Active, tab
    <3> QED BY <1>3, <3>1, <3>2
  <2>2. \A t \in Turns : current(t)' = current(t)
    BY <2>1 DEF current
  <2>3. ASSUME NEW u \in Turns PROVE TurnOK(u)'
    BY <1>0, <2>1, <2>2 DEF TurnOK
  <2>4. ASSUME NEW p \in Ids PROVE CallOK(p)'
    <3>1. (p \in proposed' <=> p \in proposed) /\ current(p[1])' = current(p[1])
      BY <2>1, <2>2, IdForm DEF proposed
    <3>2. p \in pending' => p \in pending /\ turn'[p[1]] = turn[p[1]]
      BY <1>0, <2>1, IdForm DEF CallOK
    <3> QED BY <1>0, <2>1, <3>1, <3>2 DEF CallOK
  <2> QED BY <2>3, <2>4
<1>4. ASSUME turn' = turn, decision' = decision, executed' = executed, pending' = pending,
             verdict' = verdict, conv' >= conv, conv' \in Nat
      PROVE  (\A u \in Turns : TurnOK(u)') /\ (\A p \in Ids : CallOK(p)')
  <2>1. \A t \in Turns : current(t)' = current(t)
    BY <1>4 DEF current
  <2>2. proposed' = proposed
    BY <1>4 DEF proposed
  <2>3. \A t \in Turns : TurnOK(t)'
    BY <1>0, <1>4, <2>1 DEF TurnOK
  <2>4. \A p \in Ids : CallOK(p)'
    BY <1>0, <1>4, <2>1, <2>2, IdForm DEF CallOK
  <2> QED BY <2>3, <2>4
<1>5. CASE NewSession \/ Receive \/ Join \/ Disconnect \/ UNCHANGED untimed
  <2>1. UNCHANGED <<turn, decision, executed, pending, verdict>>
    BY <1>5 DEF NewSession, Receive, Join, Disconnect, untimed, serverVars
  <2>2. conv' = conv \/ conv' = conv + 1
    BY <1>5 DEF NewSession, Receive, Join, Disconnect, untimed, tab
  <2>3. conv' >= conv /\ conv' \in Nat
    BY <1>0, <2>2
  <2> QED BY <1>4, <2>1, <2>3
<1>6. ASSUME NEW p \in Ids, NEW v \in Verdicts,
             Fallback(p, v) \/ respond(p, v) \/ resolve(p, v) \/ GiveUp(p, v)
      PROVE  (\A u \in Turns : TurnOK(u)') /\ (\A q \in Ids : CallOK(q)')
  <2>1. CASE UNCHANGED <<turn, decision, executed, pending, verdict, conv>>
    BY <1>0, <1>4, <2>1
  <2>2. CASE /\ p \in pending /\ pending' = pending \ {p} /\ verdict' = [verdict EXCEPT ![p] = v]
             /\ UNCHANGED <<turn, decision, executed, conv>>
    <3>1. \A t \in Turns : current(t)' = current(t)
      BY <2>2 DEF current
    <3>2. proposed' = proposed
      BY <2>2 DEF proposed
    <3>3. \A t \in Turns : turn[t].pc = "proposed" => current(t) # p
      BY <1>0, <2>2 DEF CallOK, current
    <3>4. \A q \in Ids : q # p => verdict'[q] = verdict[q]
      BY <2>2
    <3>5. \A t \in Turns : TurnOK(t)'
      BY <1>0, <2>2, <3>1, <3>3, <3>4 DEF TurnOK
    <3>6. p \in proposed
      <4>1. p[1] \in Turns /\ p = <<p[1], turn[p[1]].step>> /\ turn[p[1]].step \in Nat
        BY <1>0, <2>2, IdForm DEF CallOK, current
      <4> QED BY <1>0, <4>1 DEF proposed
    <3>7. \A q \in Ids : CallOK(q)'
      BY <1>0, <2>2, <3>1, <3>2, <3>4, <3>6, IdForm DEF CallOK
    <3> QED BY <3>5, <3>7
  <2>3. CASE Fallback(p, v)
    BY <2>2, <2>3 DEF Fallback, unpark, tab
  <2>4. CASE resolve(p, v)
    BY <2>1, <2>2, <2>4 DEF resolve, unpark
  <2> QED BY <1>6, <2>1, <2>3, <2>4 DEF respond, GiveUp, serverVars
<1> QED BY <1>1, <1>2, <1>3, <1>5, <1>6, Untimed DEF ConsoleNext

-----------------------------------------------------------------------------
(* What is said of a turn and its calls stays so                           *)

Grows ==
  /\ \A u \in Turns : turn[u].conv # 0 => turn'[u].conv = turn[u].conv
  /\ \A p \in Ids : /\ p \in proposed => p \in proposed'
                    /\ p \in executed => p \in executed'
                    /\ p \in held => p \in held'

LEMMA TurnGrows ==
  ASSUME ConsoleInv, NEW t \in Turns, TurnStep(t)
  PROVE  Grows
<1> USE DEF ConsoleInv
<1>0. /\ turn \in [Turns -> TurnState] /\ OnlyOf(t) /\ TurnOK(t)
      /\ \A u \in Turns : turn[u].step \in Nat /\ turn[u] \in TurnState
      /\ \A u \in Turns : turn'[u].step \in Nat
      /\ \A p \in Ids : p[1] \in Turns /\ p[2] \in Nat
      /\ decision \in [Ids -> Statuses \cup {None}]
  BY TurnStaysOff, TypesStep, IdForm DEF ConsoleTypes, TurnState, ConsoleNext
<1>1. \A u \in Turns : turn'[u].conv = turn[u].conv /\ turn'[u].step >= turn[u].step
  BY <1>0 DEF OnlyOf
<1>2. ASSUME NEW p \in Ids, p \in proposed PROVE p \in proposed'
  BY <1>0, <1>1, <1>2 DEF proposed
<1>3. executed \subseteq executed'
  BY DEF TurnStep, Start, Propose, Resume, Execute, End, Throw, Decide
<1>4. ASSUME NEW p \in Ids, p \in held PROVE p \in held'
  <2>1. verdict' = verdict
    BY <1>0 DEF OnlyOf
  <2>2. CASE p # current(t)
    BY <1>0, <1>4, <2>1, <2>2 DEF OnlyOf, held
  <2>3. CASE p = current(t) /\ decision'[p] # decision[p]
    <3>1. ASSUME NEW status \in Statuses, Decide(t, status) PROVE FALSE
      BY <1>0, <1>4, <2>3, <3>1, IdForm DEF Decide, TurnOK, held, Statuses
    <3>2. CASE Resume(t)
      BY <2>1, <2>3, <3>2 DEF Resume, held
    <3>3. CASE decision' = decision
      BY <2>3, <3>3
    <3> QED BY <3>1, <3>2, <3>3 DEF TurnStep, Start, Propose, Execute, End, Throw
  <2> QED BY <1>4, <2>1, <2>2, <2>3 DEF held
<1> QED BY <1>1, <1>2, <1>3, <1>4 DEF Grows

LEMMA GrowsStep ==
  ASSUME ConsoleInv, [ConsoleNext]_consoleVars
  PROVE  Grows
<1> USE DEF ConsoleInv
<1>0. /\ turn \in [Turns -> TurnState] /\ verdict \in [Ids -> Verdicts \cup {None}]
      /\ \A t \in Turns : TurnOK(t) /\ turn[t] \in TurnState
      /\ \A p \in Ids : p[1] \in Turns
      /\ None \notin Verdicts
  BY IdForm DEF ConsoleTypes, Statuses
<1>1. ASSUME NEW t \in Turns, TurnStep(t) PROVE Grows
  BY <1>1, TurnGrows
<1>2. ASSUME \A u \in Turns : /\ turn'[u].step = turn[u].step
                              /\ turn[u].conv # 0 => turn'[u].conv = turn[u].conv,
             decision' = decision, executed' = executed,
             \A p \in Ids : verdict[p] # None => verdict'[p] # None
      PROVE  Grows
  BY <1>0, <1>2 DEF Grows, proposed, held
<1>3. ASSUME NEW t \in Turns, Send(t) PROVE Grows
  <2>1. turn' = [turn EXCEPT ![t] = [turn[t] EXCEPT !.pc = "posted", !.conv = conv]]
    BY <1>0, <1>3 DEF Send
  <2>2. turn'[t].step = turn[t].step /\ turn[t].conv = 0
    BY <1>0, <1>3, <2>1 DEF TurnState, Send, TurnOK
  <2>3. \A u \in Turns : u # t => turn'[u] = turn[u]
    BY <1>0, <2>1
  <2> QED BY <1>0, <1>2, <1>3, <2>2, <2>3 DEF Send
<1>4. CASE SendReturns
  <2>1. PICK s \in Turns : s = sending
    BY <1>4 DEF SendReturns, ConsoleTypes
  <2>2. turn' = turn \/ moves(s, "ended")
    BY <1>4, <2>1 DEF SendReturns, moves
  <2>3. \A u \in Turns : turn'[u].step = turn[u].step /\ turn'[u].conv = turn[u].conv
    BY <2>2, MovesTyped
  <2> QED BY <1>2, <1>4, <2>3 DEF SendReturns
<1>5. CASE Restart
  <2>1. \A t \in Turns : turn'[t] = IF turn[t].pc \in Active THEN [turn[t] EXCEPT !.pc = "ended"]
                                    ELSE turn[t]
    BY <1>5 DEF Restart
  <2>2. \A t \in Turns : /\ [turn[t] EXCEPT !.pc = "ended"].step = turn[t].step
                         /\ [turn[t] EXCEPT !.pc = "ended"].conv = turn[t].conv
    BY <1>0 DEF TurnState
  <2> QED BY <1>2, <1>5, <2>1, <2>2 DEF Restart
<1>6. CASE UNCHANGED serverVars
  BY <1>2, <1>6 DEF serverVars
<1>7. ASSUME NEW p \in Ids, NEW v \in Verdicts,
             Fallback(p, v) \/ respond(p, v) \/ resolve(p, v) \/ GiveUp(p, v)
      PROVE  Grows
  <2>1. /\ UNCHANGED <<turn, decision, executed>>
        /\ verdict' = verdict \/ verdict' = [verdict EXCEPT ![p] = v]
    BY <1>7 DEF Fallback, unpark, respond, resolve, GiveUp, serverVars
  <2>2. \A q \in Ids : verdict[q] # None => verdict'[q] # None
    BY <1>0, <2>1
  <2> QED BY <1>2, <2>1, <2>2
<1> QED BY <1>1, <1>3, <1>4, <1>5, <1>6, <1>7, Untimed
        DEF ConsoleNext, NewSession, Receive, Join, Disconnect, untimed

-----------------------------------------------------------------------------
(* What is on its way to the tab is so                                     *)

LEMMA WireTyped ==
  ASSUME ConsoleTypes
  PROVE  /\ \A i \in DOMAIN wire : /\ wire[i] \in Event /\ i \in Nat
                                   /\ wire[i].turn \in Turns /\ wire[i].id \in Ids \cup {None}
         /\ DOMAIN wire = 1 .. Len(wire) /\ Len(wire) \in Nat
         /\ wire = <<>> => DOMAIN wire = {}
<1>1. /\ \A i \in DOMAIN wire : wire[i] \in Event
      /\ DOMAIN wire = 1 .. Len(wire) /\ Len(wire) \in Nat
  BY ElementOfSeq, LenProperties DEF ConsoleTypes
<1>2. \A e \in Event : e.turn \in Turns /\ e.id \in Ids \cup {None}
  BY DEF Event
<1> QED BY <1>1, <1>2

LEMMA EventStays ==
  ASSUME NEW e \in Event, EventOK(e), Grows, conv \in Nat \ {0}, conv' = conv
  PROVE  EventOK(e)'
<1>1. e.turn \in Turns /\ e.id \in Ids \cup {None}
  BY DEF Event
<1>2. turn'[e.turn].conv = conv
  BY <1>1 DEF EventOK, Grows
<1>3. ASSUME e.id # None
      PROVE  /\ e.id \in proposed => e.id \in proposed'
             /\ e.id \in held => e.id \in held'
             /\ e.id \in executed => e.id \in executed'
  BY <1>1, <1>3 DEF Grows
<1> QED BY <1>2, <1>3 DEF EventOK

\* The events on the wire stay so when nothing, or events that are so, are added.
LEMMA EmittedOK ==
  ASSUME ConsoleInv, NEW t \in Turns, NEW E \in Seq(Event), TurnStep(t), emit(t, E),
         turn[t].conv = conv => \A i \in DOMAIN E : EventOK(E[i])'
  PROVE  \A i \in DOMAIN wire' : EventOK(wire[i])'
<1> USE DEF ConsoleInv
<1>1. Grows /\ conv \in Nat \ {0} /\ conv' = conv
  BY GrowsStep, TurnStaysOff DEF ConsoleTypes, ConsoleNext, OnlyOf
<1>2. \A i \in DOMAIN wire : EventOK(wire[i]) /\ wire[i] \in Event
  BY WireTyped
<1>3. ASSUME NEW i \in DOMAIN wire' PROVE EventOK(wire[i])'
  <2>1. CASE i \in DOMAIN wire /\ wire'[i] = wire[i]
    <3>1. PICK e \in Event : e = wire[i] /\ EventOK(e)
      BY <1>2, <2>1
    <3>2. EventOK(e)'
      BY <1>1, <3>1, EventStays
    <3> QED BY <2>1, <3>1, <3>2 DEF EventOK
  <2>2. CASE wire' = wire
    BY <1>3, <2>1, <2>2
  <2>3. CASE wire' = wire \o E /\ turn[t].conv = conv /\ i \notin DOMAIN wire
    <3>0. wire \in Seq(Event) /\ wire' = wire \o E
      BY <2>3 DEF ConsoleTypes
    <3>1. PICK j \in DOMAIN E : i = Len(wire) + j
      BY <1>3, <2>3, <3>0, Appended
    <3>3. wire'[Len(wire) + j] = E[j]
      BY <3>0, Appended
    <3>2. PICK e : e = E[j] /\ EventOK(e)'
      BY <2>3
    <3> QED BY <3>1, <3>3, <3>2 DEF EventOK
  <2> QED BY <1>3, <2>1, <2>2, <2>3, Appended DEF emit, ConsoleTypes
<1> QED BY <1>3

\* What a turn emits is so when it is emitted.
LEMMA TurnEventsOK ==
  ASSUME ConsoleInv, NEW t \in Turns, TurnStep(t)
  PROVE  \A i \in DOMAIN wire' : EventOK(wire[i])'
<1> USE DEF ConsoleInv
<1>0. /\ OnlyOf(t) /\ Grows /\ TurnOK(t)' /\ TurnOK(t)
      /\ turn'[t].conv = turn[t].conv /\ conv' = conv
      /\ \A p \in Ids \cup {None} : p # None <=> p \in Ids
  BY TurnStaysOff, TurnGrows, TurnsStep, IdForm DEF OnlyOf, ConsoleNext
<1>1. /\ Statuses = {"ALLOW", "DENY", "PENDING_APPROVAL"} /\ Verdicts = {"ALLOW", "DENY"}
      /\ None \in Ids \cup {None} /\ None \in Statuses \cup {None}
  BY DEF Statuses, Verdicts
<1>2. \A p \in Ids : p = current(t) => p[1] = t
  BY DEF current
<1>3. ASSUME NEW p \in Ids, p = current(t) PROVE p \in proposed
  BY <1>3, IdForm DEF current, proposed, ConsoleTypes, TurnState
<1>p. PICK p : p = current(t)
  OBVIOUS
<1>4. ASSUME NEW e \in Event, emit(t, <<e>>), turn[t].conv = conv => EventOK(e)'
      PROVE  \A i \in DOMAIN wire' : EventOK(wire[i])'
  <2>1. <<e>> \in Seq(Event) /\ \A i \in DOMAIN <<e>> : <<e>>[i] = e
    OBVIOUS
  <2>2. turn[t].conv = conv => \A i \in DOMAIN <<e>> : EventOK(<<e>>[i])'
    BY <1>4, <2>1
  <2> QED BY <1>4, <2>1, <2>2, EmittedOK
<1>a. CASE Start(t)
  <2>1. PICK e \in Event : /\ e = event("turn:start", t, None, None)
                           /\ e.type = "turn:start" /\ e.turn = t /\ e.id = None
    BY <1>1, EventTyped
  <2>2. emit(t, <<e>>) /\ <<e>> \in Seq(Event)
    BY <1>a, <2>1 DEF Start
  <2>3. turn[t].conv = conv => EventOK(e)'
    BY <1>0, <2>1 DEF EventOK
  <2> QED BY <1>4, <2>2, <2>3
<1>b. CASE Propose(t)
  <2>1. PICK p1 : p1 = current(t)'
    OBVIOUS
  <2>2. turn'[t].pc = "proposed" /\ turn'[t].step = turn[t].step + 1
    <3>1. turn' = [turn EXCEPT ![t] = [turn[t] EXCEPT !.pc = "proposed", !.step = turn[t].step + 1]]
      BY <1>b DEF Propose, ConsoleTypes
    <3> QED BY <3>1 DEF ConsoleTypes, TurnState
  <2>3. p1 \in Ids /\ p1 = <<t, turn[t].step + 1>> /\ p1[1] = t
    BY <1>0, <2>1, <2>2 DEF TurnOK, current
  <2>4. p1 \in proposed'
    BY <2>2, <2>3, IdForm, TypesStep DEF proposed, ConsoleTypes, TurnState, ConsoleNext
  <2>5. PICK e \in Event : /\ e = event("proposal", t, p1, None)
                           /\ e.type = "proposal" /\ e.turn = t /\ e.id = p1
    BY <1>1, <2>3, EventTyped
  <2>6. emit(t, <<e>>) /\ <<e>> \in Seq(Event)
    BY <1>b, <2>3, <2>5 DEF Propose
  <2>7. turn[t].conv = conv => EventOK(e)'
    BY <1>0, <2>3, <2>4, <2>5 DEF EventOK
  <2> QED BY <1>4, <2>6, <2>7
<1>c. CASE Resume(t)
  <2>1. p \in Ids /\ verdict[p] # None
    BY <1>0, <1>c, <1>p DEF Resume, TurnOK
  <2>2. PICK v \in Verdicts : v = verdict[p]
    BY <2>1 DEF ConsoleTypes
  <2>4. PICK e \in Event : /\ e = event("decision", t, p, v)
                           /\ e.type = "decision" /\ e.turn = t /\ e.id = p /\ e.value = v
    BY <1>1, <2>1, EventTyped
  <2>5. emit(t, <<e>>) /\ <<e>> \in Seq(Event)
    BY <1>c, <1>p, <2>2, <2>4 DEF Resume
  <2>6. v # None /\ v # "PENDING_APPROVAL"
    BY <1>1, IdForm
  <2>7. turn[t].conv = conv => EventOK(e)'
    BY <1>0, <1>2, <1>3, <1>p, <2>1, <2>4, <2>6 DEF EventOK, Grows
  <2> QED BY <1>4, <2>5, <2>7
<1>d. CASE Execute(t)
  <2>1. p \in Ids /\ p \in executed'
    BY <1>0, <1>d, <1>p DEF Execute, TurnOK
  <2>4. PICK e \in Event : /\ e = event("execution", t, p, None)
                           /\ e.type = "execution" /\ e.turn = t /\ e.id = p
    BY <1>1, <2>1, EventTyped
  <2>5. emit(t, <<e>>) /\ <<e>> \in Seq(Event)
    BY <1>d, <1>p, <2>4 DEF Execute
  <2>7. turn[t].conv = conv => EventOK(e)'
    BY <1>0, <1>2, <1>3, <1>p, <2>1, <2>4 DEF EventOK, Grows
  <2> QED BY <1>4, <2>5, <2>7
<1>e. CASE End(t)
  <2>1. PICK last \in {"assistant:text", "error"} :
          emit(t, <<event(last, t, None, None), event("turn:end", t, None, None)>>)
    BY <1>e DEF End
  <2>2. PICK e \in Event : /\ e = event(last, t, None, None)
                           /\ e.type = last /\ e.turn = t /\ e.id = None
    BY <1>1, EventTyped
  <2>3. PICK f \in Event : /\ f = event("turn:end", t, None, None)
                           /\ f.type = "turn:end" /\ f.turn = t /\ f.id = None
    BY <1>1, EventTyped
  <2>4. emit(t, <<e, f>>) /\ <<e, f>> \in Seq(Event)
    BY <2>1, <2>2, <2>3
  <2>5. turn[t].conv = conv => EventOK(e)' /\ EventOK(f)'
    BY <1>0, <2>2, <2>3 DEF EventOK
  <2>6. \A i \in DOMAIN <<e, f>> : <<e, f>>[i] = e \/ <<e, f>>[i] = f
    OBVIOUS
  <2>7. turn[t].conv = conv => \A i \in DOMAIN <<e, f>> : EventOK(<<e, f>>[i])'
    BY <2>5, <2>6
  <2> QED BY <2>4, <2>7, EmittedOK
<1>f. CASE Throw(t)
  <2>1. \A i \in DOMAIN wire : wire[i] \in Event /\ EventOK(wire[i])
    BY WireTyped
  <2>2. ASSUME NEW i \in DOMAIN wire PROVE EventOK(wire[i])'
    <3>1. PICK e \in Event : e = wire[i] /\ EventOK(e)
      BY <2>1
    <3>2. EventOK(e)'
      BY <1>0, <3>1, EventStays DEF ConsoleTypes
    <3>3. wire' = wire
      BY <1>f DEF Throw
    <3> QED BY <3>1, <3>2, <3>3 DEF EventOK
  <2> QED BY <1>f, <2>2 DEF Throw
<1>g. ASSUME NEW status \in Statuses, Decide(t, status)
      PROVE  \A i \in DOMAIN wire' : EventOK(wire[i])'
  <2>1. p \in Ids /\ turn[t].pc = "proposed"
    BY <1>0, <1>g, <1>p DEF Decide, TurnOK
  <2>2. decision'[p] = status
    BY <1>g, <1>p, <2>1 DEF Decide, ConsoleTypes
  <2>3. PICK e \in Event : /\ e = event("decision", t, p, status)
                           /\ e.type = "decision" /\ e.turn = t /\ e.id = p /\ e.value = status
    BY <2>1, EventTyped
  <2>4. PICK f \in Event : /\ f = event("approval:required", t, p, None)
                           /\ f.type = "approval:required" /\ f.turn = t /\ f.id = p
    BY <1>1, <2>1, EventTyped
  <2>5. status = "PENDING_APPROVAL" => p \in held'
    BY <2>1, <2>2 DEF held
  <2>6. p \in proposed'
    BY <1>0, <1>3, <1>p, <2>1 DEF Grows
  <2>7. turn[t].conv = conv => EventOK(e)'
    BY <1>0, <1>2, <1>p, <2>1, <2>3, <2>5, <2>6, IdForm DEF EventOK
  <2>8. turn[t].conv = conv /\ status = "PENDING_APPROVAL" => EventOK(f)'
    BY <1>0, <1>2, <1>p, <2>1, <2>4, <2>5, <2>6 DEF EventOK
  <2>9. <<e>> \in Seq(Event) /\ <<e, f>> \in Seq(Event)
    OBVIOUS
  <2>10. \A i \in DOMAIN <<e, f>> : <<e, f>>[i] = e \/ <<e, f>>[i] = f
    OBVIOUS
  <2>11. CASE status = "PENDING_APPROVAL"
    <3>1. emit(t, <<e, f>>)
      BY <1>g, <1>p, <2>3, <2>4, <2>11 DEF Decide
    <3>2. turn[t].conv = conv => \A i \in DOMAIN <<e, f>> : EventOK(<<e, f>>[i])'
      BY <2>7, <2>8, <2>10, <2>11
    <3> QED BY <2>9, <3>1, <3>2, EmittedOK
  <2>12. CASE status # "PENDING_APPROVAL"
    <3>1. emit(t, <<e>>)
      BY <1>g, <1>p, <2>3, <2>12 DEF Decide
    <3> QED BY <1>4, <2>7, <3>1
  <2> QED BY <2>11, <2>12
<1> QED BY <1>a, <1>b, <1>c, <1>d, <1>e, <1>f, <1>g DEF TurnStep

\* What is left of the wire when its first event is taken.
LEMMA Taken ==
  ASSUME ConsoleTypes, wire # <<>>, wire' = Tail(wire)
  PROVE  /\ 1 \in DOMAIN wire /\ Head(wire) = wire[1]
         /\ DOMAIN wire' = 1 .. (Len(wire) - 1)
         /\ \A i \in DOMAIN wire' : i + 1 \in DOMAIN wire /\ wire'[i] = wire[i + 1]
         /\ \A i \in DOMAIN wire : i # 1 => i - 1 \in DOMAIN wire' /\ wire'[i - 1] = wire[i]
<1>1. /\ wire \in Seq(Event) /\ DOMAIN wire = 1 .. Len(wire)
      /\ Len(wire) \in Nat /\ Len(wire) # 0 /\ Head(wire) = wire[1]
  BY LenProperties, EmptySeq DEF ConsoleTypes
<1>2. /\ Tail(wire) \in Seq(Event) /\ Len(Tail(wire)) = Len(wire) - 1
      /\ \A i \in 1 .. Len(Tail(wire)) : Tail(wire)[i] = wire[i + 1]
  BY HeadTailProperties DEF ConsoleTypes
<1>3. DOMAIN wire' = 1 .. (Len(wire) - 1)
  BY <1>2, LenProperties
<1>4. \A i \in DOMAIN wire' : i + 1 \in DOMAIN wire /\ wire'[i] = wire[i + 1]
  BY <1>1, <1>2, <1>3
<1>5. ASSUME NEW i \in DOMAIN wire, i # 1
      PROVE  i - 1 \in DOMAIN wire' /\ wire'[i - 1] = wire[i]
  <2>1. i - 1 \in DOMAIN wire' /\ (i - 1) + 1 = i
    BY <1>1, <1>3, <1>5
  <2> QED BY <1>4, <2>1
<1> QED BY <1>1, <1>3, <1>4, <1>5

LEMMA EventsStep ==
  ASSUME ConsoleInv, [ConsoleNext]_consoleVars
  PROVE  \A i \in DOMAIN wire' : EventOK(wire[i])'
<1> USE DEF ConsoleInv
<1>0. /\ Grows /\ conv \in Nat \ {0}
      /\ \A i \in DOMAIN wire : wire[i] \in Event /\ EventOK(wire[i])
  BY GrowsStep, WireTyped DEF ConsoleTypes
<1>1. ASSUME NEW i \in DOMAIN wire', NEW j \in DOMAIN wire, wire'[i] = wire[j], conv' = conv
      PROVE  EventOK(wire[i])'
  <2>1. PICK e \in Event : e = wire[j] /\ EventOK(e)
    BY <1>0
  <2>2. EventOK(e)'
    BY <1>0, <1>1, <2>1, EventStays
  <2> QED BY <1>1, <2>1, <2>2 DEF EventOK
<1>2. ASSUME NEW t \in Turns, TurnStep(t) PROVE \A i \in DOMAIN wire' : EventOK(wire[i])'
  BY <1>2, TurnEventsOK
<1>3. CASE wire' = <<>>
  <2>1. DOMAIN wire' = {}
    BY <1>3
  <2> QED BY <2>1
<1>4. CASE Receive
  BY <1>1, <1>4, Taken DEF Receive
<1>5. CASE wire' = wire /\ conv' = conv
  BY <1>1, <1>5
<1>6. CASE UNCHANGED untimed
  BY <1>5, <1>6 DEF untimed, tab
<1>7. CASE NewSession \/ Disconnect \/ Restart
  BY <1>3, <1>7 DEF NewSession, Disconnect, Restart
<1>8. CASE SendReturns \/ Join \/ \E t \in Turns : Send(t)
  BY <1>5, <1>8 DEF SendReturns, Join, Send, tab
<1>9. ASSUME NEW p \in Ids, NEW v \in Verdicts,
             Fallback(p, v) \/ respond(p, v) \/ resolve(p, v) \/ GiveUp(p, v)
      PROVE  wire' = wire /\ conv' = conv
  BY <1>9 DEF Fallback, unpark, respond, resolve, GiveUp, tab
<1> QED BY <1>2, <1>4, <1>5, <1>6, <1>7, <1>8, <1>9, Untimed DEF ConsoleNext

-----------------------------------------------------------------------------
(* The rows of the timeline                                                *)

\* What an event makes of the row it is about, and of the others.
LEMMA ReducedRow ==
  ASSUME NEW e \in Event, NEW p \in Ids, ConsoleTypes, EventOK(e)
  PROVE  /\ e.id # p => reduced(e)[p] = rows[p]
         /\ e.id = p => e.type \in {"proposal", "decision", "approval:required", "execution"}
         /\ e.id = p /\ e.type = "proposal" => reduced(e)[p] = [rows[p] EXCEPT !.shown = TRUE]
         /\ e.id = p /\ e.type = "decision" =>
              reduced(e)[p] = IF ~rows[p].shown THEN rows[p]
                              ELSE [rows[p] EXCEPT
                                      !.decision = e.value,
                                      !.approvalId = @ \/ e.value = "PENDING_APPROVAL"]
         /\ e.id = p /\ e.type = "approval:required" =>
              reduced(e)[p] = [rows[p] EXCEPT !.shown = TRUE, !.approvalId = TRUE]
         /\ e.id = p /\ e.type = "execution" =>
              reduced(e)[p] = IF ~rows[p].shown THEN rows[p]
                              ELSE [rows[p] EXCEPT !.result = TRUE, !.approvalId = FALSE]
<1>0. rows \in [Ids -> Row] /\ e.id \in Ids \cup {None} /\ p # None
      /\ e.type \in {"turn:start", "turn:end", "assistant:text", "error"} \cup
                    {"proposal", "decision", "approval:required", "execution"}
  BY IdForm DEF ConsoleTypes, Event
<1>1. CASE e.id = None
  BY <1>0, <1>1 DEF reduced
<1>2. CASE e.id # None
  <2>1. e.type \in {"proposal", "decision", "approval:required", "execution"}
    BY <1>0, <1>2 DEF EventOK
  <2>2. \A r : [rows EXCEPT ![e.id] = r][p] = IF p = e.id THEN r ELSE rows[p]
    BY <1>0
  <2>3. CASE e.type = "proposal"
    BY <1>2, <2>2, <2>3 DEF reduced
  <2>4. CASE e.type = "decision"
    <3> DEFINE new == IF ~rows[e.id].shown THEN rows[e.id]
                      ELSE [rows[e.id] EXCEPT
                              !.decision = e.value,
                              !.approvalId = @ \/ e.value = "PENDING_APPROVAL"]
    <3>1. reduced(e) = [rows EXCEPT ![e.id] = new]
      BY <1>2, <2>4, Zenon DEF reduced
    <3>2. e.id = p => reduced(e)[p] = new
      <4> HIDE DEF new
      <4> QED BY <2>2, <3>1
    <3>3. e.id # p => reduced(e)[p] = rows[p]
      <4> HIDE DEF new
      <4> QED BY <2>2, <3>1
    <3>4. e.id = p => reduced(e)[p] = IF ~rows[p].shown THEN rows[p]
                              ELSE [rows[p] EXCEPT
                                      !.decision = e.value,
                                      !.approvalId = @ \/ e.value = "PENDING_APPROVAL"]
      BY <3>2, Zenon
    <3> QED BY <2>4, <3>3, <3>4, Zenon
  <2>5. CASE e.type = "approval:required"
    BY <1>2, <2>2, <2>5 DEF reduced
  <2>6. CASE e.type = "execution"
    BY <1>2, <2>2, <2>6 DEF reduced
  <2> QED BY <2>1, <2>3, <2>4, <2>5, <2>6
<1> QED BY <1>1, <1>2

\* Field by field.
LEMMA ReducedFields ==
  ASSUME NEW e \in Event, NEW p \in Ids, ConsoleTypes, EventOK(e), e.id = p
  PROVE  LET row == reduced(e)[p] IN
         /\ e.type \in {"proposal", "decision", "approval:required", "execution"}
         /\ row.shown <=> rows[p].shown \/ e.type \in {"proposal", "approval:required"}
         /\ row.decision = IF e.type = "decision" /\ rows[p].shown THEN e.value
                           ELSE rows[p].decision
         /\ row.result <=> rows[p].result \/ (e.type = "execution" /\ rows[p].shown)
         /\ row.approvalId <=>
              /\ \/ rows[p].approvalId
                 \/ e.type = "approval:required"
                 \/ e.type = "decision" /\ e.value = "PENDING_APPROVAL" /\ rows[p].shown
              /\ ~(e.type = "execution" /\ rows[p].shown)
<1>0. PICK r \in Row : r = rows[p]
  BY DEF ConsoleTypes
<1>1. e.type \in {"proposal", "decision", "approval:required", "execution"}
  BY ReducedRow
<1>2. r.shown \in BOOLEAN /\ r.approvalId \in BOOLEAN /\ r.result \in BOOLEAN
  BY DEF Row
<1>3. CASE e.type = "proposal"
  <2>1. reduced(e)[p] = [r EXCEPT !.shown = TRUE]
    BY <1>0, <1>3, ReducedRow
  <2> QED BY <1>0, <1>2, <1>3, <2>1 DEF Row
<1>4. CASE e.type = "decision"
  <2>0. reduced(e)[p] = IF ~rows[p].shown THEN rows[p]
                        ELSE [rows[p] EXCEPT !.decision = e.value,
                                             !.approvalId = @ \/ e.value = "PENDING_APPROVAL"]
    BY <1>4, ReducedRow, Zenon
  <2>1. reduced(e)[p] = IF ~r.shown THEN r
                        ELSE [r EXCEPT !.decision = e.value,
                                       !.approvalId = @ \/ e.value = "PENDING_APPROVAL"]
    BY <1>0, <2>0, Zenon
  <2>2. PICK g \in BOOLEAN : g <=> r.approvalId \/ e.value = "PENDING_APPROVAL"
    OBVIOUS
  <2> QED BY <1>0, <1>2, <1>4, <2>1 DEF Row
<1>5. CASE e.type = "approval:required"
  <2>1. reduced(e)[p] = [r EXCEPT !.shown = TRUE, !.approvalId = TRUE]
    BY <1>0, <1>5, ReducedRow
  <2> QED BY <1>0, <1>2, <1>5, <2>1 DEF Row
<1>6. CASE e.type = "execution"
  <2>1. reduced(e)[p] = IF ~r.shown THEN r ELSE [r EXCEPT !.result = TRUE, !.approvalId = FALSE]
    BY <1>0, <1>6, ReducedRow
  <2> QED BY <1>0, <1>2, <1>6, <2>1 DEF Row
<1> QED BY <1>1, <1>3, <1>4, <1>5, <1>6

LEMMA RowsStep ==
  ASSUME ConsoleInv, [ConsoleNext]_consoleVars
  PROVE  \A p \in Ids : RowOK(p)'
<1> USE DEF ConsoleInv
<1>0. /\ Grows
      /\ \A p \in Ids : RowOK(p) /\ CallOK(p) /\ p[1] \in Turns
      /\ \A t \in Turns : TurnOK(t) /\ turn[t] \in TurnState
      /\ turn \in [Turns -> TurnState] /\ busy \in [Ids -> Verdicts \cup {None}]
      /\ rows \in [Ids -> Row] /\ verdict \in [Ids -> Verdicts \cup {None}]
      /\ None \notin Statuses /\ None \notin Verdicts /\ "PENDING_APPROVAL" \in Statuses
  BY GrowsStep, IdForm DEF ConsoleTypes, Statuses
<1>1. \A p \in Ids : p \in held => p \in held'
  BY <1>0 DEF Grows
<1>2. ASSUME NEW p \in Ids, conv' = conv, rows'[p] = rows[p], busy'[p] = busy[p],
             \A q \in Ids : <<q, busy[q]>> \in posts /\ q \in pending' => <<q, busy[q]>> \in posts',
             \/ turn'[p[1]].conv = turn[p[1]].conv
             \/ turn'[p[1]].conv = conv,
             busy[p] # None /\ p \in pending' => p \in pending
      PROVE  RowOK(p)'
  BY <1>0, <1>1, <1>2 DEF RowOK
<1>3. ASSUME NEW t \in Turns, TurnStep(t), NEW p \in Ids PROVE RowOK(p)'
  <2>1. UNCHANGED <<conv, rows, busy, posts>>
    BY <1>3 DEF TurnStep, Start, Propose, Decide, Resume, Execute, End, Throw, tab
  <2>2. OnlyOf(t)
    BY <1>3, TurnStaysOff
  <2>3. ASSUME busy[p] # None, p \in pending', p \notin pending PROVE FALSE
    <3>1. p \in held
      BY <1>0, <2>3 DEF RowOK
    <3>2. p = current(t) /\ turn[t].pc = "proposed"
      <4>1. p = current(t)
        BY <2>2, <2>3 DEF OnlyOf
      <4>2. pending' # pending
        BY <2>3
      <4> QED BY <1>3, <4>1, <4>2 DEF TurnStep, Start, Propose, Decide, Resume, Execute, End, Throw
    <3> QED BY <1>0, <3>1, <3>2 DEF TurnOK, held
  <2>4. turn'[p[1]].conv = turn[p[1]].conv
    BY <1>0, <2>2 DEF OnlyOf
  <2> QED BY <1>2, <2>1, <2>3, <2>4
<1>4. ASSUME NEW t \in Turns, Send(t), NEW p \in Ids PROVE RowOK(p)'
  <2>1. turn' = [turn EXCEPT ![t] = [turn[t] EXCEPT !.pc = "posted", !.conv = conv]]
    BY <1>0, <1>4 DEF Send
  <2>2. turn'[p[1]] = turn[p[1]] \/ turn'[p[1]].conv = conv
    BY <1>0, <2>1 DEF TurnState
  <2> QED BY <1>2, <1>4, <2>2 DEF Send
<1>5. ASSUME turn' = turn \/ SendReturns, pending' = pending, UNCHANGED <<conv, rows, busy, posts>>,
             NEW p \in Ids
      PROVE  RowOK(p)'
  <2>1. CASE turn' = turn
    BY <1>2, <1>5, <2>1
  <2>2. CASE SendReturns
    <3>1. PICK s \in Turns : s = sending
      BY <2>2 DEF SendReturns, ConsoleTypes
    <3>2. turn' = turn \/ moves(s, "ended")
      BY <2>2, <3>1 DEF SendReturns, moves
    <3>3. \A u \in Turns : turn'[u].conv = turn[u].conv
      BY <3>2, MovesTyped
    <3> QED BY <1>0, <1>2, <1>5, <3>3
  <2> QED BY <1>5, <2>1, <2>2
<1>6. CASE Restart
  <2>1. ASSUME NEW p \in Ids PROVE turn'[p[1]].conv = turn[p[1]].conv
    <3>1. turn'[p[1]] = IF turn[p[1]].pc \in Active THEN [turn[p[1]] EXCEPT !.pc = "ended"]
                        ELSE turn[p[1]]
      BY <1>0, <1>6 DEF Restart
    <3>2. [turn[p[1]] EXCEPT !.pc = "ended"].conv = turn[p[1]].conv
      BY <1>0 DEF TurnState
    <3> QED BY <3>1, <3>2
  <2> QED BY <1>2, <1>6, <2>1 DEF Restart, tab
<1>7. CASE NewSession
  BY <1>7 DEF NewSession, RowOK, NoRow
<1>8. ASSUME Receive, NEW p \in Ids PROVE RowOK(p)'
  <2>1. PICK e \in Event : e = Head(wire) /\ EventOK(e)
    BY <1>8, Taken, WireTyped DEF Receive
  <2>2. /\ rows' = reduced(e) /\ UNCHANGED <<turn, decision, executed, pending, verdict, conv, posts>>
        /\ busy'[p] = IF gateOpen(rows'[p]) THEN busy[p] ELSE None
    BY <1>8, <2>1 DEF Receive, serverVars
  <2>3. held' = held
    BY <2>2 DEF held
  <2>4. CASE e.id # p
    <3>1. rows'[p] = rows[p]
      BY <2>1, <2>2, <2>4, ReducedRow
    <3> QED BY <1>0, <2>2, <2>3, <3>1 DEF RowOK
  <2>5. CASE e.id = p
    <3>1. turn[p[1]].conv = conv
      BY <1>0, <2>1, <2>5, IdForm DEF EventOK
    <3>2. rows'[p].approvalId => p \in held
      BY <1>0, <2>1, <2>2, <2>5, ReducedFields DEF EventOK, RowOK
    <3>3. busy'[p] # None => rows'[p].approvalId /\ busy'[p] = busy[p]
      BY <2>2 DEF gateOpen
    <3> QED BY <1>0, <2>2, <2>3, <3>1, <3>2, <3>3 DEF RowOK
  <2> QED BY <2>4, <2>5
<1>9. ASSUME NEW p \in Ids, NEW v \in Verdicts,
             Fallback(p, v) \/ respond(p, v) \/ resolve(p, v) \/ GiveUp(p, v), NEW q \in Ids
      PROVE  RowOK(q)'
  <2>1. CASE Fallback(p, v)
    BY <1>2, <2>1 DEF Fallback, unpark, tab
  <2>2. CASE respond(p, v)
    <3>1. /\ UNCHANGED <<turn, pending, conv, rows>> /\ busy' = [busy EXCEPT ![p] = v]
          /\ posts' = posts \cup {<<p, v>>} /\ rows[p].approvalId /\ held' = held
      BY <2>2 DEF respond, gateOpen, serverVars, held
    <3>2. CASE q # p
      BY <1>0, <1>2, <3>1, <3>2
    <3>3. CASE q = p
      BY <1>0, <3>1, <3>3 DEF RowOK
    <3> QED BY <3>2, <3>3
  <2>3. CASE resolve(p, v)
    <3>1. /\ UNCHANGED <<turn, conv, rows>> /\ pending' = pending \ {p}
          /\ posts' = posts \ {<<p, v>>}
          /\ busy'[p] \in {busy[p], None} /\ (q # p => busy'[q] = busy[q])
      BY <1>0, <2>3 DEF resolve, unpark
    <3> QED BY <1>0, <1>1, <3>1 DEF RowOK
  <2>4. CASE GiveUp(p, v)
    <3>1. /\ UNCHANGED <<turn, pending, conv, rows>> /\ held' = held
          /\ busy' = [busy EXCEPT ![p] = None] /\ posts \ {<<p, v>>} \subseteq posts'
      BY <2>4 DEF GiveUp, serverVars, held
    <3> QED BY <1>0, <3>1 DEF RowOK
  <2> QED BY <1>9, <2>1, <2>2, <2>3, <2>4
<1>10. CASE UNCHANGED untimed
  BY <1>5, <1>10 DEF untimed, serverVars, tab
<1>11. CASE Join \/ Disconnect \/ SendReturns
  BY <1>5, <1>11 DEF Join, Disconnect, SendReturns, serverVars, tab
<1> QED BY <1>3, <1>4, <1>6, <1>7, <1>8, <1>9, <1>10, <1>11, Untimed DEF ConsoleNext

-----------------------------------------------------------------------------
(* A row followed will be right                                            *)

Same(p) ==
  /\ rows'[p] = rows[p] /\ decision'[p] = decision[p]
  /\ p \in proposed' <=> p \in proposed
  /\ p \in executed' <=> p \in executed
  /\ p \in held' <=> p \in held

LEMMA RightOnTheSameWire ==
  ASSUME NEW p \in Ids, WillBeRight(p), Same(p), wire' = wire
  PROVE  WillBeRight(p)'
<1>1. \A type : OnWire(p, type)' <=> OnWire(p, type)
  BY DEF OnWire
<1>2. InOrder(p)'
  BY DEF WillBeRight, InOrder
<1>3. ShownWillBe(p)' /\ ResultWillBe(p)' /\ GateWillBe(p)'
  BY <1>1 DEF WillBeRight, Same, ShownWillBe, ResultWillBe, GateWillBe
<1>4. DecisionWillBe(p)'
  BY <1>1 DEF WillBeRight, Same, DecisionWillBe
<1> QED BY <1>2, <1>3, <1>4 DEF WillBeRight

\* Events about other calls, or about none, change nothing.
LEMMA RightAfterOthers ==
  ASSUME ConsoleTypes, NEW p \in Ids, WillBeRight(p), Same(p),
         NEW E \in Seq(Event), wire' = wire \o E, \A i \in DOMAIN E : E[i].id # p
  PROVE  WillBeRight(p)'
<1>0. /\ \A i \in DOMAIN wire : i \in DOMAIN wire' /\ wire'[i] = wire[i]
      /\ \A i \in DOMAIN wire' : wire'[i].id = p => i \in DOMAIN wire
  <2>1. wire \in Seq(Event)
    BY DEF ConsoleTypes
  <2>2. ASSUME NEW i \in DOMAIN wire', i \notin DOMAIN wire PROVE wire'[i].id # p
    <3>1. PICK j \in DOMAIN E : i = Len(wire) + j
      BY <2>1, <2>2, Appended
    <3>2. wire'[Len(wire) + j] = E[j]
      BY <2>1, Appended
    <3> QED BY <3>1, <3>2
  <2> QED BY <2>1, <2>2, Appended
<1>1. \A type : OnWire(p, type)' <=> OnWire(p, type)
  BY <1>0 DEF OnWire
<1>2. InOrder(p)'
  BY <1>0 DEF WillBeRight, InOrder
<1>3. ShownWillBe(p)' /\ ResultWillBe(p)' /\ GateWillBe(p)'
  BY <1>1 DEF WillBeRight, Same, ShownWillBe, ResultWillBe, GateWillBe
<1>4. DecisionWillBe(p)'
  BY <1>0, <1>1 DEF WillBeRight, Same, DecisionWillBe
<1> QED BY <1>2, <1>3, <1>4 DEF WillBeRight

\* One event more.
LEMMA AppendedOne ==
  ASSUME ConsoleTypes, NEW e \in Event, wire' = wire \o <<e>>, NEW p \in Ids, e.id = p
  PROVE  LET n == Len(wire) + 1 IN
         /\ n \in DOMAIN wire' /\ wire'[n] = e /\ n \in Nat
         /\ \A i \in DOMAIN wire : /\ i \in DOMAIN wire' /\ wire'[i] = wire[i]
                                   /\ i < n /\ i \in Nat
         /\ \A i \in DOMAIN wire' : i \in DOMAIN wire \/ i = n
         /\ \A type : OnWire(p, type)' <=> OnWire(p, type) \/ e.type = type
<1> DEFINE n == Len(wire) + 1
<1>1. <<e>> \in Seq(Event) /\ DOMAIN <<e>> = {1} /\ <<e>>[1] = e /\ wire \in Seq(Event)
  BY DEF ConsoleTypes
<1>2. /\ n \in DOMAIN wire' /\ wire'[n] = e
      /\ \A i \in DOMAIN wire : i \in DOMAIN wire' /\ wire'[i] = wire[i]
      /\ \A i \in DOMAIN wire' : i \in DOMAIN wire \/ i = n
      /\ DOMAIN wire = 1 .. Len(wire) /\ Len(wire) \in Nat
  BY <1>1, Appended
<1>3. \A i \in DOMAIN wire : i < n /\ i \in Nat
  BY <1>2
<1>4. ASSUME NEW type PROVE OnWire(p, type)' <=> OnWire(p, type) \/ e.type = type
  BY <1>2 DEF OnWire
<1> QED BY <1>2, <1>3, <1>4

\* What is known of a call before it is proposed and before it is executed.
LEMMA Unproposed ==
  ASSUME ConsoleInv, NEW p \in Ids, p \notin proposed
  PROVE  /\ \A i \in DOMAIN wire : wire[i].id # p
         /\ \A type : ~OnWire(p, type)
         /\ decision[p] = None /\ p \notin executed /\ p \notin held
<1>1. \A i \in DOMAIN wire : wire[i].id # p
  BY IdForm, WireTyped DEF ConsoleInv, EventOK
<1>2. decision[p] = None /\ p \notin executed /\ p \notin held
  BY IdForm DEF ConsoleInv, CallOK, held, Statuses
<1> QED BY <1>1, <1>2 DEF OnWire

LEMMA Unexecuted ==
  ASSUME ConsoleInv, NEW p \in Ids, p \notin executed
  PROVE  \A i \in DOMAIN wire : wire[i].id = p => wire[i].type # "execution"
BY IdForm, WireTyped DEF ConsoleInv, EventOK

LEMMA Undecided ==
  ASSUME ConsoleInv, NEW p \in Ids, p \notin held
  PROVE  \A i \in DOMAIN wire : wire[i].id = p => wire[i].type # "approval:required"
BY IdForm, WireTyped DEF ConsoleInv, EventOK

LEMMA AppendedTwo ==
  ASSUME ConsoleTypes, NEW e \in Event, NEW f \in Event, wire' = wire \o <<e, f>>,
         NEW p \in Ids, e.id = p, f.id = p
  PROVE  LET n == Len(wire) + 1
             m == Len(wire) + 2
         IN
         /\ n \in DOMAIN wire' /\ wire'[n] = e /\ n \in Nat
         /\ m \in DOMAIN wire' /\ wire'[m] = f /\ m \in Nat /\ n < m
         /\ \A i \in DOMAIN wire : /\ i \in DOMAIN wire' /\ wire'[i] = wire[i]
                                   /\ i < n /\ i < m /\ i \in Nat
         /\ \A i \in DOMAIN wire' : i \in DOMAIN wire \/ i = n \/ i = m
         /\ \A type : OnWire(p, type)' <=> OnWire(p, type) \/ e.type = type \/ f.type = type
<1> DEFINE n == Len(wire) + 1
           m == Len(wire) + 2
<1>1. /\ <<e, f>> \in Seq(Event) /\ DOMAIN <<e, f>> = {1, 2}
      /\ <<e, f>>[1] = e /\ <<e, f>>[2] = f /\ wire \in Seq(Event)
  BY DEF ConsoleTypes
<1>2. /\ n \in DOMAIN wire' /\ wire'[n] = e /\ m \in DOMAIN wire' /\ wire'[m] = f
      /\ \A i \in DOMAIN wire : i \in DOMAIN wire' /\ wire'[i] = wire[i]
      /\ \A i \in DOMAIN wire' : i \in DOMAIN wire \/ i = n \/ i = m
      /\ DOMAIN wire = 1 .. Len(wire) /\ Len(wire) \in Nat
  <2>1. /\ DOMAIN wire = 1 .. Len(wire) /\ Len(wire) \in Nat
        /\ \A i \in DOMAIN wire : i \in DOMAIN wire' /\ wire'[i] = wire[i]
    BY <1>1, Appended
  <2>2. \A i \in {1, 2} : Len(wire) + i \in DOMAIN wire' /\ wire'[Len(wire) + i] = <<e, f>>[i]
    BY <1>1, Appended
  <2>3. \A i \in DOMAIN wire' : i \in DOMAIN wire \/ \E j \in {1, 2} : i = Len(wire) + j
    BY <1>1, Appended
  <2> QED BY <1>1, <2>1, <2>2, <2>3
<1>3. \A i \in DOMAIN wire : i < n /\ i < m /\ i \in Nat
  BY <1>2
<1>4. ASSUME NEW type PROVE OnWire(p, type)' <=> OnWire(p, type) \/ e.type = type \/ f.type = type
  BY <1>2 DEF OnWire
<1> QED BY <1>2, <1>3, <1>4

\* A call is proposed.
LEMMA RightWhenProposed ==
  ASSUME ConsoleInv, NEW p \in Ids, WillBeRight(p), p \notin proposed,
         NEW e \in Event, wire' = wire \o <<e>>, e.id = p, e.type = "proposal",
         p \in proposed', UNCHANGED <<rows, decision, executed, verdict>>
  PROVE  WillBeRight(p)'
<1> DEFINE n == Len(wire) + 1
<1>1. /\ \A i \in DOMAIN wire' : wire'[i].id = p => i = n
      /\ \A type : OnWire(p, type)' <=> type = "proposal"
      /\ n \in DOMAIN wire' /\ wire'[n] = e
  <2>1. ConsoleTypes
    BY DEF ConsoleInv
  <2>2. /\ n \in DOMAIN wire' /\ wire'[n] = e
        /\ \A i \in DOMAIN wire : wire'[i] = wire[i]
        /\ \A i \in DOMAIN wire' : i \in DOMAIN wire \/ i = n
        /\ \A type : OnWire(p, type)' <=> OnWire(p, type) \/ e.type = type
    BY <2>1, AppendedOne
  <2>3. (\A i \in DOMAIN wire : wire[i].id # p) /\ \A type : ~OnWire(p, type)
    BY Unproposed
  <2> QED BY <2>2, <2>3
<1>2. decision[p] = None /\ p \notin executed /\ p \notin held /\ held' = held
      /\ \A type : ~OnWire(p, type)
  BY Unproposed DEF held
<1>3. InOrder(p)'
  BY <1>1, WireTyped, TypesStep DEF InOrder
<1>4. ShownWillBe(p)' /\ ResultWillBe(p)' /\ DecisionWillBe(p)' /\ GateWillBe(p)'
  BY <1>1, <1>2 DEF WillBeRight, ShownWillBe, ResultWillBe, DecisionWillBe, GateWillBe
<1> QED BY <1>3, <1>4 DEF WillBeRight

\* A call is decided, or its parked verdict comes in.
LEMMA RightWhenDecided ==
  ASSUME ConsoleInv, NEW p \in Ids, WillBeRight(p), p \in proposed, p \notin executed,
         NEW status \in Statuses,
         NEW e \in Event, wire' = wire \o <<e>>, e.id = p, e.type = "decision", e.value = status,
         decision' = [decision EXCEPT ![p] = status],
         p \in held' <=> p \in held, p \in proposed', UNCHANGED <<rows, executed>>
  PROVE  WillBeRight(p)'
<1> DEFINE n == Len(wire) + 1
<1>1. /\ n \in DOMAIN wire' /\ wire'[n] = e /\ n \in Nat
      /\ \A i \in DOMAIN wire : i \in DOMAIN wire' /\ wire'[i] = wire[i] /\ i < n /\ i \in Nat
      /\ \A i \in DOMAIN wire' : i \in DOMAIN wire \/ i = n
      /\ \A type : OnWire(p, type)' <=> OnWire(p, type) \/ type = "decision"
  BY AppendedOne DEF ConsoleInv
<1>2. decision'[p] = status
  BY DEF ConsoleInv, ConsoleTypes
<1>3. InOrder(p)'
  <2>1. \A i \in DOMAIN wire : wire[i].id = p => wire[i].type # "execution"
    BY Unexecuted
  <2> QED BY <1>1, <2>1 DEF WillBeRight, InOrder
<1>4. DecisionWillBe(p)'
  <2>1. OnWire(p, "decision")'
    BY <1>1
  <2>2. ASSUME NEW i \in DOMAIN wire',
               \A j \in DOMAIN wire' : wire'[j].id = p /\ wire'[j].type = "decision" => j <= i
        PROVE  i = n
    <3>1. n <= i
      BY <1>1, <2>2
    <3>2. i \in DOMAIN wire => i < n /\ i \in Nat
      BY <1>1
    <3> QED BY <1>1, <3>1, <3>2
  <2> QED BY <1>1, <1>2, <2>1, <2>2 DEF DecisionWillBe
<1>5. ShownWillBe(p)' /\ ResultWillBe(p)' /\ GateWillBe(p)'
  BY <1>1 DEF WillBeRight, ShownWillBe, ResultWillBe, GateWillBe
<1> QED BY <1>3, <1>4, <1>5 DEF WillBeRight

\* A call is handed to a human.
LEMMA RightWhenHeld ==
  ASSUME ConsoleInv, NEW p \in Ids, WillBeRight(p), p \in proposed, p \notin executed,
         NEW status \in Statuses, NEW e \in Event, NEW f \in Event,
         wire' = wire \o <<e, f>>, e.id = p, e.type = "decision", e.value = status,
         f.id = p, f.type = "approval:required",
         decision' = [decision EXCEPT ![p] = status],
         p \in proposed', UNCHANGED <<rows, executed>>
  PROVE  WillBeRight(p)'
<1> DEFINE n == Len(wire) + 1
           m == Len(wire) + 2
<1>1. /\ n \in DOMAIN wire' /\ wire'[n] = e /\ n \in Nat
      /\ m \in DOMAIN wire' /\ wire'[m] = f /\ m \in Nat /\ n < m
      /\ \A i \in DOMAIN wire : /\ i \in DOMAIN wire' /\ wire'[i] = wire[i]
                                /\ i < n /\ i < m /\ i \in Nat
      /\ \A i \in DOMAIN wire' : i \in DOMAIN wire \/ i = n \/ i = m
      /\ \A type : OnWire(p, type)' <=> OnWire(p, type) \/ e.type = type \/ f.type = type
  <2>1. ConsoleTypes
    BY DEF ConsoleInv
  <2> QED BY <2>1, AppendedTwo
<1>2. decision'[p] = status
  BY DEF ConsoleInv, ConsoleTypes
<1>3. InOrder(p)'
  <2>1. \A i \in DOMAIN wire : wire[i].id = p => wire[i].type # "execution"
    BY Unexecuted
  <2>2. \A i \in DOMAIN wire' : wire'[i].id = p => wire'[i].type # "execution"
    BY <1>1, <2>1
  <2>3. ASSUME NEW i \in DOMAIN wire', NEW j \in DOMAIN wire', wire'[i].id = p, wire'[j].id = p,
               i < j, wire'[j].type = "proposal"
        PROVE  FALSE
    <3>1. j \in DOMAIN wire /\ wire[j] = wire'[j]
      BY <1>1, <2>3
    <3>2. i \in DOMAIN wire /\ wire[i] = wire'[i]
      BY <1>1, <2>3, <3>1
    <3> QED BY <2>3, <3>1, <3>2 DEF WillBeRight, InOrder
  <2> QED BY <2>2, <2>3 DEF InOrder
<1>4. DecisionWillBe(p)'
  <2>1. OnWire(p, "decision")'
    BY <1>1
  <2>2. ASSUME NEW i \in DOMAIN wire', wire'[i].type = "decision",
               \A j \in DOMAIN wire' : wire'[j].id = p /\ wire'[j].type = "decision" => j <= i
        PROVE  i = n
    <3>1. n <= i
      BY <1>1, <2>2
    <3>2. i \in DOMAIN wire => i < n /\ i \in Nat
      BY <1>1
    <3> QED BY <1>1, <2>2, <3>1, <3>2
  <2> QED BY <1>1, <1>2, <2>1, <2>2 DEF DecisionWillBe
<1>5. ShownWillBe(p)' /\ ResultWillBe(p)' /\ GateWillBe(p)'
  BY <1>1 DEF WillBeRight, ShownWillBe, ResultWillBe, GateWillBe
<1> QED BY <1>3, <1>4, <1>5 DEF WillBeRight

\* A call is executed.
LEMMA RightWhenExecuted ==
  ASSUME ConsoleInv, NEW p \in Ids, WillBeRight(p), p \in proposed, p \notin executed,
         NEW e \in Event, wire' = wire \o <<e>>, e.id = p, e.type = "execution",
         p \in executed', p \in proposed', UNCHANGED <<rows, decision, verdict>>
  PROVE  WillBeRight(p)'
<1> DEFINE n == Len(wire) + 1
<1>1. /\ n \in DOMAIN wire' /\ wire'[n] = e /\ n \in Nat
      /\ \A i \in DOMAIN wire : i \in DOMAIN wire' /\ wire'[i] = wire[i] /\ i < n /\ i \in Nat
      /\ \A i \in DOMAIN wire' : i \in DOMAIN wire \/ i = n
      /\ \A type : OnWire(p, type)' <=> OnWire(p, type) \/ type = "execution"
  BY AppendedOne DEF ConsoleInv
<1>2. \A i \in DOMAIN wire : wire[i].id = p => wire[i].type # "execution"
  BY Unexecuted
<1>3. InOrder(p)'
  <2>1. ASSUME NEW i \in DOMAIN wire', NEW j \in DOMAIN wire', wire'[i].id = p, wire'[j].id = p,
               i < j
        PROVE  wire'[i].type # "execution" /\ wire'[j].type # "proposal"
    <3>1. i \in DOMAIN wire /\ wire[i] = wire'[i]
      BY <1>1, <2>1
    <3>2. CASE j = n
      BY <1>1, <1>2, <2>1, <3>1, <3>2
    <3>3. CASE j \in DOMAIN wire
      BY <1>1, <1>2, <2>1, <3>1, <3>3 DEF WillBeRight, InOrder
    <3> QED BY <1>1, <3>2, <3>3
  <2> QED BY <2>1 DEF InOrder
<1>4. DecisionWillBe(p)'
  BY <1>1 DEF WillBeRight, DecisionWillBe
<1>5. ResultWillBe(p)'
  <2>1. ~rows[p].result
    BY DEF WillBeRight, ResultWillBe
  <2> QED BY <1>1, <2>1 DEF ResultWillBe
<1>6. ShownWillBe(p)' /\ GateWillBe(p)'
  <2>1. held' = held
    BY DEF held
  <2> QED BY <1>1, <2>1 DEF WillBeRight, ShownWillBe, GateWillBe
<1> QED BY <1>3, <1>4, <1>5, <1>6 DEF WillBeRight

LEMMA TurnRight ==
  ASSUME ConsoleInv, NEW t \in Turns, TurnStep(t), NEW q \in Ids, Followed(q)'
  PROVE  WillBeRight(q)'
<1> USE DEF ConsoleInv
<1>0. /\ OnlyOf(t) /\ Grows /\ TurnOK(t) /\ TurnOK(t)'
      /\ turn'[t].conv = turn[t].conv /\ conv' = conv /\ verdict' = verdict
      /\ \A u \in Turns : turn'[u].conv = turn[u].conv
      /\ q[1] \in Turns /\ q # None /\ UNCHANGED <<rows, conv>>
      /\ turn \in [Turns -> TurnState] /\ turn[t].step \in Nat
  <2>1. UNCHANGED <<rows, conv>>
    BY DEF TurnStep, Start, Propose, Decide, Resume, Execute, End, Throw, tab
  <2>2. OnlyOf(t) /\ Grows /\ TurnOK(t) /\ TurnOK(t)'
    BY TurnStaysOff, TurnGrows, TurnsStep DEF ConsoleNext
  <2>3. /\ q[1] \in Turns /\ q # None
        /\ turn \in [Turns -> TurnState] /\ turn[t].step \in Nat
    BY IdForm DEF ConsoleTypes, TurnState
  <2> QED BY <2>1, <2>2, <2>3 DEF OnlyOf
<1>1. /\ Statuses = {"ALLOW", "DENY", "PENDING_APPROVAL"} /\ Verdicts = {"ALLOW", "DENY"}
      /\ None \in Ids \cup {None} /\ None \in Statuses \cup {None}
  BY DEF Statuses, Verdicts
<1>2. ASSUME NEW E, emit(t, E) \/ UNCHANGED <<missed, wire>>
      PROVE  WillBeRight(q) /\ (q[1] = t /\ emit(t, E) => wire' = wire \o E)
  <2>1. Followed(q)
    BY <1>0, <1>2 DEF Followed, emit
  <2>2. q[1] = t /\ emit(t, E) => wire' = wire \o E
    BY DEF Followed, emit
  <2> QED BY <2>1, <2>2
<1>3. ASSUME NEW E \in Seq(Event), emit(t, E), Same(q), \A i \in DOMAIN E : E[i].id # q
      PROVE  WillBeRight(q)'
  <2>1. WillBeRight(q) /\ (wire' = wire \/ wire' = wire \o E)
    BY <1>2, <1>3 DEF emit
  <2> QED BY <1>3, <2>1, RightOnTheSameWire, RightAfterOthers
<1>4. ASSUME NEW e \in Event, emit(t, <<e>>), Same(q), e.id # q
      PROVE  WillBeRight(q)'
  <2>1. <<e>> \in Seq(Event) /\ \A i \in DOMAIN <<e>> : <<e>>[i].id # q
    BY <1>4
  <2> QED BY <1>3, <1>4, <2>1
<1>5. ASSUME NEW e \in Event, NEW f \in Event, emit(t, <<e, f>>), Same(q), e.id # q, f.id # q
      PROVE  WillBeRight(q)'
  <2>1. <<e, f>> \in Seq(Event) /\ \A i \in DOMAIN <<e, f>> : <<e, f>>[i].id # q
    BY <1>5
  <2> QED BY <1>3, <1>5, <2>1
<1>6. ASSUME turn'[t].step = turn[t].step
      PROVE  /\ q \in proposed' <=> q \in proposed
             /\ q # current(t) => Same(q)
             /\ UNCHANGED <<decision, executed>> => Same(q)
  <2>1. turn'[q[1]].step = turn[q[1]].step
    BY <1>0, <1>6 DEF OnlyOf
  <2>2. q \in proposed' <=> q \in proposed
    BY <2>1 DEF proposed
  <2> QED BY <1>0, <2>2 DEF Same, OnlyOf, held
<1>7. ASSUME q = current(t) PROVE q[1] = t /\ q \in proposed /\ q \in proposed'
  <2>1. q[1] = t /\ q[2] = turn[t].step
    BY <1>7 DEF current
  <2>2. q \in proposed
    BY <1>0, <2>1 DEF proposed
  <2> QED BY <1>0, <2>1, <2>2 DEF Grows
<1>p. PICK p : p = current(t)
  OBVIOUS
<1>a. CASE Start(t)
  <2>1. PICK e \in Event : e = event("turn:start", t, None, None) /\ e.id = None
    BY <1>1, EventTyped
  <2>2. emit(t, <<e>>) /\ turn'[t].step = turn[t].step /\ UNCHANGED <<decision, executed>>
    BY <1>a, <2>1, MovesTyped DEF Start, Active
  <2> QED BY <1>0, <1>4, <1>6, <2>1, <2>2
<1>b. CASE Propose(t)
  <2>1. PICK p1 : p1 = current(t)'
    OBVIOUS
  <2>2. turn'[t].pc = "proposed" /\ turn'[t].step = turn[t].step + 1
    <3>1. turn' = [turn EXCEPT ![t] = [turn[t] EXCEPT !.pc = "proposed", !.step = turn[t].step + 1]]
      BY <1>b DEF Propose, ConsoleTypes
    <3> QED BY <3>1 DEF ConsoleTypes, TurnState
  <2>3. p1 \in Ids /\ p1 = <<t, turn[t].step + 1>> /\ p1[1] = t /\ p1[2] = turn[t].step + 1
    BY <1>0, <2>1, <2>2 DEF TurnOK, current
  <2>4. PICK e \in Event : /\ e = event("proposal", t, p1, None)
                           /\ e.type = "proposal" /\ e.id = p1
    BY <1>1, <2>3, EventTyped
  <2>5. emit(t, <<e>>) /\ UNCHANGED <<decision, executed, verdict, rows>>
    BY <1>0, <1>b, <2>3, <2>4 DEF Propose
  <2>6. CASE q = p1
    <3>1. q \notin proposed /\ q \in proposed'
      BY <1>0, <2>2, <2>3, <2>6 DEF proposed
    <3>2. wire' = wire \o <<e>> /\ WillBeRight(q)
      BY <1>2, <2>3, <2>5, <2>6
    <3> QED BY <2>4, <2>5, <2>6, <3>1, <3>2, RightWhenProposed
  <2>7. CASE q # p1
    <3>1. q \in proposed' <=> q \in proposed
      <4>1. CASE q[1] = t
        <5>1. q[2] \in Nat /\ q[2] # turn[t].step + 1
          BY <2>3, <2>7, <4>1, IdForm
        <5> QED BY <1>0, <2>2, <4>1, <5>1 DEF proposed
      <4>2. CASE q[1] # t
        BY <1>0, <4>2 DEF proposed, OnlyOf
      <4> QED BY <4>1, <4>2
    <3>2. Same(q)
      BY <2>5, <3>1 DEF Same, held
    <3> QED BY <1>4, <2>4, <2>5, <2>7, <3>2
  <2> QED BY <2>6, <2>7
<1>c. CASE Resume(t)
  <2>1. p \in Ids /\ p \notin executed /\ turn[t].pc = "held" /\ verdict[p] # None
    BY <1>0, <1>c, <1>p DEF Resume, TurnOK
  <2>2. PICK v \in Verdicts : v = verdict[p]
    BY <2>1 DEF ConsoleTypes
  <2>3. PICK e \in Event : /\ e = event("decision", t, p, v)
                           /\ e.type = "decision" /\ e.id = p /\ e.value = v
    BY <1>1, <2>1, EventTyped
  <2>4. emit(t, <<e>>) /\ decision' = [decision EXCEPT ![p] = v] /\ UNCHANGED <<executed, verdict>>
    BY <1>c, <1>p, <2>2, <2>3 DEF Resume
  <2>5. turn'[t].step = turn[t].step
    BY <1>c, MovesTyped DEF Resume, Active
  <2>6. CASE q = p
    <3>1. wire' = wire \o <<e>> /\ WillBeRight(q)
      BY <1>2, <1>7, <1>p, <2>4, <2>6
    <3>2. q \in held' /\ q \in held /\ v \in Statuses
      BY <1>1, <2>1, <2>4, <2>6 DEF held
    <3> QED BY <1>0, <1>7, <1>p, <2>1, <2>3, <2>4, <2>6, <3>1, <3>2, RightWhenDecided
  <2>7. CASE q # p
    BY <1>4, <1>6, <1>p, <2>3, <2>4, <2>5, <2>7
  <2> QED BY <2>6, <2>7
<1>d. CASE Execute(t)
  <2>1. p \in Ids /\ p \notin executed
    BY <1>0, <1>d, <1>p DEF Execute, TurnOK
  <2>3. PICK e \in Event : /\ e = event("execution", t, p, None)
                           /\ e.type = "execution" /\ e.id = p
    BY <1>1, <2>1, EventTyped
  <2>4. emit(t, <<e>>) /\ executed' = executed \cup {p} /\ UNCHANGED <<decision, verdict>>
    BY <1>d, <1>p, <2>3 DEF Execute
  <2>5. turn'[t].step = turn[t].step
    BY <1>d, MovesTyped DEF Execute, Active
  <2>6. CASE q = p
    <3>1. wire' = wire \o <<e>> /\ WillBeRight(q)
      BY <1>2, <1>7, <1>p, <2>4, <2>6
    <3> QED BY <1>0, <1>7, <1>p, <2>1, <2>3, <2>4, <2>6, <3>1, RightWhenExecuted
  <2>7. CASE q # p
    BY <1>4, <1>6, <1>p, <2>3, <2>4, <2>5, <2>7
  <2> QED BY <2>6, <2>7
<1>e. CASE End(t)
  <2>1. PICK last \in {"assistant:text", "error"} :
          emit(t, <<event(last, t, None, None), event("turn:end", t, None, None)>>)
    BY <1>e DEF End
  <2>2. PICK e \in Event : e = event(last, t, None, None) /\ e.id = None
    BY <1>1, EventTyped
  <2>3. PICK f \in Event : f = event("turn:end", t, None, None) /\ f.id = None
    BY <1>1, EventTyped
  <2>4. emit(t, <<e, f>>) /\ turn'[t].step = turn[t].step /\ UNCHANGED <<decision, executed>>
    BY <1>e, <2>1, <2>2, <2>3, MovesTyped DEF End, Active
  <2> QED BY <1>0, <1>5, <1>6, <2>2, <2>3, <2>4
<1>f. CASE Throw(t)
  <2>1. turn'[t].step = turn[t].step /\ UNCHANGED <<decision, executed, wire, missed>>
    BY <1>f, MovesTyped DEF Throw, Active
  <2>2. WillBeRight(q) /\ Same(q)
    BY <1>2, <1>6, <2>1
  <2> QED BY <2>1, <2>2, RightOnTheSameWire
<1>g. ASSUME NEW status \in Statuses, Decide(t, status) PROVE WillBeRight(q)'
  <2>1. /\ p \in Ids /\ turn[t].pc = "proposed" /\ p \notin executed
        /\ decision[p] = None /\ verdict[p] = None
    BY <1>0, <1>g, <1>p DEF Decide, TurnOK
  <2>2. /\ decision' = [decision EXCEPT ![p] = status] /\ UNCHANGED <<executed, verdict>>
        /\ turn'[t].step = turn[t].step
    BY <1>g, <1>p, MovesTyped DEF Decide, Active
  <2>3. PICK e \in Event : /\ e = event("decision", t, p, status)
                           /\ e.type = "decision" /\ e.id = p /\ e.value = status
    BY <2>1, EventTyped
  <2>4. PICK f \in Event : /\ f = event("approval:required", t, p, None)
                           /\ f.type = "approval:required" /\ f.id = p
    BY <1>1, <2>1, EventTyped
  <2>5. CASE status = "PENDING_APPROVAL"
    <3>1. emit(t, <<e, f>>)
      BY <1>g, <1>p, <2>3, <2>4, <2>5 DEF Decide
    <3>2. CASE q = p
      <4>1. wire' = wire \o <<e, f>> /\ WillBeRight(q)
        BY <1>2, <1>7, <1>p, <3>1, <3>2
      <4> QED BY <1>0, <1>7, <1>p, <2>1, <2>2, <2>3, <2>4, <3>2, <4>1, RightWhenHeld
    <3>3. CASE q # p
      BY <1>5, <1>6, <1>p, <2>2, <2>3, <2>4, <3>1, <3>3
    <3> QED BY <3>2, <3>3
  <2>6. CASE status # "PENDING_APPROVAL"
    <3>1. emit(t, <<e>>)
      BY <1>g, <1>p, <2>3, <2>6 DEF Decide
    <3>2. CASE q = p
      <4>1. wire' = wire \o <<e>> /\ WillBeRight(q)
        BY <1>2, <1>7, <1>p, <3>1, <3>2
      <4>2. decision'[p] = status
        BY <2>1, <2>2 DEF ConsoleTypes
      <4>3. q \notin held' /\ q \notin held
        BY <1>1, <2>1, <2>2, <2>6, <3>2, <4>2, IdForm DEF held
      <4> QED BY <1>0, <1>7, <1>p, <2>1, <2>2, <2>3, <3>2, <4>1, <4>3, RightWhenDecided
    <3>3. CASE q # p
      BY <1>4, <1>6, <1>p, <2>2, <2>3, <3>1, <3>3
    <3> QED BY <3>2, <3>3
  <2> QED BY <2>5, <2>6
<1> QED BY <1>a, <1>b, <1>c, <1>d, <1>e, <1>f, <1>g DEF TurnStep

\* The first event on its way arrives: it does to the row what it says, and what is left
\* on its way does the rest.
LEMMA RightWhenReceived ==
  ASSUME ConsoleInv, Receive, NEW p \in Ids, WillBeRight(p)
  PROVE  WillBeRight(p)'
<1> USE DEF ConsoleInv
<1>1. /\ 1 \in DOMAIN wire /\ Head(wire) = wire[1]
      /\ \A i \in DOMAIN wire' : i + 1 \in DOMAIN wire /\ wire'[i] = wire[i + 1]
      /\ \A i \in DOMAIN wire : i # 1 => i - 1 \in DOMAIN wire' /\ wire'[i - 1] = wire[i]
      /\ \A i \in DOMAIN wire' : i \in Nat \ {0}
      /\ \A i \in DOMAIN wire : i \in Nat \ {0}
  BY Taken, WireTyped DEF Receive
<1>2. PICK e \in Event : e = wire[1] /\ e = Head(wire) /\ EventOK(e)
  BY <1>1, WireTyped
<1>3. /\ rows' = reduced(e)
      /\ UNCHANGED <<turn, decision, executed, pending, verdict>>
  BY <1>2 DEF Receive, serverVars
<1>4. proposed' = proposed /\ held' = held
  BY <1>3 DEF proposed, held
<1>5. \A type : OnWire(p, type)' => OnWire(p, type)
  BY <1>1 DEF OnWire
<1>6. \A type : OnWire(p, type) => OnWire(p, type)' \/ (e.id = p /\ e.type = type)
  BY <1>1, <1>2 DEF OnWire
<1>7. InOrder(p)'
  <2>1. ASSUME NEW i \in DOMAIN wire', NEW j \in DOMAIN wire', wire'[i].id = p, wire'[j].id = p,
               i < j
        PROVE  wire'[i].type # "execution" /\ wire'[j].type # "proposal"
    <3>1. i + 1 < j + 1
      BY <1>1, <2>1
    <3> QED BY <1>1, <2>1, <3>1 DEF WillBeRight, InOrder
  <2> QED BY <2>1 DEF InOrder
<1>8. ASSUME e.id = p
      PROVE  /\ ~OnWire(p, "proposal")'
             /\ e.type = "execution" => \A type : ~OnWire(p, type)'
    <2>1. \A i \in DOMAIN wire' : i + 1 \in DOMAIN wire /\ 1 < i + 1
      BY <1>1
    <2>2. ASSUME NEW i \in DOMAIN wire', wire'[i].id = p
          PROVE  wire'[i].type # "proposal" /\ e.type # "execution"
      BY <1>1, <1>2, <1>8, <2>1, <2>2 DEF WillBeRight, InOrder
    <2> QED BY <2>2 DEF OnWire
<1>9. DecisionWillBe(p)'
  <2>1. ASSUME NEW i \in DOMAIN wire', wire'[i].id = p, wire'[i].type = "decision",
               \A j \in DOMAIN wire' : wire'[j].id = p /\ wire'[j].type = "decision" => j <= i
        PROVE  wire'[i].value = decision[p]
    <3>1. ASSUME NEW j \in DOMAIN wire, wire[j].id = p, wire[j].type = "decision"
          PROVE  j <= i + 1
      <4>1. CASE j = 1
        BY <1>1, <4>1
      <4>2. CASE j # 1
        <5>1. j - 1 \in DOMAIN wire' /\ wire'[j - 1] = wire[j]
          BY <1>1, <4>2
        <5>2. j - 1 <= i
          BY <2>1, <3>1, <5>1
        <5> QED BY <1>1, <5>2
      <4> QED BY <4>1, <4>2
    <3>2. PICK k : k = i + 1
      OBVIOUS
    <3>3. k \in DOMAIN wire /\ wire'[i] = wire[k]
      BY <1>1, <3>2
    <3> QED BY <2>1, <3>1, <3>2, <3>3 DEF WillBeRight, DecisionWillBe
  <2>2. ASSUME ~OnWire(p, "decision")' PROVE rows'[p].decision = decision[p]
    <3>1. CASE e.id = p /\ e.type = "decision"
      <4>1. ~OnWire(p, "proposal")
        BY <1>6, <1>8, <3>1
      <4>2. rows[p].shown
        BY <1>2, <3>1, <4>1, IdForm DEF EventOK, WillBeRight, ShownWillBe
      <4>3. ASSUME NEW j \in DOMAIN wire, wire[j].id = p, wire[j].type = "decision" PROVE j <= 1
        <5>1. CASE j # 1
          BY <1>1, <2>2, <3>1, <4>3, <5>1 DEF OnWire
        <5> QED BY <5>1
      <4>4. e.value = decision[p]
        BY <1>1, <1>2, <3>1, <4>3 DEF WillBeRight, DecisionWillBe
      <4> QED BY <1>2, <1>3, <3>1, <4>2, <4>4, ReducedFields
    <3>2. CASE e.id = p /\ e.type # "decision"
      <4>1. ~OnWire(p, "decision")
        BY <1>6, <2>2, <3>2
      <4> QED BY <1>2, <1>3, <3>2, <4>1, ReducedFields DEF WillBeRight, DecisionWillBe
    <3>3. CASE e.id # p
      <4>1. ~OnWire(p, "decision")
        BY <1>6, <2>2, <3>3
      <4> QED BY <1>2, <1>3, <3>3, <4>1, ReducedRow DEF WillBeRight, DecisionWillBe
    <3> QED BY <3>1, <3>2, <3>3
  <2> QED BY <1>3, <2>1, <2>2 DEF DecisionWillBe
<1>10. CASE e.id # p
  <2>1. \A type : OnWire(p, type)' <=> OnWire(p, type)
    BY <1>5, <1>6, <1>10
  <2>2. rows'[p] = rows[p]
    BY <1>2, <1>3, <1>10, ReducedRow
  <2>3. ShownWillBe(p)' /\ ResultWillBe(p)' /\ GateWillBe(p)'
    BY <1>3, <1>4, <2>1, <2>2 DEF WillBeRight, ShownWillBe, ResultWillBe, GateWillBe
  <2> QED BY <1>7, <1>9, <2>3 DEF WillBeRight
<1>11. CASE e.id = p
  <2>1. p \in proposed /\ (e.type = "execution" => p \in executed)
    BY <1>2, <1>11, IdForm DEF EventOK
  <2>2. e.type # "proposal" => rows[p].shown
    BY <1>6, <1>8, <1>11, <2>1 DEF WillBeRight, ShownWillBe
  <2>3. ShownWillBe(p)'
    BY <1>2, <1>3, <1>4, <1>8, <1>11, <2>1, <2>2, ReducedFields DEF ShownWillBe
  <2>4. ResultWillBe(p)'
    <3>1. CASE e.type = "execution"
      BY <1>2, <1>3, <1>8, <1>11, <2>1, <2>2, <3>1, ReducedFields DEF ResultWillBe
    <3>2. CASE e.type # "execution"
      <4>1. OnWire(p, "execution")' <=> OnWire(p, "execution")
        BY <1>5, <1>6, <3>2
      <4> QED BY <1>2, <1>3, <1>11, <3>2, <4>1, ReducedFields DEF WillBeRight, ResultWillBe
    <3> QED BY <3>1, <3>2
  <2>5. GateWillBe(p)'
    <3>1. CASE e.type = "execution"
      BY <1>3, <1>8, <1>11, <2>1, <3>1 DEF GateWillBe
    <3>2. CASE e.type = "approval:required"
      BY <1>2, <1>3, <1>11, <3>2, ReducedFields DEF GateWillBe
    <3>3. CASE e.type \notin {"execution", "approval:required"}
      <4>1. /\ OnWire(p, "execution")' <=> OnWire(p, "execution")
            /\ OnWire(p, "approval:required")' <=> OnWire(p, "approval:required")
        BY <1>5, <1>6, <3>3
      <4>2. rows[p].approvalId => rows'[p].approvalId
        BY <1>2, <1>3, <1>11, <3>3, ReducedFields
      <4> QED BY <1>3, <1>4, <4>1, <4>2 DEF WillBeRight, GateWillBe
    <3> QED BY <3>1, <3>2, <3>3
  <2> QED BY <1>7, <1>9, <2>3, <2>4, <2>5 DEF WillBeRight
<1> QED BY <1>10, <1>11

LEMMA RightStep ==
  ASSUME ConsoleInv, [ConsoleNext]_consoleVars, NEW p \in Ids, Followed(p)'
  PROVE  WillBeRight(p)'
<1> USE DEF ConsoleInv
<1>0. /\ turn \in [Turns -> TurnState] /\ p[1] \in Turns /\ RowOK(p) /\ CallOK(p) /\ Grows
      /\ \A t \in Turns : TurnOK(t) /\ turn[t] \in TurnState /\ turn[t].conv \in Nat
      /\ conv \in Nat \ {0} /\ verdict \in [Ids -> Verdicts \cup {None}]
      /\ None \notin Verdicts
  BY GrowsStep, IdForm DEF ConsoleTypes, TurnState, Statuses
<1>1. ASSUME NEW t \in Turns, TurnStep(t) PROVE WillBeRight(p)'
  BY <1>1, TurnRight
<1>2. ASSUME Followed(p), Same(p), wire' = wire PROVE WillBeRight(p)'
  BY <1>2, RightOnTheSameWire
<1>3. ASSUME turn'[p[1]].conv = turn[p[1]].conv, turn'[p[1]].step = turn[p[1]].step,
             UNCHANGED <<conv, missed, decision, executed, rows, wire>>,
             p \in held' <=> p \in held
      PROVE  WillBeRight(p)'
  <2>1. p \in proposed' <=> p \in proposed
    BY <1>3 DEF proposed
  <2> QED BY <1>2, <1>3, <2>1 DEF Followed, Same
<1>4. ASSUME NEW t \in Turns, Send(t) PROVE WillBeRight(p)'
  <2>1. turn' = [turn EXCEPT ![t] = [turn[t] EXCEPT !.pc = "posted", !.conv = conv]]
    BY <1>0, <1>4 DEF Send
  <2>2. turn'[t].step = turn[t].step /\ turn[t].pc = "unsent"
    BY <1>0, <1>4, <2>1 DEF TurnState, Send
  <2>3. held' = held
    BY <1>4 DEF Send, held
  <2>4. CASE p[1] # t
    BY <1>0, <1>3, <1>4, <2>1, <2>3, <2>4 DEF Send
  <2>5. CASE p[1] = t
    <3>1. turn[t].conv = 0 /\ turn[t].step = 0
      BY <1>0, <2>2 DEF TurnOK
    <3>2. p \notin proposed /\ p \notin proposed'
      BY <2>2, <2>5, <3>1, IdForm DEF proposed
    <3>3. rows[p] = NoRow
      BY <1>0, <2>5, <3>1 DEF RowOK
    <3>4. /\ \A i \in DOMAIN wire : wire[i].id # p
          /\ \A type : ~OnWire(p, type)
          /\ decision[p] = None /\ p \notin executed /\ p \notin held
      BY <3>2, Unproposed
    <3>5. WillBeRight(p)
      BY <3>2, <3>3, <3>4 DEF WillBeRight, InOrder, ShownWillBe, ResultWillBe, DecisionWillBe,
                              GateWillBe, NoRow
    <3>6. Same(p) /\ wire' = wire
      BY <1>4, <2>3, <3>2 DEF Same, Send
    <3> QED BY <3>5, <3>6, RightOnTheSameWire
  <2> QED BY <2>4, <2>5
<1>5. CASE SendReturns
  <2>1. PICK s \in Turns : s = sending
    BY <1>5 DEF SendReturns, ConsoleTypes
  <2>2. turn' = turn \/ moves(s, "ended")
    BY <1>5, <2>1 DEF SendReturns, moves
  <2>3. \A u \in Turns : turn'[u].step = turn[u].step /\ turn'[u].conv = turn[u].conv
    BY <2>2, MovesTyped
  <2> QED BY <1>0, <1>3, <1>5, <2>3 DEF SendReturns, held
<1>6. CASE NewSession
  <2>1. turn'[p[1]].conv # conv'
    BY <1>0, <1>6 DEF NewSession, serverVars, TurnOK
  <2> QED BY <2>1 DEF Followed
<1>7. CASE Receive
  BY <1>7, RightWhenReceived DEF Receive, Followed, serverVars
<1>8. CASE Disconnect \/ Restart
  <2>1. /\ wire' = <<>> /\ missed' = missed \cup underWay
        /\ UNCHANGED <<conv, decision, executed, verdict, rows>>
    BY <1>8 DEF Disconnect, Restart, serverVars, tab
  <2>2. turn'[p[1]].step = turn[p[1]].step /\ turn'[p[1]].conv = turn[p[1]].conv
    <3>1. CASE Disconnect
      BY <3>1 DEF Disconnect, serverVars
    <3>2. CASE Restart
      <4>1. turn'[p[1]] = IF turn[p[1]].pc \in Active THEN [turn[p[1]] EXCEPT !.pc = "ended"]
                          ELSE turn[p[1]]
        BY <1>0, <3>2 DEF Restart
      <4>2. /\ [turn[p[1]] EXCEPT !.pc = "ended"].step = turn[p[1]].step
            /\ [turn[p[1]] EXCEPT !.pc = "ended"].conv = turn[p[1]].conv
        BY <1>0 DEF TurnState
      <4> QED BY <4>1, <4>2
    <3> QED BY <1>8, <3>1, <3>2
  <2>3. WillBeRight(p)
    BY <2>1, <2>2 DEF Followed
  <2>4. \A i \in DOMAIN wire : wire[i].id # p
    <3>1. p[1] \notin underWay
      BY <2>1 DEF Followed
    <3> QED BY <3>1, IdForm DEF underWay, EventOK
  <2>5. /\ DOMAIN wire' = {} /\ Same(p)
        /\ \A type : ~OnWire(p, type)' /\ ~OnWire(p, type)
    <3>1. DOMAIN wire' = {}
      BY <2>1
    <3>2. p \in proposed' <=> p \in proposed
      BY <2>2 DEF proposed
    <3>3. held' = held
      BY <2>1 DEF held
    <3> QED BY <2>1, <2>4, <3>1, <3>2, <3>3 DEF Same, OnWire
  <2> QED BY <2>3, <2>5 DEF WillBeRight, Same, InOrder, ShownWillBe, ResultWillBe,
                            DecisionWillBe, GateWillBe
<1>9. ASSUME NEW q \in Ids, NEW v \in Verdicts,
             Fallback(q, v) \/ respond(q, v) \/ resolve(q, v) \/ GiveUp(q, v)
      PROVE  WillBeRight(p)'
  <2>1. /\ UNCHANGED <<turn, conv, missed, decision, executed, rows, wire>>
        /\ \/ verdict' = verdict
           \/ q \in pending /\ verdict' = [verdict EXCEPT ![q] = v]
    BY <1>9 DEF Fallback, unpark, respond, resolve, GiveUp, serverVars, tab
  <2>2. q \in pending => decision[q] = "PENDING_APPROVAL"
    BY <1>0, IdForm DEF CallOK, TurnOK
  <2>3. p \in held' <=> p \in held
    BY <1>0, <2>1, <2>2 DEF held
  <2> QED BY <1>3, <2>1, <2>3
<1>10. CASE Join \/ UNCHANGED untimed
  <2>1. UNCHANGED <<turn, conv, missed, decision, executed, verdict, rows, wire>>
    BY <1>10 DEF Join, untimed, serverVars, tab
  <2> QED BY <1>3, <2>1 DEF held
<1> QED BY <1>1, <1>4, <1>5, <1>6, <1>7, <1>8, <1>9, <1>10, Untimed DEF ConsoleNext

-----------------------------------------------------------------------------
(* A console left running has a reason                                     *)

\* A reason stays one as long as the tab is in the conversation.
LEMMA ReasonStays ==
  ASSUME ConsoleInv, [ConsoleNext]_consoleVars, conv' = conv, NEW u \in Turns, Explained(u),
         turn'[u].pc \in Active \cup {"posted"} \/ u \in missed' \cup broken'
  PROVE  Explained(u)'
<1>1. turn'[u].conv = conv
  BY GrowsStep DEF Explained, Grows, ConsoleInv, ConsoleTypes
<1> QED BY <1>1 DEF Explained

LEMMA TurnRunning ==
  ASSUME ConsoleInv, NEW t \in Turns, TurnStep(t), WillRun'
  PROVE  \E u \in Turns : Explained(u)'
<1> USE DEF ConsoleInv
<1>0. /\ OnlyOf(t) /\ conv' = conv /\ running' = running /\ conv \in Nat \ {0}
      /\ missed \subseteq missed' /\ broken \subseteq broken'
      /\ wire \in Seq(Event) /\ Len(wire) \in Nat /\ DOMAIN wire = 1 .. Len(wire)
  BY TurnStaysOff, WireTyped
     DEF OnlyOf, TurnStep, Start, Propose, Decide, Resume, Execute, End, Throw, tab, emit,
         ConsoleTypes
<1>1. None \in Ids \cup {None} /\ None \in Statuses \cup {None} /\ Statuses \subseteq Statuses \cup {None}
  OBVIOUS
<1>2. ASSUME turn'[t].pc \in Active \/ t \in missed' \cup broken',
             turn[t].conv = conv \/ WillRun
      PROVE  \E u \in Turns : Explained(u)'
  <2>1. CASE turn[t].conv = conv
    BY <1>0, <1>2, <2>1 DEF Explained, OnlyOf
  <2>2. CASE WillRun
    <3>1. PICK u \in Turns : Explained(u)
      BY <2>2
    <3>2. turn'[u].pc \in Active \cup {"posted"} \/ u \in missed' \cup broken'
      BY <1>0, <1>2, <3>1 DEF Explained, OnlyOf
    <3> QED BY <1>0, <3>1, <3>2, ReasonStays DEF ConsoleNext
  <2> QED BY <1>2, <2>1, <2>2
<1>3. CASE wire' = wire
  <2>1. WillRun
    BY <1>0, <1>3 DEF WillRun
  <2>2. CASE turn'[t].pc \in Active \/ t \in missed' \cup broken'
    BY <1>2, <2>1, <2>2
  <2>3. CASE turn'[t].pc \notin Active /\ t \notin missed' \cup broken'
    <3>1. End(t)
      <4>1. ~Throw(t)
        BY <2>3 DEF Throw
      <4>2. ASSUME Start(t) \/ Propose(t) \/ Execute(t) \/ Resume(t) \/
                   \E status \in Statuses : Decide(t, status)
            PROVE  turn'[t].pc \in Active
        <5>1. CASE Propose(t)
          <6>1. turn' = [turn EXCEPT ![t] = [turn[t] EXCEPT !.pc = "proposed", !.step = turn[t].step + 1]]
            BY <5>1 DEF Propose, ConsoleTypes
          <6> QED BY <6>1 DEF ConsoleTypes, TurnState, Active
        <5>2. CASE Start(t) \/ Execute(t) \/ Resume(t) \/ \E status \in Statuses : Decide(t, status)
          <6>1. \E pc \in Active : moves(t, pc)
            BY <5>2 DEF Start, Execute, Resume, Decide, Active
          <6> QED BY <6>1, MovesTyped
        <5> QED BY <4>2, <5>1, <5>2
      <4> QED BY <2>3, <4>1, <4>2 DEF TurnStep
    <3>2. PICK e, f : emit(t, <<e, f>>)
      BY <3>1 DEF End
    <3>3. CASE wire' = wire \o <<e, f>>
      <4>1. Len(wire \o <<e, f>>) = Len(wire) + 2
        BY <1>0
      <4> QED BY <1>0, <1>3, <3>3, <4>1
    <3> QED BY <2>3, <3>2, <3>3 DEF emit
  <2> QED BY <2>2, <2>3
\* Delivered, an event that is no switch leaves things as they were; a start is its own
\* reason, and after an end the console is not left running.
<1>4. ASSUME wire' # wire, End(t) PROVE FALSE
  <2>1. PICK last \in {"assistant:text", "error"} :
          emit(t, <<event(last, t, None, None), event("turn:end", t, None, None)>>)
    BY <1>4 DEF End
  <2>2. PICK e \in Event : e = event(last, t, None, None)
    BY <1>1, EventTyped
  <2>3. PICK f \in Event : f = event("turn:end", t, None, None) /\ f.type = "turn:end"
    BY <1>1, EventTyped
  <2>4. wire' = wire \o <<e, f>> /\ <<e, f>> \in Seq(Event) /\ DOMAIN <<e, f>> = {1, 2}
    BY <1>4, <2>1, <2>2, <2>3 DEF emit
  <2>5. Len(wire) + 2 \in DOMAIN wire' /\ wire'[Len(wire) + 2] = f
    BY <1>0, <2>4, Appended
  <2>6. DOMAIN wire' = 1 .. (Len(wire) + 2)
    BY <1>0, <2>4, Appended
  <2>7. \A i \in DOMAIN wire' : i <= Len(wire) + 2 /\ i \in Nat
    BY <1>0, <2>6
  <2>8. f.type \in Switch /\ f.type # "turn:start"
    BY <2>3 DEF Switch
  <2>9. ASSUME NEW i \in DOMAIN wire', wire'[i].type = "turn:start",
               \A j \in DOMAIN wire' : wire'[j].type \in Switch => j <= i
        PROVE  FALSE
    <3>1. Len(wire) + 2 <= i
      BY <2>5, <2>8, <2>9
    <3>2. i = Len(wire) + 2
      BY <1>0, <2>7, <3>1
    <3> QED BY <2>5, <2>8, <2>9, <3>2
  <2> QED BY <2>5, <2>8, <2>9 DEF WillRun
<1>5. ASSUME ~End(t), ~Throw(t) PROVE turn'[t].pc \in Active
  <2>1. CASE Propose(t)
    <3>1. turn' = [turn EXCEPT ![t] = [turn[t] EXCEPT !.pc = "proposed", !.step = turn[t].step + 1]]
      BY <2>1 DEF Propose, ConsoleTypes
    <3> QED BY <3>1 DEF ConsoleTypes, TurnState, Active
  <2>2. CASE Start(t) \/ Execute(t) \/ Resume(t) \/ \E status \in Statuses : Decide(t, status)
    <3>1. \E pc \in Active : moves(t, pc)
      BY <2>2 DEF Start, Execute, Resume, Decide, Active
    <3> QED BY <3>1, MovesTyped
  <2> QED BY <1>5, <2>1, <2>2 DEF TurnStep
<1>6. CASE wire' # wire
  <2>1. ~End(t) /\ ~Throw(t)
    BY <1>4, <1>6 DEF Throw
  <2>2. turn[t].conv = conv
    BY <1>6, <2>1 DEF TurnStep, Start, Propose, Decide, Resume, Execute, emit
  <2> QED BY <1>2, <1>5, <2>1, <2>2
<1> QED BY <1>3, <1>6

LEMMA RunningStep ==
  ASSUME ConsoleInv, [ConsoleNext]_consoleVars, WillRun'
  PROVE  \E u \in Turns : Explained(u)'
<1> USE DEF ConsoleInv
<1>0. /\ turn \in [Turns -> TurnState] /\ conv \in Nat \ {0} /\ running \in BOOLEAN
      /\ \A t \in Turns : TurnOK(t) /\ turn[t] \in TurnState /\ turn[t].conv \in Nat
  BY DEF ConsoleTypes, TurnState
<1>1. ASSUME NEW t \in Turns, TurnStep(t) PROVE \E u \in Turns : Explained(u)'
  BY <1>1, TurnRunning
<1>2. ASSUME WillRun, conv' = conv,
             \A u \in Turns : /\ turn[u].pc \in Active \cup {"posted"} =>
                                   turn'[u].pc \in Active \cup {"posted"} \/ u \in broken'
                              /\ u \in missed \cup broken => u \in missed' \cup broken'
      PROVE  \E u \in Turns : Explained(u)'
  <2>1. PICK u \in Turns : Explained(u)
    BY <1>2
  <2> QED BY <1>2, <2>1, ReasonStays DEF Explained
<1>3. ASSUME NEW t \in Turns, Send(t) PROVE \E u \in Turns : Explained(u)'
  <2>1. turn' = [turn EXCEPT ![t] = [turn[t] EXCEPT !.pc = "posted", !.conv = conv]]
    BY <1>0, <1>3 DEF Send
  <2>2. turn'[t].pc = "posted" /\ turn'[t].conv = conv /\ conv' = conv
    BY <1>0, <1>3, <2>1 DEF TurnState, Send
  <2> QED BY <2>2 DEF Explained
<1>4. CASE SendReturns
  <2>1. PICK s \in Turns : s = sending
    BY <1>4 DEF SendReturns, ConsoleTypes
  <2>2. turn' = turn \/ (moves(s, "ended") /\ s \in broken')
    BY <1>4, <2>1 DEF SendReturns, moves
  <2>3. \A u \in Turns : turn'[u] = turn[u] \/ u \in broken'
    BY <2>2, MovesTyped
  <2>4. WillRun /\ conv' = conv /\ missed' = missed /\ broken \subseteq broken'
    BY <1>4 DEF SendReturns, WillRun
  <2> QED BY <1>2, <2>3, <2>4
<1>5. CASE NewSession
  <2>1. running' = FALSE /\ wire' = <<>>
    BY <1>5 DEF NewSession
  <2>2. DOMAIN wire' = {} /\ ~running'
    BY <2>1
  <2> QED BY <2>2 DEF WillRun
<1>6. CASE Receive
  <2>1. /\ 1 \in DOMAIN wire /\ Head(wire) = wire[1]
        /\ \A i \in DOMAIN wire' : i + 1 \in DOMAIN wire /\ wire'[i] = wire[i + 1]
        /\ \A i \in DOMAIN wire : i # 1 => i - 1 \in DOMAIN wire' /\ wire'[i - 1] = wire[i]
        /\ \A i \in DOMAIN wire' : i \in Nat \ {0}
        /\ \A i \in DOMAIN wire : i \in Nat \ {0}
    BY <1>6, Taken, WireTyped DEF Receive
  <2>2. WillRun
    <3>1. CASE running' /\ \A i \in DOMAIN wire' : wire'[i].type \notin Switch
      <4>1. \A i \in DOMAIN wire : i # 1 => wire[i].type \notin Switch
        BY <2>1, <3>1
      <4>2. CASE wire[1].type = "turn:start"
        <5>1. \A j \in DOMAIN wire : wire[j].type \in Switch => j <= 1
          BY <4>1
        <5> QED BY <2>1, <4>2, <5>1 DEF WillRun
      <4>3. CASE wire[1].type # "turn:start"
        <5>1. wire[1].type \notin {"turn:end", "error"} /\ running
          BY <1>6, <2>1, <3>1, <4>3 DEF Receive
        <5> QED BY <4>1, <4>3, <5>1 DEF WillRun, Switch
      <4> QED BY <4>2, <4>3
    <3>2. CASE \E i \in DOMAIN wire' : /\ wire'[i].type = "turn:start"
                                       /\ \A j \in DOMAIN wire' : wire'[j].type \in Switch => j <= i
      <4>1. PICK i \in DOMAIN wire' : /\ wire'[i].type = "turn:start"
                                      /\ \A j \in DOMAIN wire' : wire'[j].type \in Switch => j <= i
        BY <3>2
      <4>2. PICK k : k = i + 1
        OBVIOUS
      <4>3. k \in DOMAIN wire /\ wire[k].type = "turn:start" /\ i \in Nat
        BY <2>1, <4>1, <4>2
      <4>4. ASSUME NEW j \in DOMAIN wire, wire[j].type \in Switch PROVE j <= k
        <5>1. CASE j = 1
          BY <4>2, <4>3, <5>1
        <5>2. CASE j # 1
          <6>1. j - 1 \in DOMAIN wire' /\ wire'[j - 1] = wire[j] /\ j \in Nat
            BY <2>1, <5>2
          <6>2. j - 1 <= i
            BY <4>1, <4>4, <6>1
          <6> QED BY <4>2, <4>3, <6>1, <6>2
        <5> QED BY <5>1, <5>2
      <4> QED BY <4>3, <4>4 DEF WillRun
    <3> QED BY <3>1, <3>2 DEF WillRun
  <2>3. UNCHANGED <<turn, conv, missed, broken>>
    BY <1>6 DEF Receive, serverVars
  <2> QED BY <1>2, <2>2, <2>3
<1>7. CASE Disconnect \/ Restart
  <2>1. /\ wire' = <<>> /\ missed' = missed \cup underWay /\ broken \subseteq broken'
        /\ conv' = conv /\ running' = running
    BY <1>7 DEF Disconnect, Restart, tab
  <2>2. \A u \in Turns : turn'[u] = turn[u] \/ u \in broken'
    BY <1>0, <1>7 DEF Disconnect, Restart, serverVars
  <2>3. running /\ DOMAIN wire' = {}
    BY <2>1 DEF WillRun
  <2>4. CASE \A i \in DOMAIN wire : wire[i].type \notin Switch
    <3>1. WillRun
      BY <2>3, <2>4 DEF WillRun
    <3> QED BY <1>2, <2>1, <2>2, <3>1
  <2>5. ASSUME NEW i \in DOMAIN wire PROVE \E u \in Turns : Explained(u)'
    <3>1. PICK u \in Turns : u = wire[i].turn
      BY WireTyped
    <3>2. u \in missed' /\ turn[u].conv = conv
      BY <2>1, <3>1 DEF underWay, EventOK
    <3>3. turn'[u].conv = conv'
      BY <1>0, <2>1, <3>2, GrowsStep DEF Grows
    <3> QED BY <3>2, <3>3 DEF Explained
  <2> QED BY <2>4, <2>5
<1>8. ASSUME UNCHANGED <<turn, conv, missed, broken, running, wire>>
      PROVE  \E u \in Turns : Explained(u)'
  <2>1. WillRun
    BY <1>8 DEF WillRun
  <2> QED BY <1>2, <1>8, <2>1
<1>9. ASSUME NEW q \in Ids, NEW v \in Verdicts,
             Fallback(q, v) \/ respond(q, v) \/ resolve(q, v) \/ GiveUp(q, v)
      PROVE  \E u \in Turns : Explained(u)'
  BY <1>8, <1>9 DEF Fallback, unpark, respond, resolve, GiveUp, serverVars, tab
<1>10. CASE Join \/ UNCHANGED untimed
  BY <1>8, <1>10 DEF Join, untimed, serverVars, tab
<1> QED BY <1>1, <1>3, <1>4, <1>5, <1>6, <1>7, <1>9, <1>10, Untimed DEF ConsoleNext

-----------------------------------------------------------------------------
(* The invariant and what follows from it                                  *)

LEMMA ConsoleInitially == ConsoleInit => ConsoleInv
<1> SUFFICES ASSUME ConsoleInit PROVE ConsoleInv
  OBVIOUS
<1> USE DEF ConsoleInit
<1>1. ConsoleTypes
  <2>1. NoRow \in Row /\ [pc |-> "unsent", step |-> 0, conv |-> 0] \in TurnState
    BY ConsoleAssumption DEF NoRow, Row, TurnState
  <2>2. turn \in [Turns -> TurnState] /\ rows \in [Ids -> Row]
    BY <2>1
  <2>3. /\ decision \in [Ids -> Statuses \cup {None}] /\ verdict \in [Ids -> Verdicts \cup {None}]
        /\ busy \in [Ids -> Verdicts \cup {None}]
    OBVIOUS
  <2>4. running \in BOOLEAN /\ joined \in BOOLEAN
    OBVIOUS
  <2>5. /\ executed \subseteq Ids /\ pending \subseteq Ids /\ conv \in Nat \ {0}
        /\ wire \in Seq(Event) /\ sending \in Turns \cup {None}
        /\ missed \subseteq Turns /\ broken \subseteq Turns
    OBVIOUS
  <2> QED BY <2>2, <2>3, <2>4, <2>5 DEF ConsoleTypes
<1>2. /\ \A t \in Turns : turn[t].pc = "unsent" /\ turn[t].step = 0 /\ turn[t].conv = 0
      /\ DOMAIN wire = {}
  OBVIOUS
<1>3. ASSUME NEW t \in Turns PROVE TurnOK(t)
  BY <1>2 DEF TurnOK
<1>4. ASSUME NEW p \in Ids PROVE CallOK(p) /\ RowOK(p)
  BY DEF CallOK, RowOK, NoRow
<1>5. ASSUME NEW p \in Ids PROVE ~Followed(p)
  BY <1>2, IdForm DEF Followed
<1>6. ~WillRun
  BY <1>2 DEF WillRun
<1> QED BY <1>1, <1>2, <1>3, <1>4, <1>5, <1>6 DEF ConsoleInv

LEMMA ConsoleInductive == ConsoleSpec => []ConsoleInv
<1>1. ASSUME ConsoleInv, [ConsoleNext]_consoleVars
      PROVE  ConsoleInv'
  BY <1>1, TypesStep, TurnsStep, RowsStep, EventsStep, RightStep, RunningStep DEF ConsoleInv
<1> QED BY ConsoleInitially, <1>1, PTL DEF ConsoleSpec

\* The clocks change when a call is parked or leaves the Map, with the gate, and by the second.
LEMMA ClocksStep ==
  ASSUME ConsoleInv, ClocksInv, [ConsoleNext]_consoleVars
  PROVE  ClocksInv'
<1> USE DEF ClocksInv
<1>0. /\ Timeouts \subseteq Nat
      /\ \A p \in Ids : /\ ClockOK(p)
                        /\ timeout[p] \in Nat /\ waited[p] \in Nat /\ elapsed[p] \in Nat
  BY ConsoleAssumption
<1>1. ASSUME UNCHANGED <<rows, pending, clocks>> PROVE ClocksInv'
  BY <1>1 DEF clocks, ClockOK
<1>2. ASSUME NEW t \in Turns, NEW status \in Statuses, Decide(t, status) PROVE ClocksInv'
  <2>1. CASE status # "PENDING_APPROVAL"
    BY <1>1, <1>2, <2>1 DEF Decide, clocks, tab
  <2>2. CASE status = "PENDING_APPROVAL"
    <3>1. PICK p : p = current(t)
      OBVIOUS
    <3>2. p \in Ids /\ ~rows[p].approvalId
      <4>1. p \in Ids /\ decision[p] = None /\ verdict[p] = None
        BY <1>2, <3>1 DEF Decide, ConsoleInv, TurnOK
      <4>2. p \notin held /\ RowOK(p)
        BY <4>1, ConsoleAssumption DEF ConsoleInv, held, Statuses
      <4> QED BY <4>1, <4>2 DEF RowOK, ConsoleInv, ConsoleTypes, Row
    <3>3. elapsed[p] = 0
      BY <1>0, <3>2 DEF ClockOK, gateOpen
    <3>4. PICK seconds \in Timeouts : timeout' = [timeout EXCEPT ![p] = seconds]
      BY <1>2, <2>2, <3>1 DEF Decide
    <3>5. pending' = pending \cup {p} /\ UNCHANGED <<rows, waited, timeoutFor, elapsed>>
      BY <1>2, <2>2, <3>1 DEF Decide, tab
    <3>6. p \notin pending
      BY <1>2, <3>1, <3>2, IdForm DEF ConsoleInv, CallOK, Decide, current
    <3>7. waited[p] = 0
      BY <1>0, <3>2, <3>6 DEF ClockOK
    <3> QED BY <1>0, <3>2, <3>3, <3>4, <3>5, <3>7 DEF ClockOK
  <2> QED BY <2>1, <2>2
<1>3. ASSUME NEW t \in Turns, TurnStep(t) PROVE ClocksInv'
  <2>1. CASE Start(t) \/ Propose(t) \/ Resume(t) \/ Execute(t) \/ End(t) \/ Throw(t)
    BY <1>1, <2>1 DEF Start, Propose, Resume, Execute, End, Throw, tab
  <2> QED BY <1>2, <1>3, <2>1 DEF TurnStep
<1>4. ASSUME NEW p \in Ids, unpark(p), UNCHANGED <<rows, timeoutFor, elapsed>> PROVE ClocksInv'
  BY <1>0, <1>4 DEF unpark, ClockOK
<1>5. ASSUME NEW p \in Ids, NEW v \in Verdicts,
             Fallback(p, v) \/ respond(p, v) \/ resolve(p, v) \/ GiveUp(p, v)
      PROVE  ClocksInv'
  <2>1. CASE Fallback(p, v)
    BY <1>4, <2>1 DEF Fallback, tab
  <2>2. CASE resolve(p, v)
    BY <1>1, <1>4, <2>2 DEF resolve, clocks
  <2>3. CASE respond(p, v) \/ GiveUp(p, v)
    BY <1>1, <2>3 DEF respond, GiveUp, serverVars, tab
  <2> QED BY <1>5, <2>1, <2>2, <2>3
<1>6. CASE Receive \/ NewSession
  <2>1. UNCHANGED <<pending, timeout, waited, timeoutFor>>
    BY <1>6 DEF Receive, NewSession, serverVars
  <2>2. /\ elapsed' \in [Ids -> Nat]
        /\ \A p \in Ids : /\ elapsed'[p] \in {0, elapsed[p]}
                          /\ gateOpen(rows'[p]) \/ elapsed'[p] = 0
    <3>1. CASE Receive
      BY <1>0, <3>1 DEF Receive
    <3>2. CASE NewSession
      BY <1>0, <3>2 DEF NewSession
    <3> QED BY <1>6, <3>1, <3>2
  <2>3. ASSUME NEW p \in Ids PROVE ClockOK(p)'
    BY <1>0, <2>1, <2>2 DEF ClockOK, gateOpen
  <2> QED BY <2>1, <2>2, <2>3
<1>7. CASE Restart
  BY <1>0, <1>7 DEF Restart, tab, ClockOK
<1>8. CASE LoadRules
  <2>1. timeoutFor' \in [Tools -> Nat \cup {None}]
    BY <1>0, <1>8 DEF LoadRules
  <2> QED BY <1>8, <2>1 DEF LoadRules, ClockOK, serverVars, tab
<1>9. ASSUME NEW p \in Ids, Second(p) PROVE ClocksInv'
  <2>1. UNCHANGED <<rows, pending, timeout, timeoutFor>>
    BY <1>9 DEF Second, serverVars, tab
  <2>2. /\ waited' \in [Ids -> Nat]
        /\ \A q \in Ids : waited'[q] = IF q = p /\ waited[p] < timeout[p] THEN waited[p] + 1
                                       ELSE waited[q]
    BY <1>0, <1>9 DEF Second
  <2>3. /\ elapsed' \in [Ids -> Nat]
        /\ \A q \in Ids : q # p => elapsed'[q] = elapsed[q]
        /\ \/ elapsed'[p] = elapsed[p]
           \/ gateOpen(rows[p]) /\ elapsed'[p] = elapsed[p] + 1
    BY <1>0, <1>9 DEF Second, countsDown
  <2> QED BY <1>0, <2>1, <2>2, <2>3 DEF ClockOK
<1>10. CASE SendReturns \/ Join \/ Disconnect \/ (\E t \in Turns : Send(t)) \/ UNCHANGED consoleVars
  BY <1>1, <1>10 DEF SendReturns, Join, Disconnect, Send, consoleVars, serverVars, tab
<1> QED BY <1>3, <1>5, <1>6, <1>7, <1>8, <1>9, <1>10 DEF ConsoleNext

LEMMA ClocksInductive == ConsoleSpec => []ClocksInv
<1>1. ConsoleInit => ClocksInv
  BY DEF ConsoleInit, ClocksInv, ClockOK
<1>2. ASSUME ConsoleInv, ClocksInv, [ConsoleNext]_consoleVars PROVE ClocksInv'
  BY <1>2, ClocksStep
<1> QED BY ConsoleInductive, <1>1, <1>2, PTL DEF ConsoleSpec

\* What the invariant says of a turn the tab is up to date on.
LEMMA CaughtUp ==
  ASSUME ConsoleInv, NEW p \in Ids, caughtUp(p[1])
  PROVE  /\ WillBeRight(p) /\ \A type : ~OnWire(p, type)
         /\ CallOK(p) /\ RowOK(p) /\ TurnOK(p[1])
<1>1. Followed(p)
  BY DEF caughtUp, Followed
<1>2. \A i \in DOMAIN wire : wire[i].id # p
  BY IdForm DEF ConsoleInv, EventOK, caughtUp, underWay
<1> QED BY <1>1, <1>2, IdForm DEF ConsoleInv, OnWire

\* A tab that missed nothing of a turn shows what the server decided of its calls and what
\* came of them (use-guardrail-stream.ts, events.ts, orchestrator.ts), however many turns,
\* steps, conversations, broken connections and restarts there are.
THEOREM RowsAreAccurateHolds == ConsoleSpec => []RowsAreAccurate
<1>1. ASSUME ConsoleInv PROVE RowsAreAccurate
  <2>1. ASSUME NEW t \in Turns, caughtUp(t), NEW n \in 1 .. MaxSteps, NEW p \in Ids, p = <<t, n>>
        PROVE  /\ rows[p].shown <=> p \in proposed
               /\ rows[p].decision = decision[p]
               /\ rows[p].result <=> p \in executed
               /\ gateOpen(rows[p]) <=> p \in held \ executed
    <3>1. p[1] = t
      BY <2>1
    <3>2. WillBeRight(p) /\ (\A type : ~OnWire(p, type)) /\ RowOK(p)
      BY <1>1, <2>1, <3>1, CaughtUp
    <3> QED BY <3>2 DEF WillBeRight, ShownWillBe, ResultWillBe, DecisionWillBe, GateWillBe,
                        RowOK, gateOpen
  <2> QED BY <2>1, IdForm DEF RowsAreAccurate
<1> QED BY ConsoleInductive, <1>1, PTL

\* A call that waits for a human has an open gate in such a tab, whose buttons are locked
\* only while an answer is on its way, when the call's own time is up, or when the rules the
\* tab has read give a shorter timeout than the rule which holds the call (proposal-row.tsx,
\* console.tsx, approvals.ts).
THEOREM PendingIsAnswerableHolds == ConsoleSpec => []PendingIsAnswerable
<1>1. ASSUME ConsoleInv, ClocksInv PROVE PendingIsAnswerable
  <2>1. ASSUME NEW p \in pending, caughtUp(p[1])
        PROVE  /\ gateOpen(rows[p]) /\ (busy[p] # None => <<p, busy[p]>> \in posts)
               /\ expired(p) => waited[p] = timeout[p] \/ approvalTimeout(p) < timeout[p]
    <3>1. p \in Ids
      BY <1>1 DEF ConsoleInv, ConsoleTypes
    <3>2. /\ WillBeRight(p) /\ \A type : ~OnWire(p, type)
          /\ CallOK(p) /\ RowOK(p) /\ TurnOK(p[1])
      BY <1>1, <2>1, <3>1, CaughtUp
    <3>3. p \in held /\ p \notin executed
      BY <2>1, <3>1, <3>2 DEF CallOK, TurnOK, held
    <3>4. ASSUME expired(p) PROVE waited[p] = timeout[p] \/ approvalTimeout(p) < timeout[p]
      <4>1. approvalTimeout(p) \in Nat /\ elapsed[p] >= approvalTimeout(p)
        BY <1>1, <3>1, <3>4, ConsoleAssumption DEF ClocksInv, expired, approvalTimeout
      <4>2. /\ timeout[p] \in Nat /\ waited[p] \in Nat /\ elapsed[p] \in Nat
            /\ waited[p] <= timeout[p]
            /\ elapsed[p] <= waited[p] \/ waited[p] = timeout[p]
        BY <1>1, <2>1, <3>1 DEF ClocksInv, ClockOK
      <4> QED BY <4>1, <4>2
    <3> QED BY <2>1, <3>2, <3>3, <3>4 DEF WillBeRight, ResultWillBe, GateWillBe, RowOK, gateOpen
  <2> QED BY <2>1 DEF PendingIsAnswerable
<1> QED BY ConsoleInductive, ClocksInductive, <1>1, PTL

\* The timeline never shows a call of another conversation (use-guardrail-stream.ts).
THEOREM RowsOfThisSessionHolds == ConsoleSpec => []RowsOfThisSession
<1>1. ASSUME ConsoleInv PROVE RowsOfThisSession
  <2>1. ASSUME NEW p \in Ids, turn[p[1]].conv # conv PROVE rows[p].shown = NoRow.shown
    BY <1>1, <2>1 DEF ConsoleInv, RowOK
  <2>2. ~NoRow.shown
    BY DEF NoRow
  <2> QED BY <2>1, <2>2 DEF RowsOfThisSession
<1> QED BY ConsoleInductive, <1>1, PTL

\* When nothing is under way, a console left running has a turn that is, one that broke, or
\* one it missed an event of (console.tsx, use-guardrail-stream.ts).
THEOREM RunningIsExplainedHolds == ConsoleSpec => []RunningIsExplained
<1>1. ASSUME ConsoleInv PROVE RunningIsExplained
  <2>1. ASSUME running, wire = <<>> PROVE \E t \in Turns : Explained(t)
    <3>1. DOMAIN wire = {}
      BY <2>1
    <3> QED BY <1>1, <2>1, <3>1 DEF ConsoleInv, WillRun
  <2> QED BY <2>1 DEF RunningIsExplained, Explained
<1> QED BY ConsoleInductive, <1>1, PTL
=============================================================================
