-------------------------- MODULE ApprovalRegistry --------------------------
(***************************************************************************)
(* packages/server/src/approvals.ts: tool calls parked on a human's        *)
(* answer, raced by the timer of their rule, and POST /approvals/:id of    *)
(* app.ts.                                                                 *)
(*                                                                         *)
(* Every park has a fresh approval id (checkApproval's randomUUID).  The   *)
(* answers of the operators travel: they may arrive after the timer, after *)
(* another operator's, or after a restart of the server.  MaxDelay is the  *)
(* largest delay setTimeout accepts; Node runs a timer asked to wait       *)
(* longer, or less than a millisecond, after one millisecond, which is     *)
(* less than a unit of the modelled clock.                                 *)
(***************************************************************************)
EXTENDS Integers

CONSTANTS
  Ids,        \* approval ids
  Operators,  \* the clients that answer, each once per call
  Rules,      \* the configs [approverFallback, timeoutSeconds] a call parks under
  Null,       \* no verdict yet; as a rule: the matched rule was not found
  MaxDelay,   \* the largest delay setTimeout accepts
  MaxWait     \* bound: units of waiting the history counts

ASSUME ApprovalRegistryAssumption ==
  /\ MaxDelay \in Nat \ {0}
  /\ MaxWait \in Nat
  /\ Null \notin {"ALLOW", "DENY"}
  /\ \A r \in Rules \ {Null} : r.timeoutSeconds \in Int

VARIABLES
  state,     \* state[i]: the turn that parks call i: "new", "waiting", "settled", "lost"
  rule,      \* rule[i]: the rule it parked under
  verdict,   \* verdict[i]: what the promise the turn awaits resolved to
  pending,   \* the keys of the registry's Map
  timer,     \* timer[i]: the time left on its timer, Off when there is none
  requests,  \* answers on their way to the server
  accepted,  \* history: the answers replied to with 200, of calls of any boot
  waited     \* history: time since the park

vars == <<state, rule, verdict, pending, timer, requests, accepted, waited>>

Verdicts == {"ALLOW", "DENY"}
Answers == [by : Operators, id : Ids, verdict : Verdicts]
Off == -1

TypeOK ==
  /\ state \in [Ids -> {"new", "waiting", "settled", "lost"}]
  /\ rule \in [Ids -> Rules \cup {Null}]
  /\ verdict \in [Ids -> Verdicts \cup {Null}]
  /\ pending \subseteq Ids
  /\ timer \in [Ids -> Off .. MaxDelay]
  /\ requests \subseteq Answers
  /\ accepted \subseteq Answers
  /\ waited \in [Ids -> 0 .. MaxWait]

Init ==
  /\ state = [i \in Ids |-> "new"]
  /\ rule = [i \in Ids |-> Null]
  /\ verdict = [i \in Ids |-> Null]
  /\ pending = {}
  /\ timer = [i \in Ids |-> Off]
  /\ requests = {}
  /\ accepted = {}
  /\ waited = [i \in Ids |-> 0]

-----------------------------------------------------------------------------
(* waitForApproval                                                         *)

timeoutOf(r) == IF r = Null THEN 60 ELSE r.timeoutSeconds

\* Mutation of fallbackOf: a rule that is gone approves.
fallbackOpen(r) == IF r # Null /\ r.approverFallback = "AUTO_DENY" THEN "DENY" ELSE "ALLOW"

fallbackOf(r) == IF r # Null /\ r.approverFallback = "AUTO_ALLOW" THEN "ALLOW" ELSE "DENY"

\* The delay the timer really has.
delayOf(seconds) == IF seconds \in 1 .. MaxDelay THEN seconds ELSE 0

\* The history counts far enough to see the timers of AUTO_ALLOW rules run out.
ASSUME WaitAssumption ==
  \A r \in Rules \ {Null} :
    r.approverFallback = "AUTO_ALLOW" => delayOf(r.timeoutSeconds) <= MaxWait

\* Mutation of waitForApproval: no timer.
waitWithoutTimer(i, r) ==
  /\ state[i] = "new"
  /\ state' = [state EXCEPT ![i] = "waiting"]
  /\ rule' = [rule EXCEPT ![i] = r]
  /\ pending' = pending \cup {i}
  /\ UNCHANGED <<verdict, timer, requests, accepted, waited>>

waitForApproval(i, r) ==
  /\ state[i] = "new"
  /\ state' = [state EXCEPT ![i] = "waiting"]
  /\ rule' = [rule EXCEPT ![i] = r]
  /\ pending' = pending \cup {i}
  /\ timer' = [timer EXCEPT ![i] = delayOf(timeoutOf(r))]
  /\ UNCHANGED <<verdict, requests, accepted, waited>>

\* A promise keeps the first value it is resolved with.
resolvePromise(i, v) == verdict' = [verdict EXCEPT ![i] = IF @ = Null THEN v ELSE @]

\* Mutation of Fire: the Map keeps the entry.
FireKeepsEntry(i) ==
  /\ timer[i] = 0
  /\ timer' = [timer EXCEPT ![i] = Off]
  /\ resolvePromise(i, fallbackOf(rule[i]))
  /\ UNCHANGED <<state, rule, pending, requests, accepted, waited>>

Fire(i) ==
  /\ timer[i] = 0
  /\ timer' = [timer EXCEPT ![i] = Off]
  /\ pending' = pending \ {i}
  /\ resolvePromise(i, fallbackOf(rule[i]))
  /\ UNCHANGED <<state, rule, requests, accepted, waited>>

-----------------------------------------------------------------------------
(* POST /approvals/:approvalId                                             *)

\* An operator saw the call in the event stream and answers, at any later time.
Answer(o, i, v) ==
  /\ state[i] # "new"
  /\ \A a \in requests \cup accepted : ~(a.by = o /\ a.id = i)
  /\ requests' = requests \cup {[by |-> o, id |-> i, verdict |-> v]}
  /\ UNCHANGED <<state, rule, verdict, pending, timer, accepted, waited>>

\* Mutation of resolve: no clearTimeout.
resolveKeepsTimer(a) ==
  /\ a \in requests
  /\ requests' = requests \ {a}
  /\ IF a.id \in pending
     THEN /\ pending' = pending \ {a.id}
          /\ resolvePromise(a.id, a.verdict)
          /\ accepted' = accepted \cup {a}
     ELSE UNCHANGED <<pending, verdict, accepted>>
  /\ UNCHANGED <<state, rule, timer, waited>>

\* 200 and the verdict when the id is pending, else 404 and no effect.
resolve(a) ==
  /\ a \in requests
  /\ requests' = requests \ {a}
  /\ IF a.id \in pending
     THEN /\ timer' = [timer EXCEPT ![a.id] = Off]
          /\ pending' = pending \ {a.id}
          /\ resolvePromise(a.id, a.verdict)
          /\ accepted' = accepted \cup {a}
     ELSE UNCHANGED <<timer, pending, verdict, accepted>>
  /\ UNCHANGED <<state, rule, waited>>

-----------------------------------------------------------------------------
(* The turn, the clock and the process                                     *)

\* The awaiting turn goes on with the verdict.
Resume(i) ==
  /\ state[i] = "waiting"
  /\ verdict[i] # Null
  /\ state' = [state EXCEPT ![i] = "settled"]
  /\ UNCHANGED <<rule, verdict, pending, timer, requests, accepted, waited>>

\* Timers that are due have run before the clock moves on by a whole unit.
Tick ==
  /\ \A i \in Ids : timer[i] # 0
  /\ timer' = [i \in Ids |-> IF timer[i] > 0 THEN timer[i] - 1 ELSE timer[i]]
  /\ waited' = [i \in Ids |-> IF state[i] = "waiting" /\ waited[i] < MaxWait
                              THEN waited[i] + 1 ELSE waited[i]]
  /\ UNCHANGED <<state, rule, verdict, pending, requests, accepted>>

\* The Map, the timers and the waiting turns are process-local.
Restart ==
  /\ pending' = {}
  /\ timer' = [i \in Ids |-> Off]
  /\ state' = [i \in Ids |-> IF state[i] = "waiting" THEN "lost" ELSE state[i]]
  /\ UNCHANGED <<rule, verdict, requests, accepted, waited>>

Next ==
  \/ Tick
  \/ Restart
  \/ \E i \in Ids : \/ Fire(i) \/ Resume(i)
                    \/ \E r \in Rules : waitForApproval(i, r)
                    \/ \E o \in Operators, v \in Verdicts : Answer(o, i, v)
  \/ \E a \in requests : resolve(a)

Spec == Init /\ [][Next]_vars

\* The clock runs, due timers run, settled promises resume their turn.  Operators
\* need not answer and their requests need not arrive.
FairSpec ==
  /\ Spec
  /\ WF_vars(Tick)
  /\ \A i \in Ids : WF_vars(Fire(i)) /\ WF_vars(Resume(i))

-----------------------------------------------------------------------------
(* Properties                                                              *)

\* An answer the server accepted (200) is the verdict the turn gets: a second
\* operator, a late timer or a restart never overrides it, and no two operators
\* are told 200 for opposite answers.
AcceptedIsTheVerdict ==
  \A a \in accepted : state[a.id] # "lost" => verdict[a.id] = a.verdict

\* A verdict ALLOW comes from an accepted answer or from an AUTO_ALLOW rule after the
\* whole delay of its timer: a refused answer, a race or a restart never approves a call
\* (README.md:105, "never silently approved").
AllowIsJustified ==
  \A i \in Ids : verdict[i] = "ALLOW" =>
    \/ \E a \in accepted : a.id = i /\ a.verdict = "ALLOW"
    \/ /\ rule[i] # Null /\ rule[i].approverFallback = "AUTO_ALLOW"
       /\ waited[i] >= delayOf(timeoutOf(rule[i]))

\* The Map holds exactly the calls whose turn still waits for a verdict, each with
\* its timer running, so a 404 means nobody waits and nothing can wait for good.
PendingIsAwaited ==
  \A i \in Ids : /\ i \in pending <=> state[i] = "waiting" /\ verdict[i] = Null
                 /\ i \in pending <=> timer[i] # Off

\* Every parked call gets a verdict without any human, unless the process goes down.
EveryParkSettles == \A i \in Ids : state[i] = "waiting" ~> state[i] \in {"settled", "lost"}
=============================================================================
