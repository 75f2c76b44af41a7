--------------------------- MODULE CircuitBreaker ---------------------------
(***************************************************************************)
(* The state a CircuitBreaker keeps for one server and its three methods   *)
(* (packages/policy-engine/src/circuitBreaker.ts).  No variables: the      *)
(* modules that use a breaker hold one such record per server.             *)
(*                                                                         *)
(* The code stores openedAt and compares Date.now() - openedAt with        *)
(* cooldownMs.  Only that difference matters, so the record holds it:      *)
(* openFor is the time since the breaker opened, counted up to Cooldown.   *)
(* A server without an entry in the Map is a closed one.                   *)
(***************************************************************************)
EXTENDS Integers

CONSTANTS
  Threshold,   \* failureThreshold, 5 by default
  Cooldown,    \* cooldownMs, in units of the modelled clock
  NotOpen      \* openedAt = null

ASSUME ThresholdAssumption == Threshold \in Nat \ {0}
ASSUME CooldownAssumption == Cooldown \in Nat \ {0}
ASSUME NotOpenAssumption == NotOpen \notin Nat

BreakerState == [failureCount : Nat, openFor : 0 .. Cooldown \cup {NotOpen}]

Closed == [failureCount |-> 0, openFor |-> NotOpen]

Cooled(st) == st.openFor # NotOpen /\ st.openFor = Cooldown

\* What isOpen answers, and the state it leaves: once the cooldown is over the
\* first caller to ask closes the breaker.
isOpen(st) == st.openFor # NotOpen /\ st.openFor # Cooldown

\* Mutation of afterIsOpen: the cooldown is over, but the breaker stays open.
staysOpen(st) == st

afterIsOpen(st) == IF Cooled(st) THEN Closed ELSE st

\* Only the failure that reaches the threshold starts the cooldown; the later ones
\* (calls that were already on their way) do not restart it.
recordFailure(st) ==
  LET count == st.failureCount + 1
  IN  [failureCount |-> count,
       openFor |-> IF count >= Threshold /\ st.openFor = NotOpen THEN 0 ELSE st.openFor]

\* Mutation of recordSuccess: the count is kept.
recordSuccessKeepsCount(st) == [st EXCEPT !.openFor = NotOpen]

recordSuccess(st) == Closed

\* The clock: one unit passes.
aged(st) ==
  IF st.openFor # NotOpen /\ st.openFor # Cooldown THEN [st EXCEPT !.openFor = @ + 1] ELSE st
=============================================================================
