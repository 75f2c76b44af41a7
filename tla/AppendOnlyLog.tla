---------------------------- MODULE AppendOnlyLog ----------------------------
(***************************************************************************)
(* What the audit service promises: one log to which events are appended,  *)
(* one at a time and each at most once, and from which nothing ever goes.  *)
(***************************************************************************)
EXTENDS Sequences

CONSTANT Events   \* the events that may be recorded

VARIABLE log      \* the events recorded so far, oldest first

Logged(e) == \E i \in DOMAIN log : log[i] = e

Init == log = <<>>

Record(e) == ~Logged(e) /\ log' = Append(log, e)

Next == \E e \in Events : Record(e)

Spec == Init /\ [][Next]_log
=============================================================================
