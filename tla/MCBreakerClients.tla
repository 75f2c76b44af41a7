-------------------------- MODULE MCBreakerClients --------------------------
(***************************************************************************)
(* Instances of BreakerClients: model values for servers and callers.      *)
(***************************************************************************)
EXTENDS BreakerClients, TLC

CONSTANTS s1, s2, c1, c2, c3

MCServers == {s1, s2}
MCThreeCallers == {c1, c2, c3}
=============================================================================
