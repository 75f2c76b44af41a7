----------------------- MODULE MCConversationHistory -----------------------
(***************************************************************************)
(* Instances of ConversationHistory.                                       *)
(***************************************************************************)
EXTENDS ConversationHistory, TLC

Symmetry == Permutations(Turns)
=============================================================================
