--------------------------- MODULE MCConsoleStream ---------------------------
(***************************************************************************)
(* Instances of ConsoleStream.                                             *)
(***************************************************************************)
EXTENDS ConsoleStream, TLC

CONSTANTS t1, t2

MCTurns == {t1, t2}
MCTools == {"block_ip"}
MCToolName == [p \in Ids |-> "block_ip"]
MCSymmetry == Permutations(MCTurns)
=============================================================================
