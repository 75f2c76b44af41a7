---------------------------- MODULE MCAttestation ----------------------------
(***************************************************************************)
(* Instances of Attestation.                                               *)
(***************************************************************************)
EXTENDS Attestation, TLC

Symmetry == Permutations(Badges)
=============================================================================
