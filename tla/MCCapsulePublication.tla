------------------------ MODULE MCCapsulePublication ------------------------
(* CapsulePublication on small instances.                                      *)
EXTENDS CapsulePublication, TLC

(* Preparations of one instance are alike, and run ids are only compared; sound *)
(* for invariants and for NeverReplaced, which quantifies over preparations.   *)
Alike == Permutations(Preparers) \cup Permutations(RunIds)
=============================================================================
