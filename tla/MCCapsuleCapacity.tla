-------------------------- MODULE MCCapsuleCapacity --------------------------
(* CapsuleCapacity on small instances.                                         *)
EXTENDS CapsuleCapacity, TLC

(* Operations differ in their identity only; sound for invariants.             *)
OperationsAlike == Permutations(Operations)
=============================================================================
