------------------------- MODULE MCCapsuleEvidence -------------------------
(* CapsuleEvidence with one case file and one member of an arm, each of which  *)
(* a protocol binding names as well.                                           *)
EXTENDS CapsuleEvidence

MCOrder == << "cases", "skill", "binding", "pin" >>
MCKind == [cases |-> "case", skill |-> "arm", binding |-> "protocol", pin |-> "protocol"]
MCLocator == [cases |-> "dataset", skill |-> "member", binding |-> "dataset", pin |-> "member"]
=============================================================================
