------------------------ MODULE MCCapsuleDurability ------------------------
(* CapsuleDurability on a small instance: three operations, so that a repair   *)
(* can itself be killed and repaired again, and a power loss between any two   *)
(* of their steps.                                                             *)
EXTENDS CapsuleDurability, TLC

(* Operations differ in their identity only; sound for invariants.             *)
OperationsAlike == Permutations(Operations)

(* As long as no power is lost, a repair that was planned repairs everything,  *)
(* there is always one to plan, and what is reported complete is complete.     *)
RepairSucceeds ==
    losses = 0 => PlanRepairsAll /\ AlwaysRepairable /\ CompleteReportIsTrue

(* The facts recovery and execution work from are those the acceptor derives.  *)
ReplayAgrees ==
    LET s == H!Replay(events, raw)
    IN  /\ s.ordinal = NextOrdinal(events, raw)
        /\ s.ordinal < PlanLength => s.attempt = NextAttempt(events, raw)
                                     \/ RawlessOpen(events, raw)
                                     \/ s.pending # "none" \/ s.suffix
        /\ H!DeriveLifecycle(s) = Lifecycle(events, raw)
        /\ (H!Requirements(s) # <<>>) = NeedsRepair(events, raw)
        /\ s.open = "rawless" <=> RawlessOpen(events, raw)

(* Whatever was killed wherever, short of a power loss, the committed rows are *)
(* a legal history for both acceptors, so that verify and the next resume      *)
(* accept the capsule, and mean the same by it.                                *)
HistoryAccepted ==
    losses = 0 => H!EventGrammar(events) /\ H!Replay(events, raw).ok /\ ReplayAgrees
=============================================================================
