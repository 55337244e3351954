-------------------------- MODULE CapsuleDurability --------------------------
(* CapsuleJournal with the difference between a row that is written and a row  *)
(* that is on stable storage.  Reads see every written row; a power loss may   *)
(* take any row after the last fsync of its ledger, and tear the next one.     *)
(* The code fsyncs a ledger after it appends to it or truncates it, and never  *)
(* when it opens it.                                                           *)
EXTENDS CapsuleJournal

CONSTANTS MaxPowerLosses     \* bound on power losses
ASSUME LossesAreNatural == MaxPowerLosses \in Nat

VARIABLES
    eventsSynced, rawSynced,  \* rows known to be on stable storage
    losses                    \* power losses so far

dvars == <<vars, eventsSynced, rawSynced, losses>>

H == INSTANCE CapsuleHistory

DInit ==
    /\ Init
    /\ eventsSynced = 1       \* preparation publishes a synced prepared row
    /\ rawSynced = 0
    /\ losses = 0

(* Variant: only a truncation is synced.                                       *)
SyncedByTruncation(op, rows, newRows, tail, newTail, synced) ==
    IF tail /\ ~newTail THEN {Len(newRows)} ELSE {synced}

(* Rows on stable storage after a step of op on one ledger: all after a        *)
(* successful append or truncation; a failed append may have missed its fsync. *)
Synced(op, rows, newRows, tail, newTail, synced) ==
    IF newRows # rows
    THEN IF pc'[op] = "failed" THEN {synced, Len(newRows)} ELSE {Len(newRows)}
    ELSE IF tail /\ ~newTail THEN {Len(newRows)} ELSE {synced}

(* A session starts only from ledgers the acceptor accepts.                    *)
DStep(op) ==
    /\ Step(op) \/ Fail(op)
    /\ pc[op] = "locked" /\ pc'[op] = "planned" => H!Replay(events, raw).ok
    /\ eventsSynced' \in Synced(op, events, events', eventTail, eventTail', eventsSynced)
    /\ rawSynced' \in Synced(op, raw, raw', rawTail, rawTail', rawSynced)
    /\ UNCHANGED losses

(* Every process is gone; each ledger keeps a prefix that contains its synced  *)
(* rows, and a torn fragment only where something unsynced was.                *)
PowerLoss ==
    /\ losses < MaxPowerLosses
    /\ losses' = losses + 1
    /\ \E n \in eventsSynced .. Len(events), m \in rawSynced .. Len(raw) :
          /\ events' = SubSeq(events, 1, n)
          /\ raw' = SubSeq(raw, 1, m)
          /\ eventTail' \in {FALSE, eventTail \/ n < Len(events)}
          /\ rawTail' \in {FALSE, rawTail \/ m < Len(raw)}
          /\ eventsSynced' = n
          /\ rawSynced' = m
    /\ pc' = [op \in Operations |-> IF pc[op] \in Running THEN "failed" ELSE pc[op]]
    /\ lock' = NoOperation
    /\ mem' = NoMemory
    /\ UNCHANGED calls

DNext == PowerLoss \/ \E op \in Operations : DStep(op)
DSpec == DInit /\ [][DNext]_dvars

-----------------------------------------------------------------------------
(* Properties *)

(* Write-ahead on stable storage: whatever the power loss, every call the      *)
(* provider saw is announced by a start that survived it.                      *)
CallsStayAnnounced ==
    \A n \in 1 .. Len(calls) : \E i \in 1 .. eventsSynced :
        /\ events[i].kind = "request_started" /\ events[i].call = n - 1
        /\ events[i].item = calls[n].item /\ events[i].attempt = calls[n].attempt

(* Power losses never make the provider see an item again whose call may have  *)
(* had an effect: what is left either stops the run or is refused.             *)
NoRepeatAfterPowerLoss ==
    \A i, j \in 1 .. Len(calls) : i < j =>
        /\ calls[i].learnt \in {"refused", "received"}
        /\ calls[i].item = calls[j].item => calls[i].learnt = "refused"

(* What the write-ahead order promises outlives a power loss.                  *)
SafeAfterPowerLoss == CallsStayAnnounced /\ NoRepeatAfterPowerLoss

(* "After the provider returns, the runner appends and fsyncs the raw attempt, *)
(* then appends and fsyncs request_finished" (generation capsule design,       *)
(* section 11): a finish on stable storage has its raw row there.              *)
FinishFollowsDurableRaw ==
    \A i \in 1 .. eventsSynced :
        events[i].kind = "request_finished" => events[i].call < rawSynced
=============================================================================
