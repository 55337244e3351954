--------------------------- MODULE CapsuleCapacity ---------------------------
(* CapsuleJournal under the byte limit of a mutable capsule.  An epoch starts, *)
(* and an attempt starts, only with room reserved for the largest legal rows   *)
(* it may still have to write; a repair is planned only if it fits with room   *)
(* for its own crashes and for a later seal request.                           *)
(*                                                                             *)
(* Event rows are all of one size, any of EventSizes; the largest legal one,   *)
(* for which room is reserved, may be much larger.  A torn fragment is smaller *)
(* than the row it comes from, which fitted.                                   *)
EXTENDS CapsuleJournal, Integers, FiniteSets

CONSTANTS
    Limit,         \* mutable_capsule_bytes
    EventReserve,  \* plan_event_jsonl_row_bytes + 1
    RawReserve,    \* raw_jsonl_row_bytes + 1
    EventSizes,    \* of the event rows that are written
    RawSizes,      \* of the raw rows that are written
    Headrooms      \* room left by what preparation published

ASSUME SizesArePositive == {EventReserve, RawReserve, Limit} \subseteq Nat \ {0}
ASSUME RowsAreLegal == EventSizes \subseteq 1 .. EventReserve /\ RawSizes \subseteq 1 .. RawReserve
ASSUME RawRowsAreLarger == EventReserve <= RawReserve
ASSUME OperationsAreFew == IsFiniteSet(Operations)
ASSUME PreparedFits == Headrooms \subseteq EventReserve .. Limit

VARIABLES
    eventSize, \* one of EventSizes
    base,      \* bytes of the capsule outside its ledgers
    rawBytes,  \* of raw.jsonl
    reserved   \* the epoch's budget

cvars == <<vars, eventSize, base, rawBytes, reserved>>

Bytes == base + eventSize * Len(events) + rawBytes
Larger(m, n) == IF m > n THEN m ELSE n
Smaller(m, n) == IF m < n THEN m ELSE n

(* Start, raw row, finish, marker or completion or interruption, seal request. *)
AttemptNeed == 4 * EventReserve + RawReserve
EpochNeed == AttemptNeed + 2 * EventReserve

(* Variant: an audit row does not count as a stage of its repair.              *)
CrashStagesAllTwo(op) == IF RecoveryPlan(op) = <<>> \/ eventTail THEN 0 ELSE 2

(* A repair may be cut by a partial row and then by the audit of that row; a   *)
(* torn fragment and a recovered last row each stand for one that happened.    *)
CrashStages(op) ==
    IF RecoveryPlan(op) = <<>> THEN 0
    ELSE Larger(0, 2 - (IF eventTail THEN 1 ELSE 0)
                     - (IF events[Len(events)].recovered THEN 1 ELSE 0))

(* Audits count as the largest row, whatever their size.                       *)
PlanFits(op) ==
    LET audits == Len(TailAudits(op))
    IN  Bytes + eventSize * (Len(RecoveryPlan(op)) - audits) + EventReserve * audits
          + EventReserve * CrashStages(op) + EventReserve <= Limit

CInit ==
    /\ Init
    /\ eventSize \in EventSizes
    /\ \E room \in Headrooms : base = Limit - room - eventSize
    /\ rawBytes = 0
    /\ reserved = 0

Keep == UNCHANGED <<base, rawBytes, reserved>>

(* The append consumes its size, or the operation and its budget are gone.     *)
Consume(op, reservation, size) ==
    reserved' = IF pc'[op] \in Returned THEN 0 ELSE reservation - size

AppendAttempt(op) ==
    /\ RecordAttempt(op)
    /\ \E size \in RawSizes :
          /\ rawBytes' = IF raw' = raw THEN rawBytes ELSE rawBytes + size
          /\ Consume(op, reserved, size)
    /\ UNCHANGED base

(* Variant: finishing an item gives back all that was reserved.                *)
ReleaseAll(op) ==
    /\ NextItem(op)
    /\ reserved' = IF pc'[op] = "item" THEN 0 ELSE reserved
    /\ UNCHANGED <<base, rawBytes>>

(* An item is done: room for an interruption and a seal request stays.         *)
Release(op) ==
    /\ NextItem(op)
    /\ reserved' = IF pc'[op] = "item" THEN Smaller(reserved, 2 * EventReserve) ELSE reserved
    /\ UNCHANGED <<base, rawBytes>>

CStep(op) ==
    \/ (AcquireLock(op) \/ RefuseRuntime(op) \/ BeginRepair(op) \/ TruncateEvents(op)
        \/ TruncateRaw(op) \/ AppendRecovered(op) \/ FinishRepair(op) \/ BindProvider(op)
        \/ CallProvider(op) \/ ProviderReturns(op) \/ Backoff(op)) /\ Keep
    \/ PlanRecovery(op) /\ PlanFits(op) /\ Keep
    \/ /\ StartExecution(op) /\ Bytes + EpochNeed <= Limit
       /\ Consume(op, EpochNeed, eventSize) /\ UNCHANGED <<base, rawBytes>>
    \/ /\ StartRequest(op) /\ Bytes + Larger(reserved, AttemptNeed) <= Limit
       /\ Consume(op, Larger(reserved, AttemptNeed), eventSize) /\ UNCHANGED <<base, rawBytes>>
    \/ AppendAttempt(op)
    \/ (FinishRequest(op) \/ MarkStop(op) \/ CompleteGeneration(op) \/ Stop(op) \/ Fail(op))
       /\ Consume(op, reserved, eventSize) /\ UNCHANGED <<base, rawBytes>>
    \/ Release(op)

CNext == (\E op \in Operations : CStep(op)) /\ UNCHANGED eventSize
CSpec == CInit /\ [][CNext]_cvars

-----------------------------------------------------------------------------
(* Properties *)

(* Once an epoch has started, whatever it still has to write of the largest    *)
(* legal size fits its budget and the capsule: consume_exact and the limit     *)
(* check of _append_framed never fail, and every epoch can write how it ended  *)
(* and leave room for a seal request.                                          *)
Owed(place) ==
    CASE place \in {"started", "calling", "answered"} -> 3 * EventReserve + RawReserve
      [] place = "recorded" -> 3 * EventReserve
      [] place \in {"epoch", "item", "finished", "completing"} -> 2 * EventReserve
      [] OTHER -> 0
EpochCanEnd ==
    \A op \in Operations :
        pc[op] \in {"epoch", "item", "started", "calling", "answered", "recorded",
                    "finished", "completing"} =>
            reserved >= Owed(pc[op]) /\ Bytes + reserved <= Limit

(* Whatever died wherever, in an epoch or in a repair, the repair of what it   *)
(* left fits the limit, so that no crash makes a capsule unrecoverable: while  *)
(* event rows are at most a quarter of the reserve for the largest one, and    *)
(* one row of each operation fits that reserve too.                            *)
RepairFits ==
    lock = NoOperation /\ Larger(4, Cardinality(Operations)) * eventSize <= EventReserve =>
        \A op \in Operations : PlanFits(op)
=============================================================================
