--------------------------- MODULE CapsuleJournal ---------------------------
(* The write-ahead journal of a generation capsule: the two append-only        *)
(* ledgers events.jsonl and raw.jsonl, and the resume operations that repair   *)
(* them and then drive the provider through the plan.  A resume is             *)
(*   exclusive lock -> mutator session and recovery plan -> repair -> epoch.   *)
(* Any number of invocations may contend for one capsule and each may die, be  *)
(* interrupted or fail to write at any step; the ledgers are all that stays.   *)
(*                                                                             *)
(* A ledger is the sequence of its newline-terminated rows plus a flag for a   *)
(* torn fragment after them.  Rows keep the fields that recovery and the       *)
(* acceptor read; identifiers derived from those fields are left out.          *)
EXTENDS Naturals, Sequences, AttemptDecision

CONSTANTS
    Operations,          \* resume invocations; one has a fresh operation and session id
    NoOperation,         \* the free lock; also the operation of the prepared event
    PlanLength           \* rows of plan.jsonl, addressed by ordinal from 0

ASSUME NoOperationIsFresh == NoOperation \notin Operations
ASSUME PlanIsNotEmpty == PlanLength \in Nat \ {0}

VARIABLES
    events, eventTail,   \* events.jsonl: rows, and whether a torn fragment follows
    raw, rawTail,        \* raw.jsonl, likewise
    lock,                \* holder of the exclusive kernel lock
    pc,                  \* [Operations -> Places]
    mem,                 \* memory of the lock holder: position, recovery plan, decision
    calls                \* what the provider was asked, and what was learnt of each call

ledgers == <<events, eventTail, raw, rawTail>>
vars == <<events, eventTail, raw, rawTail, lock, pc, mem, calls>>

Ordinals == 0 .. PlanLength - 1
MaxAttempts == MaxTransientRetries + 1

-----------------------------------------------------------------------------
(* Rows *)

Resolved == {"success", "retry_exhausted", "provider_rejected"}
Stops == {"authentication_stopped", "delivery_ambiguous"}

(* The marker event a terminal reason calls for.                               *)
MarkerOf(reason) ==
    CASE reason = "authentication_stopped" -> "authentication_stopped"
      [] reason = "ambiguous_delivery"     -> "delivery_ambiguous"
      [] OTHER                             -> "none"

Event(kind, op, recovered, item, attempt, call) ==
    [kind |-> kind, op |-> op, recovered |-> recovered,
     item |-> item, attempt |-> attempt, call |-> call]

(* Rows without a plan item carry ordinal 0 and attempt 0.                     *)
Prepared == Event("prepared", NoOperation, FALSE, 0, 0, 0)
RequestStarted(op, item, attempt, call) ==
    Event("request_started", op, FALSE, item, attempt, call)
RequestFinished(op, recovered, start) ==
    Event("request_finished", op, recovered, start.item, start.attempt, start.call)
Marker(kind, op, recovered, start) ==
    Event(kind, op, recovered, start.item, start.attempt, 0)
GenerationCompleted(op, recovered) ==
    Event("generation_completed", op, recovered, PlanLength - 1, 0, 0)
RawRow(start, reason) ==
    [call |-> start.call, item |-> start.item, attempt |-> start.attempt,
     reason |-> reason]

-----------------------------------------------------------------------------
(* Facts that validated history derives from the ledgers.  The streaming       *)
(* acceptor itself is module CapsuleHistory; on the ledgers this module        *)
(* reaches the two agree (invariant ReplayAgrees).                             *)

IsLast(ev, kinds, i) ==
    /\ i \in 0 .. Len(ev)
    /\ i > 0 => ev[i].kind \in kinds
    /\ \A j \in i + 1 .. Len(ev) : ev[j].kind \notin kinds

(* Position of the last row whose kind is in kinds, 0 if there is none.        *)
Last(ev, kinds) == CHOOSE i \in 0 .. Len(ev) : IsLast(ev, kinds, i)

LastStart(ev) == Last(ev, {"request_started"})
RequestHistory(ev) == LastStart(ev) # 0
Start(ev) == ev[LastStart(ev)]
Open(ev) == Last(ev, {"request_started", "request_finished"}) = LastStart(ev)
            /\ RequestHistory(ev)
HasRaw(ev, rw) == RequestHistory(ev) /\ Start(ev).call < Len(rw)
RawlessOpen(ev, rw) == Open(ev) /\ ~HasRaw(ev, rw)
Reason(ev, rw) == IF HasRaw(ev, rw) THEN rw[Start(ev).call + 1].reason ELSE "missing"

(* Variant: any raw row moves the position past its item.                      *)
NextOrdinalCountsRetries(ev, rw) ==
    IF ~RequestHistory(ev) THEN 0
    ELSE IF HasRaw(ev, rw) THEN Start(ev).item + 1 ELSE Start(ev).item

NextOrdinal(ev, rw) ==
    IF ~RequestHistory(ev) THEN 0
    ELSE IF Reason(ev, rw) \in Resolved THEN Start(ev).item + 1 ELSE Start(ev).item

(* Variant: a resume starts the item over.                                     *)
NextAttemptForgets(ev, rw) == IF HasRaw(ev, rw) THEN 1 ELSE 1

NextAttempt(ev, rw) ==
    IF ~RequestHistory(ev) \/ Reason(ev, rw) \in Resolved THEN 1
    ELSE IF Reason(ev, rw) = "none" THEN Start(ev).attempt + 1 ELSE Start(ev).attempt

Marked(ev) == Last(ev, Stops) # 0
Completed(ev) == Last(ev, {"generation_completed"}) # 0

(* Rows a repair must add, in causal order: finish, then marker or completion. *)
NeedsFinish(ev, rw) == Open(ev) /\ HasRaw(ev, rw)
NeedsMarker(ev, rw) == MarkerOf(Reason(ev, rw)) # "none" /\ ~Marked(ev)
NeedsCompletion(ev, rw) == NextOrdinal(ev, rw) = PlanLength /\ ~Completed(ev)
NeedsRepair(ev, rw) ==
    NeedsFinish(ev, rw) \/ NeedsMarker(ev, rw) \/ NeedsCompletion(ev, rw)

(* An epoch blocked before its first call leaves the capsule PREPARED.         *)
BlockedBeforeAnyCall(ev) ==
    /\ ~RequestHistory(ev)
    /\ Last(ev, {"execution_blocked"}) # 0
    /\ Last(ev, {"execution_blocked"}) =
       Last(ev, {"execution_started", "execution_blocked"})

Lifecycle(ev, rw) ==
    IF RawlessOpen(ev, rw) \/ Reason(ev, rw) = "ambiguous_delivery"
    THEN "AMBIGUOUS_INFLIGHT"
    ELSE IF Reason(ev, rw) = "authentication_stopped" THEN "AUTHENTICATION_STOPPED"
    ELSE IF NextOrdinal(ev, rw) = PlanLength THEN "GENERATION_COMPLETE"
    ELSE IF BlockedBeforeAnyCall(ev) \/ Last(ev, {"execution_started"}) = 0
    THEN "PREPARED"
    ELSE "INTERRUPTED"

(* Variant: an authentication stop is resumed like an interruption.            *)
DispositionResumesAuth(ev, rw) ==
    CASE Lifecycle(ev, rw) = "AMBIGUOUS_INFLIGHT"     -> "ambiguous"
      [] Lifecycle(ev, rw) = "GENERATION_COMPLETE"    -> "complete"
      [] OTHER                                        -> "provider_ready"

Disposition(ev, rw) ==
    CASE Lifecycle(ev, rw) = "AMBIGUOUS_INFLIGHT"     -> "ambiguous"
      [] Lifecycle(ev, rw) = "AUTHENTICATION_STOPPED" -> "authentication_stopped"
      [] Lifecycle(ev, rw) = "GENERATION_COMPLETE"    -> "complete"
      [] OTHER                                        -> "provider_ready"

-----------------------------------------------------------------------------
(* The recovery plan: tail audits, then the rows history requires.             *)

(* Variant: a raw audit never names the attempt.                               *)
TailAuditsAnonymous(op) ==
    (IF eventTail THEN <<Event("tail_recovered_events", op, TRUE, 0, 0, 0)>> ELSE <<>>)
    \o (IF rawTail THEN <<Event("tail_recovered_raw", op, TRUE, 0, 0, 0)>> ELSE <<>>)

TailAudits(op) ==
    (IF eventTail THEN <<Event("tail_recovered_events", op, TRUE, 0, 0, 0)>> ELSE <<>>)
    \o (IF ~rawTail THEN <<>>
        ELSE IF RawlessOpen(events, raw)
        THEN <<Event("tail_recovered_raw", op, TRUE,
                     Start(events).item, Start(events).attempt, 0)>>
        ELSE <<Event("tail_recovered_raw", op, TRUE, 0, 0, 0)>>)

(* Variant: no marker is restored.                                             *)
RequiredRowsNoMarker(op) ==
    (IF NeedsFinish(events, raw)
        THEN <<RequestFinished(op, TRUE, Start(events))>> ELSE <<>>)
    \o (IF NeedsCompletion(events, raw) THEN <<GenerationCompleted(op, TRUE)>> ELSE <<>>)

RequiredRows(op) ==
    (IF NeedsFinish(events, raw)
        THEN <<RequestFinished(op, TRUE, Start(events))>> ELSE <<>>)
    \o (IF NeedsMarker(events, raw)
        THEN <<Marker(MarkerOf(Reason(events, raw)), op, TRUE, Start(events))>> ELSE <<>>)
    \o (IF NeedsCompletion(events, raw) THEN <<GenerationCompleted(op, TRUE)>> ELSE <<>>)

RecoveryPlan(op) == TailAudits(op) \o RequiredRows(op)

(* Nothing may follow a committed terminal marker, not even a fragment.        *)
TerminalMarkerCommitted ==
    /\ ~NeedsRepair(events, raw)
    /\ ~Open(events)
    /\ Lifecycle(events, raw) \in
         {"AMBIGUOUS_INFLIGHT", "AUTHENTICATION_STOPPED", "GENERATION_COMPLETE"}

-----------------------------------------------------------------------------
Returned == {"complete", "operational_stop", "refused", "busy", "failed"}
Running == {"locked", "planned", "recovering", "ready", "epoch", "item", "started",
            "calling", "answered", "recorded", "finished", "completing"}
Places == {"new"} \cup Running \cup Returned

NoMemory == [ordinal |-> 0, attempt |-> 1, todo |-> <<>>,
             disposition |-> "none", reason |-> "missing"]

Init ==
    /\ events = <<Prepared>> /\ eventTail = FALSE
    /\ raw = <<>> /\ rawTail = FALSE
    /\ lock = NoOperation
    /\ pc = [op \in Operations |-> "new"]
    /\ mem = NoMemory
    /\ calls = <<>>

Goto(op, place) == pc' = [pc EXCEPT ![op] = place]

(* Variant: a failing operation does not close the lock descriptor.            *)
ReturnKeepingLock(op, result) ==
    /\ Goto(op, result)
    /\ lock' = IF result = "failed" THEN lock ELSE NoOperation
    /\ mem' = NoMemory

(* Leaving the operation closes the transaction and the lock descriptor.       *)
Return(op, result) ==
    /\ Goto(op, result)
    /\ lock' = NoOperation
    /\ mem' = NoMemory

(* One framed append.  It commits the row; or the write or its fsync fails and *)
(* the poisoned transaction ends the operation, with none, a part or all of    *)
(* the row in the file.                                                        *)
AppendEvent(op, row, then) ==
    /\ UNCHANGED <<raw, rawTail>>
    /\ \/ events' = Append(events, row) /\ UNCHANGED eventTail /\ then
       \/ /\ \/ events' = Append(events, row) /\ UNCHANGED eventTail
             \/ eventTail' = TRUE /\ UNCHANGED events
          /\ Return(op, "failed")

AppendRaw(op, row, then) ==
    /\ UNCHANGED <<events, eventTail>>
    /\ \/ raw' = Append(raw, row) /\ UNCHANGED rawTail /\ then
       \/ /\ \/ raw' = Append(raw, row) /\ UNCHANGED rawTail
             \/ rawTail' = TRUE /\ UNCHANGED raw
          /\ Return(op, "failed")

Continue(op, place) == Goto(op, place) /\ UNCHANGED <<lock, mem>>

-----------------------------------------------------------------------------
(* Lock and recovery *)

(* Variant: the lock is taken without looking at its holder.                   *)
AcquireLockBlindly(op) ==
    /\ pc[op] = "new"
    /\ lock' = op /\ Goto(op, "locked")
    /\ UNCHANGED <<ledgers, mem, calls>>

AcquireLock(op) ==
    /\ pc[op] = "new"
    /\ IF lock = NoOperation
          THEN lock' = op /\ Goto(op, "locked")
          ELSE Goto(op, "busy") /\ UNCHANGED lock
    /\ UNCHANGED <<ledgers, mem, calls>>

(* Validate both ledgers and derive the repair plan, without writing.          *)
PlanRecovery(op) ==
    /\ pc[op] = "locked"
    /\ (eventTail \/ rawTail) => ~TerminalMarkerCommitted
    /\ mem' = [mem EXCEPT !.todo = RecoveryPlan(op),
                          !.disposition = Disposition(events, raw)]
    /\ Goto(op, "planned")
    /\ UNCHANGED <<ledgers, lock, calls>>

(* The runtime authority is captured after planning and before any write: a    *)
(* different producer runtime leaves the capsule as it is.                     *)
RefuseRuntime(op) ==
    /\ pc[op] = "planned"
    /\ Return(op, "refused")
    /\ UNCHANGED <<ledgers, calls>>

BeginRepair(op) ==
    /\ pc[op] = "planned"
    /\ Continue(op, "recovering")
    /\ UNCHANGED <<ledgers, calls>>

TruncateEvents(op) ==
    /\ pc[op] = "recovering" /\ eventTail
    /\ eventTail' = FALSE
    /\ UNCHANGED <<events, raw, rawTail, lock, pc, mem, calls>>

TruncateRaw(op) ==
    /\ pc[op] = "recovering" /\ ~eventTail /\ rawTail
    /\ rawTail' = FALSE
    /\ UNCHANGED <<events, eventTail, raw, lock, pc, mem, calls>>

AppendRecovered(op) ==
    /\ pc[op] = "recovering" /\ ~eventTail /\ ~rawTail
    /\ mem.todo # <<>>
    /\ AppendEvent(op, Head(mem.todo),
                   /\ mem' = [mem EXCEPT !.todo = Tail(mem.todo)]
                   /\ UNCHANGED <<lock, pc>>)
    /\ UNCHANGED calls

(* The repaired ledgers must need nothing more and keep the disposition.       *)
Repaired ==
    /\ ~eventTail /\ ~rawTail
    /\ mem.todo = <<>>
    /\ ~NeedsRepair(events, raw)
    /\ Disposition(events, raw) = mem.disposition

FinishRepair(op) ==
    /\ pc[op] = "recovering"
    /\ Repaired
    /\ CASE mem.disposition = "complete" -> Return(op, "complete")
         [] mem.disposition \in {"ambiguous", "authentication_stopped"} ->
                Return(op, "operational_stop")
         [] OTHER -> /\ mem' = [mem EXCEPT !.ordinal = NextOrdinal(events, raw),
                                           !.attempt = NextAttempt(events, raw)]
                     /\ Goto(op, "ready") /\ UNCHANGED lock
    /\ UNCHANGED <<ledgers, calls>>

-----------------------------------------------------------------------------
(* The execution epoch *)

StartExecution(op) ==
    /\ pc[op] = "ready"
    /\ AppendEvent(op, Event("execution_started", op, FALSE, mem.ordinal, 0, 0),
                   Continue(op, "epoch"))
    /\ UNCHANGED calls

(* Signals, failed checkpoints, exhausted capacity and an operator's stop end  *)
(* the epoch with a row naming the next plan item; no request is open here.    *)
Interrupt(op) ==
    /\ pc[op] \in {"epoch", "item"} \/ (pc[op] = "finished" /\ mem.reason = "none")
    /\ AppendEvent(op, Event("execution_interrupted", op, FALSE, mem.ordinal, 0, 0),
                   Return(op, "operational_stop"))
    /\ UNCHANGED calls

(* No credential or no provider.                                               *)
Block(op) ==
    /\ pc[op] = "epoch"
    /\ AppendEvent(op, Event("execution_blocked", op, FALSE, 0, 0, 0),
                   Return(op, "operational_stop"))
    /\ UNCHANGED calls

BindProvider(op) ==
    /\ pc[op] = "epoch"
    /\ Continue(op, "item")
    /\ UNCHANGED <<ledgers, calls>>

(* Variant: the start is numbered by the calls to come.                        *)
StartRequestMisnumbered(op) ==
    /\ pc[op] = "item"
    /\ mem.attempt \in 1 .. MaxAttempts
    /\ AppendEvent(op, RequestStarted(op, mem.ordinal, mem.attempt, Len(raw) + 1),
                   Continue(op, "started"))
    /\ UNCHANGED calls

StartRequest(op) ==
    /\ pc[op] = "item"
    /\ mem.attempt \in 1 .. MaxAttempts
    /\ AppendEvent(op, RequestStarted(op, mem.ordinal, mem.attempt, Len(raw)),
                   Continue(op, "started"))
    /\ UNCHANGED calls

(* A failed checkpoint around the call writes nothing: the unmatched start is  *)
(* the evidence.                                                               *)
LeaveAmbiguous(op) ==
    /\ pc[op] \in {"started", "answered"}
    /\ Return(op, "operational_stop")
    /\ UNCHANGED <<ledgers, calls>>

CallProvider(op) ==
    /\ pc[op] = "started"
    /\ calls' = Append(calls, [item |-> mem.ordinal, attempt |-> mem.attempt,
                               learnt |-> "in_flight"])
    /\ Continue(op, "calling")
    /\ UNCHANGED ledgers

ProviderReturns(op) ==
    /\ pc[op] = "calling"
    /\ \E e \in Evidence :
         /\ mem' = [mem EXCEPT !.reason = Decision(e, mem.attempt)]
         /\ calls' = [calls EXCEPT ![Len(calls)].learnt = Learnt(e)]
    /\ Goto(op, "answered")
    /\ UNCHANGED <<ledgers, lock>>

RecordAttempt(op) ==
    /\ pc[op] = "answered"
    /\ AppendRaw(op, RawRow(Start(events), mem.reason), Continue(op, "recorded"))
    /\ UNCHANGED calls

FinishRequest(op) ==
    /\ pc[op] = "recorded"
    /\ AppendEvent(op, RequestFinished(op, FALSE, Start(events)),
                   Continue(op, "finished"))
    /\ UNCHANGED calls

MarkStop(op) ==
    /\ pc[op] = "finished"
    /\ MarkerOf(mem.reason) # "none"
    /\ AppendEvent(op, Marker(MarkerOf(mem.reason), op, FALSE, Start(events)),
                   Return(op, "operational_stop"))
    /\ UNCHANGED calls

(* Variant: the loop runs one row past the plan.                               *)
NextItemOverruns(op) ==
    /\ pc[op] = "finished"
    /\ mem.reason \in Resolved
    /\ IF mem.ordinal = PlanLength
          THEN Continue(op, "completing")
          ELSE /\ mem' = [mem EXCEPT !.ordinal = mem.ordinal + 1, !.attempt = 1,
                                     !.reason = "missing"]
               /\ Goto(op, "item") /\ UNCHANGED lock
    /\ UNCHANGED <<ledgers, calls>>

NextItem(op) ==
    /\ pc[op] = "finished"
    /\ mem.reason \in Resolved
    /\ IF mem.ordinal = PlanLength - 1
          THEN Continue(op, "completing")
          ELSE /\ mem' = [mem EXCEPT !.ordinal = mem.ordinal + 1, !.attempt = 1,
                                     !.reason = "missing"]
               /\ Goto(op, "item") /\ UNCHANGED lock
    /\ UNCHANGED <<ledgers, calls>>

Backoff(op) ==
    /\ pc[op] = "finished"
    /\ mem.reason = "none"
    /\ mem.attempt < MaxAttempts
    /\ mem' = [mem EXCEPT !.attempt = mem.attempt + 1, !.reason = "missing"]
    /\ Goto(op, "item")
    /\ UNCHANGED <<ledgers, lock, calls>>

CompleteGeneration(op) ==
    /\ pc[op] = "completing"
    /\ AppendEvent(op, GenerationCompleted(op, FALSE), Return(op, "complete"))
    /\ UNCHANGED calls

(* The process dies, an interrupt escapes, or a check raises: nothing of the   *)
(* operation but the ledgers is left.                                          *)
Fail(op) ==
    /\ pc[op] \in Running
    /\ Return(op, "failed")
    /\ UNCHANGED <<ledgers, calls>>

-----------------------------------------------------------------------------
Recover(op) ==
    \/ PlanRecovery(op) \/ RefuseRuntime(op) \/ BeginRepair(op)
    \/ TruncateEvents(op) \/ TruncateRaw(op) \/ AppendRecovered(op) \/ FinishRepair(op)

(* What ends an epoch early: signals, an operator, failed checkpoints.          *)
Stop(op) == Interrupt(op) \/ Block(op) \/ LeaveAmbiguous(op)

Execute(op) ==
    \/ StartExecution(op) \/ BindProvider(op) \/ StartRequest(op) \/ CallProvider(op)
    \/ ProviderReturns(op) \/ RecordAttempt(op) \/ FinishRequest(op) \/ MarkStop(op)
    \/ NextItem(op) \/ Backoff(op) \/ CompleteGeneration(op)

Advance(op) == AcquireLock(op) \/ Recover(op) \/ Execute(op)
Step(op) == Advance(op) \/ Stop(op)
Next == \E op \in Operations : Step(op) \/ Fail(op)

Spec == Init /\ [][Next]_vars

(* An operation advances while it can: it is a single-threaded process, and a  *)
(* provider call ends, if only by its timeout.  Nothing has to stop it.        *)
FairSpec == Spec /\ \A op \in Operations : WF_vars(Advance(op))
-----------------------------------------------------------------------------
(* Properties *)

Rows == [kind : {"prepared", "execution_started", "execution_blocked",
                 "execution_interrupted", "request_started", "request_finished",
                 "authentication_stopped", "delivery_ambiguous", "generation_completed",
                 "tail_recovered_events", "tail_recovered_raw"},
         op : Operations \cup {NoOperation}, recovered : BOOLEAN,
         item : Ordinals, attempt : 0 .. MaxAttempts, call : Nat]
Reasons == Resolved \cup {"none", "authentication_stopped", "ambiguous_delivery"}
RawRows == [call : Nat, item : Ordinals, attempt : 1 .. MaxAttempts, reason : Reasons]
Calls == [item : Ordinals, attempt : 1 .. MaxAttempts,
          learnt : {"in_flight", "refused", "received", "unknown"}]
Memories == [ordinal : Ordinals, attempt : 1 .. MaxAttempts, todo : Seq(Rows),
             disposition : {"none", "ambiguous", "authentication_stopped",
                            "complete", "provider_ready"},
             reason : Reasons \cup {"missing"}]

(* Every variable has its type.                                                *)
TypeOK ==
    /\ events \in Seq(Rows) /\ eventTail \in BOOLEAN
    /\ raw \in Seq(RawRows) /\ rawTail \in BOOLEAN
    /\ lock \in Operations \cup {NoOperation}
    /\ pc \in [Operations -> Places]
    /\ mem \in Memories
    /\ calls \in Seq(Calls)

(* Only one operation is between taking and releasing the lock, and it is the  *)
(* lock's holder (try_acquire_mutator_lock before the session, close at the    *)
(* end whatever happened).                                                     *)
SingleMutator == \A op \in Operations : pc[op] \in Running => lock = op

(* The provider is never asked again for an item once a call for it may have   *)
(* had an effect, and never asked for anything once a call's delivery is       *)
(* unknown, in whichever operation that call was made and however it ended.    *)
NoCallAfterPossibleDelivery ==
    \A i, j \in 1 .. Len(calls) : i < j =>
        /\ calls[i].learnt \in {"refused", "received"}
        /\ calls[i].item = calls[j].item => calls[i].learnt = "refused"

(* Write-ahead: the n-th call the provider sees was announced by a committed   *)
(* request_started of that item, attempt and call sequence.                    *)
CallsAreAnnounced ==
    \A n \in 1 .. Len(calls) : \E i \in 1 .. Len(events) :
        /\ events[i].kind = "request_started"
        /\ events[i].call = n - 1
        /\ events[i].item = calls[n].item /\ events[i].attempt = calls[n].attempt

(* A raw row is evidence of a call that was made, in call order: never of      *)
(* another call, and never of one that only a start announces.                 *)
RawRowsAreCalls ==
    /\ Len(raw) <= Len(calls)
    /\ \A n \in 1 .. Len(raw) :
          /\ raw[n].call = n - 1
          /\ raw[n].item = calls[n].item /\ raw[n].attempt = calls[n].attempt
          /\ raw[n].reason = "none" => calls[n].learnt = "refused"
          /\ raw[n].reason = "success" => calls[n].learnt = "received"
          /\ raw[n].reason = "ambiguous_delivery" <=> calls[n].learnt = "unknown"

(* Across any number of interrupted operations the calls walk the plan in      *)
(* order, attempts of an item are consecutive from 1, and no item gets more    *)
(* than 1 + max_transient_retries of them.                                     *)
CallsFollowThePlan ==
    /\ Len(calls) > 0 => calls[1].item = 0 /\ calls[1].attempt = 1
    /\ \A n \in 2 .. Len(calls) :
          \/ calls[n].item = calls[n - 1].item /\ calls[n].attempt = calls[n - 1].attempt + 1
          \/ calls[n].item = calls[n - 1].item + 1 /\ calls[n].attempt = 1
    /\ \A n \in 1 .. Len(calls) : calls[n].attempt <= MaxAttempts

(* generation_completed is committed only when every plan item has a raw row   *)
(* that resolves it.                                                           *)
CompletionIsEarned ==
    Completed(events) =>
        \A item \in Ordinals : \E n \in 1 .. Len(raw) :
            raw[n].item = item /\ raw[n].reason \in Resolved

(* The plan derived before the first repair write is enough: once its          *)
(* truncations and rows are applied nothing more is owed and the disposition   *)
(* is the planned one, which _apply_recovery_plan_v1 requires at its end.      *)
PlanRepairsAll ==
    \A op \in Operations :
        pc[op] = "recovering" /\ ~eventTail /\ ~rawTail /\ mem.todo = <<>> => Repaired

(* No crash leaves ledgers that recovery must refuse: a torn fragment never    *)
(* follows a committed terminal marker.                                        *)
AlwaysRepairable == ~((eventTail \/ rawTail) /\ TerminalMarkerCommitted)

(* A complete report is durable: the completion row is committed, with nothing *)
(* torn after it.                                                              *)
CompleteReportIsTrue ==
    \A op \in Operations :
        pc[op] = "complete" => Completed(events) /\ ~eventTail /\ ~rawTail

(* The position the epoch keeps in memory is the one the ledgers give, through *)
(* retries and items, so that what an interruption or a start names is what    *)
(* the next resume would name.                                                 *)
PositionIsCurrent ==
    \A op \in Operations :
        pc[op] \in {"ready", "epoch", "item"} =>
            /\ mem.ordinal = NextOrdinal(events, raw)
            /\ mem.attempt = NextAttempt(events, raw)
            /\ ~Open(events) /\ ~NeedsRepair(events, raw)
            /\ ~eventTail /\ ~rawTail

(* The checkpoint failures around a call leave an unmatched start, so that the *)
(* lifecycle check of _ambiguous_after_durable_start succeeds.                 *)
UnmatchedStartIsAmbiguous ==
    \A op \in Operations :
        pc[op] \in {"started", "calling", "answered"} =>
            Lifecycle(events, raw) = "AMBIGUOUS_INFLIGHT" /\ ~NeedsRepair(events, raw)

(* What the provider saw is in the ledgers: announced before it was called,    *)
(* and answered in order; a call under way reads as an ambiguous one.          *)
LedgersTellTheCalls == CallsAreAnnounced /\ RawRowsAreCalls /\ UnmatchedStartIsAmbiguous

(* Calls, the position in memory and the completion row follow one plan,       *)
(* through retries, items and any number of interrupted operations.            *)
PlanIsFollowed == CallsFollowThePlan /\ CompletionIsEarned /\ PositionIsCurrent

(* A settled capsule stays settled: after an ambiguous delivery, an            *)
(* authentication stop or completion no operation ever calls the provider or   *)
(* adds an attempt, and the lifecycle never changes.                           *)
Settled == Lifecycle(events, raw) \in
             {"AMBIGUOUS_INFLIGHT", "AUTHENTICATION_STOPPED", "GENERATION_COMPLETE"}
           /\ \A op \in Operations : pc[op] \notin {"started", "calling", "answered"}
SettledIsForever ==
    [][Settled => /\ UNCHANGED <<raw, calls>>
                  /\ Lifecycle(events', raw') = Lifecycle(events, raw)]_vars

(* An operation that takes the lock ends, by a result or by a failure.         *)
LockIsReleased == \A op \in Operations : lock = op ~> lock # op
=============================================================================
