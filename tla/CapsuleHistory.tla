--------------------------- MODULE CapsuleHistory ---------------------------
(* The two streaming acceptors of a capsule's ledgers: the grammar of          *)
(* events.jsonl alone, and the validation of events.jsonl against raw.jsonl    *)
(* that every reader and every resume runs.  Each reads the rows once, in      *)
(* order, and keeps a compact state; here a function from the number of rows   *)
(* read to that state.  A rejected row leaves ok FALSE for good.               *)
(*                                                                             *)
(* An operation has one execution session, so an epoch is named by its         *)
(* operation; rows of a session are exactly the rows that are not recovered.   *)
EXTENDS Naturals, Sequences, FiniteSets

CONSTANTS Operations, NoOperation, PlanLength, MaxTransientRetries

Ordinals == 0 .. PlanLength - 1
Resolved == {"success", "retry_exhausted", "provider_rejected"}
None == [item |-> 0, attempt |-> 0, call |-> 0]

(* Rows a repair writes come in phases; a new operation starts over.           *)
PhaseOf(kind) ==
    CASE kind = "tail_recovered_events" -> 1
      [] kind = "tail_recovered_raw"    -> 2
      [] kind = "request_finished"      -> 3
      [] kind \in {"authentication_stopped", "delivery_ambiguous"} -> 4
      [] kind = "generation_completed"  -> 5

(* The first audit is the first row of its repair, a raw audit follows at most *)
(* an events audit, a finish follows audits, and marker and completion exclude *)
(* each other.                                                                 *)
PhaseAllows(current, kind) ==
    CASE kind = "tail_recovered_events" -> current = 0
      [] kind = "tail_recovered_raw"    -> current \in {0, 1}
      [] kind = "request_finished"      -> current <= 2
      [] OTHER                          -> current <= 3

(* Common to both acceptors: operation identities are fresh once, and the rows *)
(* of one repair are in order.                                                 *)
AdvanceRepair(s, e) ==
    LET same == e.op = s.repair
        from == IF same THEN s.phase ELSE 0
    IN  [s EXCEPT !.ok = s.ok /\ (same \/ e.op \notin s.seen) /\ PhaseAllows(from, e.kind),
                  !.repair = e.op,
                  !.phase = PhaseOf(e.kind),
                  !.seen = s.seen \cup {e.op}]

(* A row of a session continues the active epoch; any recovered row ends it.   *)
InEpoch(s, e) == e.recovered \/ (s.epoch # NoOperation /\ e.op = s.epoch)
EndEpochIfRecovered(s, e) == [s EXCEPT !.epoch = IF e.recovered THEN NoOperation ELSE @]
Reject(s) == [s EXCEPT !.ok = FALSE]
When(condition, s) == IF condition THEN s ELSE Reject(s)
Repairing(s, e) == IF e.recovered THEN AdvanceRepair(s, e) ELSE s

-----------------------------------------------------------------------------
(* The grammar of events.jsonl alone *)

EventInit == [ok |-> TRUE, epoch |-> NoOperation, resume |-> PlanLength,
              hadCall |-> FALSE, open |-> FALSE, start |-> None,
              lastStart |-> FALSE, lastFinish |-> FALSE, finishOp |-> NoOperation,
              startOp |-> NoOperation, repair |-> NoOperation, phase |-> 0,
              suffix |-> FALSE, call |-> 0, seen |-> {NoOperation}]

EventStarted(s, e) ==
    When(/\ ~s.open
         /\ e.item < PlanLength
         /\ s.call = 0 => e.item = 0
         /\ e.op = s.repair \/ e.op \notin s.seen,
         [s EXCEPT !.seen = s.seen \cup {e.op}, !.repair = NoOperation, !.phase = 0,
                   !.epoch = e.op, !.resume = e.item, !.hadCall = FALSE,
                   !.lastStart = FALSE, !.lastFinish = FALSE])

EventTail(s, e) ==
    When(\/ e.attempt = 0
         \/ /\ e.kind = "tail_recovered_raw" /\ s.open
            /\ e.item = s.start.item /\ e.attempt = s.start.attempt,
         AdvanceRepair([s EXCEPT !.epoch = NoOperation, !.resume = PlanLength], e))

EventBlocked(s, e) ==
    When(InEpoch(s, e) /\ ~s.hadCall /\ ~s.open,
         [s EXCEPT !.epoch = NoOperation, !.lastStart = FALSE, !.lastFinish = FALSE])

EventInterrupted(s, e) ==
    When(/\ InEpoch(s, e) /\ ~s.open
         /\ ~s.hadCall => e.item = s.resume
         /\ e.item \in Ordinals,
         [s EXCEPT !.epoch = NoOperation, !.lastStart = FALSE, !.lastFinish = FALSE])

EventRequest(s, e) ==
    When(/\ InEpoch(s, e) /\ s.epoch # NoOperation /\ ~s.open
         /\ e.call = s.call
         /\ e.attempt <= MaxTransientRetries + 1
         /\ ~s.hadCall => e.item = s.resume
         /\ e.item \in Ordinals,
         [s EXCEPT !.hadCall = TRUE, !.open = TRUE, !.start = e, !.startOp = e.op,
                   !.lastStart = TRUE, !.lastFinish = FALSE, !.call = s.call + 1])

EventFinish(s, e) ==
    When(/\ InEpoch(s, e) /\ s.open
         /\ e.call = s.start.call /\ e.item = s.start.item /\ e.attempt = s.start.attempt
         /\ ~e.recovered => e.op = s.startOp,
         [Repairing(EndEpochIfRecovered(s, e), e) EXCEPT
                   !.open = FALSE, !.lastStart = TRUE, !.lastFinish = TRUE, !.finishOp = e.op])

EventMarker(s, e) ==
    When(/\ InEpoch(s, e) /\ ~s.open /\ s.lastStart /\ s.lastFinish
         /\ e.item = s.start.item /\ e.attempt = s.start.attempt
         /\ ~e.recovered => e.op = s.finishOp,
         [Repairing(s, e) EXCEPT !.suffix = TRUE, !.epoch = NoOperation])

EventCompleted(s, e) ==
    When(/\ InEpoch(s, e) /\ ~s.open /\ s.lastFinish
         /\ e.item = PlanLength - 1
         /\ ~e.recovered => e.op = s.finishOp,
         [Repairing(s, e) EXCEPT !.suffix = TRUE, !.epoch = NoOperation])

(* Nothing follows a terminal marker and the prepared row is the first only.   *)
EventStep(s, e) ==
    IF ~s.ok \/ s.suffix THEN Reject(s)
    ELSE CASE e.kind = "execution_started"      -> EventStarted(s, e)
           [] e.kind \in {"tail_recovered_events", "tail_recovered_raw"} -> EventTail(s, e)
           [] e.kind = "execution_blocked"      -> EventBlocked(s, e)
           [] e.kind = "execution_interrupted"  -> EventInterrupted(s, e)
           [] e.kind = "request_started"        -> EventRequest(s, e)
           [] e.kind = "request_finished"       -> EventFinish(s, e)
           [] e.kind \in {"authentication_stopped", "delivery_ambiguous"} -> EventMarker(s, e)
           [] e.kind = "generation_completed"   -> EventCompleted(s, e)
           [] OTHER                             -> Reject(s)

EventStates(ev) ==
    LET state[n \in 1 .. Len(ev)] ==
            IF n = 1 THEN EventInit ELSE EventStep(state[n - 1], ev[n])
    IN  state

(* Is ev a legal events.jsonl?                                                 *)
EventGrammar(ev) ==
    /\ Len(ev) > 0 /\ ev[1].kind = "prepared"
    /\ EventStates(ev)[Len(ev)].ok

-----------------------------------------------------------------------------
(* Validation of both ledgers *)

(* open: "none", "rawless" or "raw"; reason: terminal reason of the last raw   *)
(* row consumed; pending: the marker that row calls for.                       *)
HistoryInit == [ok |-> TRUE, epoch |-> NoOperation, hadCall |-> FALSE,
                open |-> "none", start |-> None, startOp |-> NoOperation,
                reason |-> "missing", finished |-> FALSE, finishOp |-> NoOperation,
                pending |-> "none", completion |-> FALSE, suffix |-> FALSE,
                repair |-> NoOperation, phase |-> 0, execution |-> FALSE,
                request |-> FALSE, blocked |-> FALSE, recovered |-> FALSE,
                ambiguity |-> FALSE, auth |-> FALSE,
                ordinal |-> 0, attempt |-> 1, call |-> 0, taken |-> 0,
                seen |-> {NoOperation}]

Started(s, e) ==
    When(/\ s.open = "none" /\ s.pending = "none" /\ ~s.completion
         /\ s.ordinal # PlanLength
         /\ e.op = s.repair \/ e.op \notin s.seen
         /\ e.item = s.ordinal,
         [s EXCEPT !.execution = TRUE, !.blocked = FALSE, !.seen = s.seen \cup {e.op},
                   !.repair = NoOperation, !.phase = 0, !.epoch = e.op, !.hadCall = FALSE])

TailRecovered(s, e) ==
    LET related == IF e.kind = "tail_recovered_raw" /\ s.open = "rawless"
                   THEN <<s.start.item, s.start.attempt>> ELSE <<0, 0>>
    IN  When(<<e.item, e.attempt>> = related,
             AdvanceRepair([s EXCEPT !.epoch = NoOperation], e))

Blocked(s, e) ==
    When(InEpoch(s, e) /\ ~s.hadCall /\ s.open = "none",
         [s EXCEPT !.blocked = ~s.request, !.epoch = NoOperation])

Interrupted(s, e) ==
    When(InEpoch(s, e) /\ s.open = "none" /\ s.pending = "none" /\ e.item = s.ordinal
         /\ s.ordinal < PlanLength,
         [s EXCEPT !.epoch = NoOperation])

(* A raw row of the call's sequence is consumed with its start and moves the   *)
(* position: to the next attempt, to the next item, or to a stop.              *)
TakeRaw(s, e, row) ==
    LET t == [s EXCEPT !.open = "raw", !.taken = s.taken + 1, !.reason = row.reason]
    IN  When(row.item = e.item /\ row.attempt = e.attempt,
             CASE row.reason = "none" ->
                    When(row.attempt # MaxTransientRetries + 1,
                         [t EXCEPT !.attempt = s.attempt + 1])
               [] row.reason \in Resolved ->
                    When(row.reason = "retry_exhausted" =>
                             row.attempt = MaxTransientRetries + 1,
                         [t EXCEPT !.ordinal = s.ordinal + 1, !.attempt = 1])
               [] row.reason = "authentication_stopped" ->
                    [t EXCEPT !.auth = TRUE, !.pending = "authentication_stopped"]
               [] row.reason = "ambiguous_delivery" ->
                    [t EXCEPT !.ambiguity = TRUE, !.pending = "delivery_ambiguous"])

Requested(s, e, rw) ==
    LET next == s.taken + 1
        t == [s EXCEPT !.request = TRUE, !.hadCall = TRUE, !.blocked = FALSE,
                       !.open = "rawless", !.start = e, !.startOp = e.op, !.call = s.call + 1]
    IN  When(/\ InEpoch(s, e) /\ s.epoch # NoOperation
             /\ s.open = "none" /\ s.pending = "none"
             /\ s.ordinal < PlanLength /\ e.item = s.ordinal
             /\ e.call = s.call
             /\ e.attempt = s.attempt
             /\ e.attempt <= MaxTransientRetries + 1,
             IF next > Len(rw) THEN t
             ELSE IF rw[next].call < s.call THEN Reject(t)
             ELSE IF rw[next].call = s.call THEN TakeRaw(t, e, rw[next])
             ELSE t)

Finished(s, e) ==
    When(/\ InEpoch(s, e) /\ s.open = "raw"
         /\ e.call = s.start.call /\ e.item = s.start.item /\ e.attempt = s.start.attempt
         /\ ~e.recovered => e.op = s.startOp,
         [Repairing(EndEpochIfRecovered(s, e), e) EXCEPT
                   !.open = "none", !.finished = TRUE, !.finishOp = e.op])

MarkedStop(s, e) ==
    When(/\ InEpoch(s, e) /\ s.open = "none" /\ s.pending = e.kind /\ s.finished
         /\ e.item = s.start.item /\ e.attempt = s.start.attempt
         /\ ~e.recovered => e.op = s.finishOp,
         [Repairing(s, e) EXCEPT !.pending = "none", !.suffix = TRUE, !.epoch = NoOperation])

CompletedGeneration(s, e) ==
    When(/\ InEpoch(s, e) /\ s.open = "none" /\ s.pending = "none"
         /\ s.ordinal = PlanLength /\ s.finished
         /\ e.item = PlanLength - 1
         /\ ~e.recovered => e.op = s.finishOp,
         [Repairing(s, e) EXCEPT !.completion = TRUE, !.suffix = TRUE, !.epoch = NoOperation])

HistoryStep(s, e, rw) ==
    IF ~s.ok \/ s.suffix THEN Reject(s)
    ELSE LET t == [s EXCEPT !.recovered = e.recovered]
         IN CASE e.kind = "execution_started"      -> Started(t, e)
              [] e.kind \in {"tail_recovered_events", "tail_recovered_raw"} -> TailRecovered(t, e)
              [] e.kind = "execution_blocked"      -> Blocked(t, e)
              [] e.kind = "execution_interrupted"  -> Interrupted(t, e)
              [] e.kind = "request_started"        -> Requested(t, e, rw)
              [] e.kind = "request_finished"       -> Finished(t, e)
              [] e.kind \in {"authentication_stopped", "delivery_ambiguous"} -> MarkedStop(t, e)
              [] e.kind = "generation_completed"   -> CompletedGeneration(t, e)
              [] OTHER                             -> Reject(t)

ReplayStates(ev, rw) ==
    LET state[n \in 1 .. Len(ev)] ==
            IF n = 1 THEN HistoryInit ELSE HistoryStep(state[n - 1], ev[n], rw)
    IN  state

(* The state after both ledgers; a raw row no start consumed is rejected.      *)
Replay(ev, rw) ==
    LET s == ReplayStates(ev, rw)[Len(ev)]
    IN  When(ev[1].kind = "prepared" /\ s.taken = Len(rw), s)

(* The rows a repair owes, in causal order.                                    *)
Requirements(s) ==
    (IF s.open = "raw" THEN <<"request_finished">> ELSE <<>>)
    \o (IF s.pending # "none" THEN <<s.pending>> ELSE <<>>)
    \o (IF s.ordinal = PlanLength /\ ~s.completion THEN <<"generation_completed">> ELSE <<>>)

(* The lifecycle of an unsealed capsule.                                       *)
DeriveLifecycle(s) ==
    IF s.ambiguity \/ s.open = "rawless" THEN "AMBIGUOUS_INFLIGHT"
    ELSE IF s.auth THEN "AUTHENTICATION_STOPPED"
    ELSE IF s.ordinal = PlanLength THEN "GENERATION_COMPLETE"
    ELSE IF ~s.request /\ s.blocked THEN "PREPARED"
    ELSE IF s.execution \/ s.request THEN "INTERRUPTED"
    ELSE "PREPARED"
=============================================================================
