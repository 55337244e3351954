
----------------------- MODULE CapsuleDurabilityProofs -----------------------
(* Theorems about recovery, the history acceptors and power losses, for every  *)
(* number of operations, plan items, retries and power losses.  Four parts:    *)
(* induction and positions in a ledger; what a repair plan leaves to do; the   *)
(* acceptors, which take every ledger pair that operations leave; and what     *)
(* survives a power loss, which rests on what an accepted pair says.           *)
EXTENDS MCCapsuleDurability, CapsuleJournalProofs, WellFoundedInduction

-----------------------------------------------------------------------------
(* Induction over the naturals, from the well-foundedness of their order *)

LEMMA LeastNatural ==
    ASSUME NEW T \in SUBSET Nat, T # {}
    PROVE  \E x \in T : \A y \in T : x <= y
<1>. DEFINE R == OpToRel(<, Nat)
<1>1. IsWellFoundedOn(R, Nat)
  BY NatLessThanWellFounded
<1>2. \A x, y \in Nat : x < y => <<x, y>> \in R
  BY DEF OpToRel
<1>. HIDE DEF R
<1>3. PICK x \in T : \A y \in T : ~ (<<y, x>> \in R)
  BY <1>1, WFMin
<1>4. \A y \in T : ~(y < x)
  BY <1>2, <1>3
<1>5. \A y \in T : x <= y
  BY <1>4
<1>. QED
  BY <1>5

LEMMA UpTo ==
    ASSUME NEW T, NEW m \in Nat, NEW n \in Nat, m \in T,
           \A i \in m .. n - 1 : i \in T => i + 1 \in T
    PROVE  \A i \in m .. n : i \in T
<1>. DEFINE Bad == { i \in m .. n : i \notin T }
<1>. SUFFICES ASSUME Bad # {} PROVE FALSE
  OBVIOUS
<1>1. Bad \in SUBSET Nat
  OBVIOUS
<1>2. PICK x \in Bad : \A y \in Bad : x <= y
  <2>. HIDE DEF Bad
  <2>. QED
    BY <1>1, LeastNatural
<1>3. x # m /\ x - 1 \in m .. n - 1
  BY <1>2
<1>4. x - 1 \in T
  BY <1>2, <1>3
<1>. QED
  BY <1>2, <1>3, <1>4

(* So every search for a last row of some kinds finds it, or position 0.       *)
LEMMA EveryLastExists ==
    ASSUME NEW ev \in Seq(Rows), NEW K
    PROVE  HasLast(ev, K)
<1>. DEFINE Found(n) == \E i \in 0 .. n : /\ i > 0 => ev[i].kind \in K
                                          /\ \A j \in i + 1 .. n : ev[j].kind \notin K
            T == { n \in 0 .. Len(ev) : Found(n) }
<1>1. Len(ev) \in Nat
  OBVIOUS
<1>2. 0 \in T
  OBVIOUS
<1>3. ASSUME NEW n \in 0 .. Len(ev) - 1, n \in T PROVE n + 1 \in T
  <2>1. PICK i \in 0 .. n : /\ i > 0 => ev[i].kind \in K
                            /\ \A j \in i + 1 .. n : ev[j].kind \notin K
    BY <1>3
  <2>2. CASE ev[n + 1].kind \in K
    <3>1. n + 1 \in 0 .. n + 1 /\ \A j \in n + 2 .. n + 1 : ev[j].kind \notin K
      BY <1>1
    <3>2. Found(n + 1)
      BY <1>1, <2>2, <3>1
    <3>. QED
      BY <1>1, <3>2
  <2>3. CASE ev[n + 1].kind \notin K
    <3>1. \A j \in i + 1 .. n + 1 : ev[j].kind \notin K
      BY <1>1, <2>1, <2>3
    <3>2. Found(n + 1)
      BY <1>1, <2>1, <3>1
    <3>. QED
      BY <1>1, <3>2
  <2>. QED
    BY <2>2, <2>3
<1>4. Len(ev) \in T
  <2>. HIDE DEF T
  <2>1. \A n \in 0 .. Len(ev) - 1 : n \in T => n + 1 \in T
    BY <1>3
  <2>2. \A n \in 0 .. Len(ev) : n \in T
    BY <1>1, <1>2, <2>1, UpTo
  <2>. QED
    BY <1>1, <2>2
<1>. QED
  BY <1>1, <1>4 DEF HasLast, IsLast

-----------------------------------------------------------------------------
(* What rows other than a start change *)

(* What the ledgers say after another row than a start.                        *)
LEMMA RowSays ==
    ASSUME NEW ev \in Seq(Rows), NEW rw, NEW row \in Rows, row.kind # "request_started"
    PROVE  LET new == Append(ev, row) IN
           /\ RequestHistory(new) = RequestHistory(ev)
           /\ RequestHistory(ev) => Start(new) = Start(ev)
           /\ HasRaw(new, rw) = HasRaw(ev, rw)
           /\ Reason(new, rw) = Reason(ev, rw)
           /\ NextOrdinal(new, rw) = NextOrdinal(ev, rw)
           /\ NextAttempt(new, rw) = NextAttempt(ev, rw)
           /\ Open(new) = (Open(ev) /\ row.kind # "request_finished")
           /\ Marked(new) = (Marked(ev) \/ row.kind \in Stops)
           /\ Completed(new) = (Completed(ev) \/ row.kind = "generation_completed")
<1>. DEFINE new == Append(ev, row)
<1>1. HasLast(ev, Starts) /\ HasLast(ev, Requests) /\ HasLast(ev, Stops)
      /\ HasLast(ev, {"generation_completed"}) /\ Len(ev) \in Nat
  BY EveryLastExists
<1>2. /\ RequestHistory(new) = RequestHistory(ev)
      /\ RequestHistory(ev) => Start(new) = Start(ev)
      /\ row.kind = "request_finished" => ~Open(new)
      /\ row.kind # "request_finished" => Open(new) = Open(ev)
  BY <1>1, AppendNoStart
<1>3. /\ HasRaw(new, rw) = HasRaw(ev, rw)
      /\ Reason(new, rw) = Reason(ev, rw)
      /\ NextOrdinal(new, rw) = NextOrdinal(ev, rw)
      /\ NextAttempt(new, rw) = NextAttempt(ev, rw)
  BY <1>2, SameStart
<1>4. Open(new) = (Open(ev) /\ row.kind # "request_finished")
  BY <1>2 DEF Open
<1>5. Marked(new) = (Marked(ev) \/ row.kind \in Stops)
  BY <1>1, LastOfAppend DEF Marked
<1>6. Completed(new) = (Completed(ev) \/ row.kind = "generation_completed")
  BY <1>1, LastOfAppend DEF Completed
<1>. QED
  BY <1>2, <1>3, <1>4, <1>5, <1>6

(* After a start nothing is marked or completed that was not before.           *)
LEMMA StartSays ==
    ASSUME NEW ev \in Seq(Rows), NEW rw, NEW row \in Rows, row.kind = "request_started"
    PROVE  LET new == Append(ev, row) IN
           /\ RequestHistory(new) /\ Start(new) = row /\ Open(new)
           /\ Marked(new) = Marked(ev)
           /\ Completed(new) = Completed(ev)
<1>1. HasLast(ev, Starts) /\ HasLast(ev, Requests) /\ HasLast(ev, Stops)
      /\ HasLast(ev, {"generation_completed"})
  BY EveryLastExists
<1>. QED
  BY <1>1, AppendStart, LastOfAppend DEF Marked, Completed, Stops

(* The disposition, and what a terminal marker committed means, from the       *)
(* position.                                                                   *)
LEMMA DispositionSays ==
    ASSUME NEW ev, NEW rw
    PROVE  Disposition(ev, rw) =
             IF RawlessOpen(ev, rw) \/ Reason(ev, rw) = "ambiguous_delivery" THEN "ambiguous"
             ELSE IF Reason(ev, rw) = "authentication_stopped" THEN "authentication_stopped"
             ELSE IF NextOrdinal(ev, rw) = PlanLength THEN "complete" ELSE "provider_ready"
BY DEF Disposition, Lifecycle

TerminalOf(ev, rw) ==
    /\ ~NeedsRepair(ev, rw) /\ ~Open(ev)
    /\ \/ Reason(ev, rw) \in {"ambiguous_delivery", "authentication_stopped"}
       \/ NextOrdinal(ev, rw) = PlanLength

LEMMA TerminalMeans ==
    ASSUME NEW ev, NEW rw
    PROVE  TerminalOf(ev, rw) <=>
             /\ ~NeedsRepair(ev, rw) /\ ~Open(ev)
             /\ Lifecycle(ev, rw) \in
                  {"AMBIGUOUS_INFLIGHT", "AUTHENTICATION_STOPPED", "GENERATION_COMPLETE"}
BY DEF TerminalOf, Lifecycle, RawlessOpen

LEMMA TerminalSays ==
    /\ TerminalMarkerCommitted <=> TerminalOf(events, raw)
    /\ TerminalMarkerCommitted' <=> TerminalOf(events', raw')
BY TerminalMeans DEF TerminalMarkerCommitted

-----------------------------------------------------------------------------
(* Repair: the invariant *)

(* A marker or a completion is the last word: no request is open, and the      *)
(* position is the one it stands for.                                          *)
TerminalRowsEnd ==
    /\ Marked(events) => ~Open(events) /\ MarkerOf(Reason(events, raw)) # "none"
    /\ Completed(events) => ~Open(events) /\ NextOrdinal(events, raw) = PlanLength

EventsAudit(op) == Event("tail_recovered_events", op, TRUE, 0, 0, 0)
RawAudit(op) ==
    IF RawlessOpen(events, raw)
    THEN Event("tail_recovered_raw", op, TRUE, Start(events).item, Start(events).attempt, 0)
    ELSE Event("tail_recovered_raw", op, TRUE, 0, 0, 0)

If(condition, row) == IF condition THEN <<row>> ELSE <<>>

(* What a plan still holds: the audits in inEvents and inRaw, and all rows the *)
(* ledgers owe now.                                                            *)
Remains(op, inEvents, inRaw) ==
    If(inEvents, EventsAudit(op)) \o If(inRaw, RawAudit(op)) \o RequiredRows(op)

(* Audits are only of tails that recovery may truncate.                        *)
TodoRemains(op) ==
    \E inEvents, inRaw \in BOOLEAN :
        /\ mem.todo = Remains(op, inEvents, inRaw)
        /\ inEvents \/ inRaw => ~TerminalMarkerCommitted

RepairMemory(op) ==
    /\ pc[op] \in {"planned", "recovering"} =>
          TodoRemains(op) /\ mem.disposition = Disposition(events, raw)
    /\ pc[op] = "recorded" => Open(events)
    /\ pc[op] \in {"finished", "completing"} => ~Marked(events) /\ ~Completed(events)

RepairInv ==
    /\ TerminalRowsEnd
    /\ AlwaysRepairable
    /\ CompleteReportIsTrue
    /\ \A op \in Operations : RepairMemory(op)

Done == Completed(events) /\ ~eventTail /\ ~rawTail

-----------------------------------------------------------------------------
(* Repair: the steps *)

(* The reason of the last attempt and the position it gives.                   *)
LEMMA PositionSays ==
    ASSUME TypeOK, LedgerInv
    PROVE  /\ Reason(events, raw) \in Reasons \cup {"missing"}
           /\ NextOrdinal(events, raw) \in 0 .. PlanLength
           /\ NextAttempt(events, raw) \in Nat
           /\ NextOrdinal(events, raw) = PlanLength =>
                 HasRaw(events, raw) /\ Reason(events, raw) \in Resolved
           /\ Reason(events, raw) = "missing" <=> ~HasRaw(events, raw)
<1>1. RequestHistory(events) => /\ Start(events).item \in 0 .. PlanLength - 1
                               /\ Start(events).attempt \in 1 .. MaxAttempts
  BY LastRow DEF Rows, Ordinals
<1>2. HasRaw(events, raw) => RequestHistory(events) /\ Reason(events, raw) \in Reasons
  BY LastRow DEF HasRaw
<1>3. "missing" \notin Reasons /\ "missing" \notin Resolved
  BY DEF Reasons, Resolved
<1>4. ~HasRaw(events, raw) => Reason(events, raw) = "missing"
  BY DEF Reason
<1>5. NextAttempt(events, raw) \in Nat
  BY <1>1, RetriesAreNatural DEF NextAttempt, MaxAttempts
<1>6. NextOrdinal(events, raw) \in 0 .. PlanLength
  BY <1>1, PlanIsNotEmpty DEF NextOrdinal
<1>7. NextOrdinal(events, raw) = PlanLength =>
          HasRaw(events, raw) /\ Reason(events, raw) \in Resolved
  BY <1>1, <1>3, <1>4, PlanIsNotEmpty DEF NextOrdinal
<1>. QED
  BY <1>2, <1>3, <1>4, <1>5, <1>6, <1>7

(* Before a terminal marker is committed there is none in the ledger.          *)
LEMMA NoTerminalRow ==
    ASSUME TypeOK, LedgerInv, TerminalRowsEnd, ~TerminalMarkerCommitted
    PROVE  ~Marked(events) /\ ~Completed(events)
<1>1. Reason(events, raw) \in Resolved => MarkerOf(Reason(events, raw)) = "none"
  BY DEF MarkerOf, Resolved
<1>2. MarkerOf(Reason(events, raw)) # "none" =>
         Reason(events, raw) \in {"ambiguous_delivery", "authentication_stopped"}
  BY DEF MarkerOf
<1>3. ASSUME Marked(events) PROVE FALSE
  <2>1. ~Open(events) /\ MarkerOf(Reason(events, raw)) # "none"
    BY <1>3 DEF TerminalRowsEnd
  <2>2. ~NeedsRepair(events, raw)
    BY <1>1, <1>3, <2>1, PositionSays DEF NeedsRepair, NeedsFinish, NeedsMarker, NeedsCompletion
  <2>. QED
    BY <1>2, <2>1, <2>2, TerminalSays DEF TerminalOf
<1>4. ASSUME Completed(events) PROVE FALSE
  <2>1. ~Open(events) /\ NextOrdinal(events, raw) = PlanLength
    BY <1>4 DEF TerminalRowsEnd
  <2>2. ~NeedsRepair(events, raw)
    BY <1>1, <1>4, <2>1, PositionSays DEF NeedsRepair, NeedsFinish, NeedsMarker, NeedsCompletion
  <2>. QED
    BY <2>1, <2>2, TerminalSays DEF TerminalOf
<1>. QED
  BY <1>3, <1>4

(* Everything but what the acting operation knows, from what the step does to  *)
(* the ledgers.                                                                *)
LEMMA RepairFrame ==
    ASSUME IInv, RepairInv, NEW op \in Operations, pc[op] \in Running, NEW place,
           pc' = [pc EXCEPT ![op] = place],
           TerminalRowsEnd', AlwaysRepairable', Done => Done',
           place = "complete" => Done', RepairMemory(op)'
    PROVE  RepairInv'
<1>1. pc \in [Operations -> Places] /\ lock = op
  BY DEF IInv, TypeOK, SingleMutator
<1>2. \A o \in Operations \ {op} : pc'[o] = pc[o] /\ pc[o] \notin Running
  BY <1>1, NoOperationIsFresh DEF IInv, SingleMutator
<1>3. pc'[op] = place
  BY <1>1
<1>4. \A o \in Operations : RepairMemory(o)'
  BY <1>2 DEF RepairMemory, Running
<1>5. CompleteReportIsTrue'
  <2>. SUFFICES ASSUME NEW o \in Operations, pc'[o] = "complete" PROVE Done'
    BY DEF CompleteReportIsTrue, Done
  <2>1. o # op => pc[o] = "complete" /\ Done
    BY <1>2 DEF RepairInv, CompleteReportIsTrue, Done
  <2>. QED
    BY <1>3, <2>1
<1>. QED
  BY <1>4, <1>5 DEF RepairInv

(* A row that is written, or the part of it that is.                           *)
LEMMA RepairWrite ==
    ASSUME IInv, RepairInv, NEW op \in Operations, pc[op] \in Running, NEW place,
           pc' = [pc EXCEPT ![op] = place], place # "complete" \/ Done',
           NEW row \in Rows, ~eventTail, ~rawTail, ~TerminalMarkerCommitted,
           raw' = raw, rawTail' = rawTail,
           \/ events' = Append(events, row) /\ eventTail' = eventTail
           \/ eventTail' = TRUE /\ events' = events,
           row.kind \in Stops => NeedsMarker(events, raw) /\ ~Open(events),
           row.kind = "generation_completed" => NeedsCompletion(events, raw) /\ ~Open(events),
           RepairMemory(op)'
    PROVE  RepairInv'
<1>1. TypeOK /\ LedgerInv /\ events \in Seq(Rows)
  BY DEF IInv, TypeOK
<1>2. ~Marked(events) /\ ~Completed(events)
  BY <1>1, NoTerminalRow DEF RepairInv
<1>3. CASE events' = events /\ eventTail' = TRUE
  <2>1. TerminalRowsEnd' /\ AlwaysRepairable'
    BY <1>3 DEF RepairInv, TerminalRowsEnd, AlwaysRepairable, TerminalMarkerCommitted
  <2>. QED
    BY <1>2, <2>1, RepairFrame DEF Done
<1>4. CASE events' = Append(events, row) /\ eventTail' = eventTail
  <2>1. AlwaysRepairable'
    BY <1>4 DEF AlwaysRepairable
  <2>2. CASE row.kind = "request_started"
    <3>1. ~Marked(events') /\ ~Completed(events')
      BY <1>1, <1>2, <1>4, <2>2, StartSays
    <3>2. TerminalRowsEnd'
      BY <3>1 DEF TerminalRowsEnd
    <3>. QED
      BY <1>2, <2>1, <3>2, RepairFrame DEF Done
  <2>3. CASE row.kind # "request_started"
    <3>1. /\ Reason(events', raw') = Reason(events, raw)
          /\ NextOrdinal(events', raw') = NextOrdinal(events, raw)
          /\ Open(events') => Open(events)
          /\ Marked(events') => row.kind \in Stops
          /\ Completed(events') => row.kind = "generation_completed"
      BY <1>1, <1>2, <1>4, <2>3, RowSays
    <3>2. TerminalRowsEnd'
      BY <3>1 DEF TerminalRowsEnd, NeedsMarker, NeedsCompletion
    <3>. QED
      BY <1>2, <2>1, <3>2, RepairFrame DEF Done
  <2>. QED
    BY <2>2, <2>3
<1>. QED
  BY <1>3, <1>4

(* A step that leaves both ledgers as they are, or only truncates a fragment.  *)
LEMMA RepairQuiet ==
    ASSUME IInv, RepairInv, NEW op \in Operations, pc[op] \in Running, NEW place,
           pc' = [pc EXCEPT ![op] = place], place # "complete" \/ Done',
           events' = events, raw' = raw, eventTail' => eventTail, rawTail' => rawTail,
           RepairMemory(op)'
    PROVE  RepairInv'
<1>1. TerminalRowsEnd' /\ AlwaysRepairable' /\ (Done => Done')
  BY DEF RepairInv, TerminalRowsEnd, AlwaysRepairable, TerminalMarkerCommitted, Done
<1>. QED
  BY <1>1, RepairFrame

(* An operation that ends has nothing to remember.                             *)
LEMMA EndedMemory ==
    ASSUME NEW op \in Operations, pc[op] \notin Running
    PROVE  RepairMemory(op)
BY DEF RepairMemory, Running

(* Wherever an operation may write, nothing terminal is committed.             *)
LEMMA LivePosition ==
    ASSUME IInv, RepairInv, NEW op \in Operations,
           \/ pc[op] \in {"ready", "epoch", "item", "started", "answered", "recorded", "completing"}
           \/ pc[op] = "finished" /\ mem.reason \notin Resolved
    PROVE  /\ ~TerminalMarkerCommitted /\ ~eventTail /\ ~rawTail
           /\ pc[op] = "completing" => NeedsCompletion(events, raw) /\ ~Open(events)
           /\ pc[op] = "finished" /\ MarkerOf(mem.reason) # "none" =>
                NeedsMarker(events, raw) /\ ~Open(events)
<1>1. /\ TypeOK /\ LedgerInv /\ MemoryInv(op) /\ RepairMemory(op)
      /\ mem.ordinal \in Ordinals /\ Reason(events, raw) \in Reasons \cup {"missing"}
  BY HolderMemory, PositionSays DEF IInv, RepairInv
<1>2. ~eventTail /\ ~rawTail
  BY <1>1 DEF MemoryInv
<1>3. CASE pc[op] \in {"ready", "epoch", "item"}
  <2>1. PositionIsNext
    BY <1>1, <1>3 DEF MemoryInv
  <2>2. Reason(events, raw) \notin {"ambiguous_delivery", "authentication_stopped"}
    BY <2>1 DEF PositionIsNext, Reason, HasRaw, Resolved
  <2>3. NextOrdinal(events, raw) # PlanLength
    BY <1>1, <2>1, PlanIsNotEmpty DEF PositionIsNext, Ordinals
  <2>. QED
    BY <1>2, <1>3, <2>2, <2>3, TerminalSays DEF TerminalOf
<1>4. CASE pc[op] \in {"started", "answered", "recorded"}
  <2>1. Open(events)
    BY <1>1, <1>4 DEF MemoryInv, RepairMemory
  <2>. QED
    BY <1>2, <1>4, <2>1, TerminalSays DEF TerminalOf
<1>5. CASE pc[op] = "completing"
  <2>1. NeedsCompletion(events, raw) /\ ~Open(events)
    BY <1>1, <1>5, FinishedPosition DEF RepairMemory, NeedsCompletion
  <2>. QED
    BY <1>2, <1>5, <2>1, TerminalSays DEF TerminalOf, NeedsRepair
<1>6. CASE pc[op] = "finished" /\ mem.reason \notin Resolved
  <2>1. /\ StartIsMine /\ ~Open(events) /\ Reason(events, raw) = mem.reason
        /\ mem.reason = "none" => NextOrdinal(events, raw) = mem.ordinal
        /\ ~Marked(events)
    BY <1>1, <1>6, FinishedPosition DEF RepairMemory
  <2>2. mem.reason = "none" => NextOrdinal(events, raw) # PlanLength
    BY <1>1, <2>1, PlanIsNotEmpty DEF Ordinals
  <2>3. MarkerOf(mem.reason) # "none" => NeedsMarker(events, raw)
    BY <2>1 DEF NeedsMarker
  <2>4. NextOrdinal(events, raw) # PlanLength
    BY <1>1, <1>6, <2>1, PositionSays
  <2>5. Reason(events, raw) \in {"ambiguous_delivery", "authentication_stopped"} =>
            NeedsRepair(events, raw)
    BY <2>1, <2>3 DEF NeedsRepair, MarkerOf
  <2>. QED
    BY <1>2, <1>6, <2>1, <2>3, <2>4, <2>5, TerminalSays DEF TerminalOf
<1>. QED
  BY <1>3, <1>4, <1>5, <1>6

-----------------------------------------------------------------------------
(* Repair: what a plan holds *)

FinishRow(op) == RequestFinished(op, TRUE, Start(events))
MarkerRow(op) == Marker(MarkerOf(Reason(events, raw)), op, TRUE, Start(events))
CompletionRow(op) == GenerationCompleted(op, TRUE)

LEMMA Front ==
    ASSUME NEW S, NEW row \in S, NEW rest \in Seq(S)
    PROVE  /\ <<row>> \o rest \in Seq(S) /\ <<row>> \o rest # <<>>
           /\ Head(<<row>> \o rest) = row /\ Tail(<<row>> \o rest) = rest
<1>. DEFINE all == <<row>> \o rest
<1>1. /\ all \in Seq(S) /\ Len(all) = 1 + Len(rest) /\ all[1] = row /\ Len(rest) \in Nat
      /\ \A i \in 1 .. Len(rest) : all[i + 1] = rest[i]
  OBVIOUS
<1>. HIDE DEF all
<1>2. all # <<>>
  BY <1>1
<1>3. Tail(all) \in Seq(S) /\ Len(Tail(all)) = Len(rest)
      /\ \A i \in 1 .. Len(rest) : Tail(all)[i] = rest[i]
  BY <1>1, <1>2, HeadTailProperties
<1>4. Tail(all) = rest
  BY <1>3, SeqEqual
<1>. QED
  BY <1>1, <1>2, <1>4 DEF all

LEMMA IfTyped ==
    ASSUME NEW S, NEW condition, NEW row, condition => row \in S
    PROVE  If(condition, row) \in Seq(S)
BY DEF If

LEMMA NothingInFront ==
    ASSUME NEW S, NEW rest \in Seq(S), NEW condition, NEW row, ~condition
    PROVE  If(condition, row) \o rest = rest /\ rest \o If(condition, row) = rest
BY ConcatEmptySeq DEF If

LEMMA RequiredTyped ==
    ASSUME TypeOK, LedgerInv, NEW op \in Operations
    PROVE  /\ EventsAudit(op) \in Rows /\ RawAudit(op) \in Rows
           /\ NeedsFinish(events, raw) => FinishRow(op) \in Rows
           /\ NeedsMarker(events, raw) => MarkerRow(op) \in Rows
           /\ CompletionRow(op) \in Rows
           /\ RequiredRows(op) \in Seq(Rows)
           /\ RequiredRows(op) = If(NeedsFinish(events, raw), FinishRow(op))
                                 \o If(NeedsMarker(events, raw), MarkerRow(op))
                                 \o If(NeedsCompletion(events, raw), CompletionRow(op))
<1>1. RequestHistory(events) =>
         /\ Start(events).item \in Ordinals /\ Start(events).attempt \in 0 .. MaxAttempts
         /\ Start(events).call \in Nat
  BY LastRow DEF Rows
<1>2. /\ 0 \in Ordinals /\ PlanLength - 1 \in Ordinals /\ 0 \in 0 .. MaxAttempts
  BY PlanIsNotEmpty, RetriesAreNatural DEF Ordinals, MaxAttempts
<1>3. EventsAudit(op) \in Rows /\ RawAudit(op) \in Rows
  BY <1>1, <1>2 DEF EventsAudit, RawAudit, Event, Rows, RawlessOpen, Open
<1>4. NeedsFinish(events, raw) => FinishRow(op) \in Rows
  BY <1>1 DEF NeedsFinish, Open, FinishRow, RequestFinished, Event, Rows
<1>5. NeedsMarker(events, raw) => MarkerRow(op) \in Rows
  <2>1. NeedsMarker(events, raw) =>
          /\ MarkerOf(Reason(events, raw)) \in {"authentication_stopped", "delivery_ambiguous"}
          /\ RequestHistory(events)
    BY DEF NeedsMarker, MarkerOf, Reason, HasRaw
  <2>. QED
    BY <1>1, <2>1 DEF MarkerRow, Marker, Event, Rows
<1>6. CompletionRow(op) \in Rows
  BY <1>2 DEF CompletionRow, GenerationCompleted, Event, Rows
<1>7. RequiredRows(op) = If(NeedsFinish(events, raw), FinishRow(op))
                         \o If(NeedsMarker(events, raw), MarkerRow(op))
                         \o If(NeedsCompletion(events, raw), CompletionRow(op))
  BY DEF RequiredRows, If, FinishRow, MarkerRow, CompletionRow
<1>8. /\ If(NeedsFinish(events, raw), FinishRow(op)) \in Seq(Rows)
      /\ If(NeedsMarker(events, raw), MarkerRow(op)) \in Seq(Rows)
      /\ If(NeedsCompletion(events, raw), CompletionRow(op)) \in Seq(Rows)
  BY <1>4, <1>5, <1>6, IfTyped
<1>9. RequiredRows(op) \in Seq(Rows)
  BY <1>7, <1>8, ConcatProperties
<1>. QED
  BY <1>3, <1>4, <1>5, <1>6, <1>7, <1>9

(* The rows owed, by what is owed first.                                       *)
LEMMA RequiredBy ==
    ASSUME TypeOK, LedgerInv, NEW op \in Operations
    PROVE  /\ NeedsMarker(events, raw) => ~NeedsCompletion(events, raw)
           /\ NeedsFinish(events, raw) =>
                RequiredRows(op) = <<FinishRow(op)>> \o
                    (If(NeedsMarker(events, raw), MarkerRow(op))
                     \o If(NeedsCompletion(events, raw), CompletionRow(op)))
           /\ ~NeedsFinish(events, raw) =>
                RequiredRows(op) = If(NeedsMarker(events, raw), MarkerRow(op))
                                   \o If(NeedsCompletion(events, raw), CompletionRow(op))
           /\ ~NeedsFinish(events, raw) /\ NeedsMarker(events, raw) =>
                RequiredRows(op) = <<MarkerRow(op)>>
           /\ ~NeedsFinish(events, raw) /\ NeedsCompletion(events, raw) =>
                RequiredRows(op) = <<CompletionRow(op)>>
           /\ ~NeedsRepair(events, raw) <=> RequiredRows(op) = <<>>
<1>. DEFINE f == If(NeedsFinish(events, raw), FinishRow(op))
            m == If(NeedsMarker(events, raw), MarkerRow(op))
            c == If(NeedsCompletion(events, raw), CompletionRow(op))
<1>1. /\ RequiredRows(op) = (f \o m) \o c
      /\ f \in Seq(Rows) /\ m \in Seq(Rows) /\ c \in Seq(Rows)
      /\ NeedsFinish(events, raw) => FinishRow(op) \in Rows
  BY RequiredTyped, IfTyped
<1>2. NeedsMarker(events, raw) => ~NeedsCompletion(events, raw)
  BY PositionSays DEF NeedsMarker, NeedsCompletion, MarkerOf, Resolved
<1>3. /\ NeedsFinish(events, raw) => f = <<FinishRow(op)>>
      /\ NeedsMarker(events, raw) => m = <<MarkerRow(op)>>
      /\ NeedsCompletion(events, raw) => c = <<CompletionRow(op)>>
      /\ ~NeedsFinish(events, raw) => f = <<>>
      /\ ~NeedsMarker(events, raw) => m = <<>>
      /\ ~NeedsCompletion(events, raw) => c = <<>>
  BY DEF If
<1>. HIDE DEF f, m, c
<1>4. RequiredRows(op) = f \o (m \o c) /\ m \o c \in Seq(Rows)
  BY <1>1, ConcatAssociative, ConcatProperties
<1>5. /\ f = <<>> => f \o (m \o c) = m \o c
      /\ c = <<>> => m \o c = m
      /\ m = <<>> => m \o c = c
      /\ f \o (m \o c) = <<>> <=> f = <<>> /\ m \o c = <<>>
      /\ m \o c = <<>> <=> m = <<>> /\ c = <<>>
  <2>1. \A s, t \in Seq(Rows) : /\ s = <<>> => s \o t = t
                                /\ t = <<>> => s \o t = s
                                /\ s \o t = <<>> <=> s = <<>> /\ t = <<>>
    BY ConcatEmptySeq, ConcatEqualIffEmpty
  <2>. QED
    BY <1>1, <1>4, <2>1
<1>6. ~NeedsRepair(events, raw) <=> RequiredRows(op) = <<>>
  <2>1. <<FinishRow(op)>> # <<>> /\ <<MarkerRow(op)>> # <<>> /\ <<CompletionRow(op)>> # <<>>
    OBVIOUS
  <2>. QED
    BY <1>3, <1>4, <1>5, <2>1 DEF NeedsRepair
<1>. QED
  BY <1>2, <1>3, <1>4, <1>5, <1>6 DEF m, c

(* The first row of what remains, and what remains behind it.                  *)
LEMMA FirstRemaining ==
    ASSUME TypeOK, LedgerInv, NEW op \in Operations,
           NEW inEvents \in BOOLEAN, NEW inRaw \in BOOLEAN
    PROVE  LET todo == Remains(op, inEvents, inRaw) IN
           /\ todo \in Seq(Rows)
           /\ inEvents => /\ todo # <<>> /\ Head(todo) = EventsAudit(op)
                          /\ Tail(todo) = Remains(op, FALSE, inRaw)
           /\ ~inEvents /\ inRaw => /\ todo # <<>> /\ Head(todo) = RawAudit(op)
                                    /\ Tail(todo) = Remains(op, FALSE, FALSE)
           /\ ~inEvents /\ ~inRaw => todo = RequiredRows(op)
<1>. DEFINE a == If(inEvents, EventsAudit(op))
            b == If(inRaw, RawAudit(op))
            r == RequiredRows(op)
            todo == Remains(op, inEvents, inRaw)
<1>1. /\ a \in Seq(Rows) /\ b \in Seq(Rows) /\ r \in Seq(Rows)
      /\ EventsAudit(op) \in Rows /\ RawAudit(op) \in Rows
  BY RequiredTyped, IfTyped
<1>2. /\ inEvents => a = <<EventsAudit(op)>>
      /\ ~inEvents => a = <<>>
      /\ inRaw => b = <<RawAudit(op)>>
      /\ ~inRaw => b = <<>>
  BY DEF If
<1>3. /\ todo = (a \o b) \o r
      /\ Remains(op, FALSE, inRaw) = (<<>> \o b) \o r
      /\ Remains(op, FALSE, FALSE) = (<<>> \o <<>>) \o r
  BY DEF Remains, If
<1>. HIDE DEF a, b, r, todo
<1>4. /\ <<>> \o b = b /\ <<>> \o r = r /\ b \o r \in Seq(Rows) /\ a \o (b \o r) \in Seq(Rows)
      /\ (a \o b) \o r = a \o (b \o r) /\ <<>> \o (b \o r) = b \o r
  <2>1. /\ \A s \in Seq(Rows) : <<>> \o s = s
        /\ \A s, t \in Seq(Rows) : s \o t \in Seq(Rows)
    BY ConcatEmptySeq, ConcatProperties
  <2>. QED
    BY <1>1, <2>1, ConcatAssociative
<1>5. <<>> \o <<>> = <<>>
  OBVIOUS
<1>6. todo = a \o (b \o r) /\ Remains(op, FALSE, inRaw) = b \o r /\ Remains(op, FALSE, FALSE) = r
  BY <1>3, <1>4, <1>5
<1>7. ASSUME inEvents PROVE /\ todo # <<>> /\ Head(todo) = EventsAudit(op)
                            /\ Tail(todo) = Remains(op, FALSE, inRaw)
  <2>. DEFINE rest == b \o r
  <2>1. todo = <<EventsAudit(op)>> \o rest /\ rest \in Seq(Rows)
    BY <1>2, <1>4, <1>6, <1>7
  <2>. HIDE DEF rest
  <2>2. todo # <<>> /\ Head(todo) = EventsAudit(op) /\ Tail(todo) = rest
    BY <1>1, <2>1, Front
  <2>. QED
    BY <1>6, <2>2 DEF rest
<1>8. ASSUME ~inEvents, inRaw PROVE /\ todo # <<>> /\ Head(todo) = RawAudit(op)
                                    /\ Tail(todo) = Remains(op, FALSE, FALSE)
  <2>1. todo = <<RawAudit(op)>> \o r
    BY <1>2, <1>4, <1>6, <1>8
  <2>2. todo # <<>> /\ Head(todo) = RawAudit(op) /\ Tail(todo) = r
    BY <1>1, <2>1, Front
  <2>. QED
    BY <1>6, <2>2
<1>9. ASSUME ~inEvents, ~inRaw PROVE todo = r
  BY <1>2, <1>4, <1>6, <1>9
<1>. QED
  BY <1>4, <1>6, <1>7, <1>8, <1>9 DEF todo, r

LEMMA PlanRemains ==
    ASSUME TypeOK, LedgerInv, NEW op \in Operations
    PROVE  RecoveryPlan(op) = Remains(op, eventTail, rawTail)
BY DEF RecoveryPlan, TailAudits, Remains, If, EventsAudit, RawAudit, TypeOK

(* The same facts of both ledgers give the same plan.                          *)
LEMMA RequiredShape ==
    ASSUME NEW op
    PROVE  /\ RequiredRows(op) = If(NeedsFinish(events, raw), FinishRow(op))
                                 \o If(NeedsMarker(events, raw), MarkerRow(op))
                                 \o If(NeedsCompletion(events, raw), CompletionRow(op))
           /\ RequiredRows(op)' = If(NeedsFinish(events', raw'), FinishRow(op)')
                                  \o If(NeedsMarker(events', raw'), MarkerRow(op)')
                                  \o If(NeedsCompletion(events', raw'), CompletionRow(op)')
BY DEF RequiredRows, If, FinishRow, MarkerRow, CompletionRow

(* What a recovered row leaves as it is.                                       *)
LEMMA RecoveredSays ==
    ASSUME TypeOK, LedgerInv, NEW op \in Operations, NEW row \in Rows,
           row.kind # "request_started", row.kind = "request_finished" => HasRaw(events, raw),
           events' = Append(events, row), raw' = raw
    PROVE  /\ RequestHistory(events') = RequestHistory(events)
           /\ HasRaw(events', raw') = HasRaw(events, raw)
           /\ Reason(events', raw') = Reason(events, raw)
           /\ NextOrdinal(events', raw') = NextOrdinal(events, raw)
           /\ Open(events') = (Open(events) /\ row.kind # "request_finished")
           /\ Marked(events') = (Marked(events) \/ row.kind \in Stops)
           /\ Completed(events') = (Completed(events) \/ row.kind = "generation_completed")
           /\ Disposition(events', raw') = Disposition(events, raw)
           /\ EventsAudit(op)' = EventsAudit(op) /\ RawAudit(op)' = RawAudit(op)
           /\ CompletionRow(op)' = CompletionRow(op)
           /\ RequestHistory(events) => FinishRow(op)' = FinishRow(op) /\ MarkerRow(op)' = MarkerRow(op)
<1>1. events \in Seq(Rows)
  BY DEF TypeOK
<1>2. /\ RequestHistory(events') = RequestHistory(events)
      /\ RequestHistory(events) => Start(events') = Start(events)
      /\ HasRaw(events', raw') = HasRaw(events, raw)
      /\ Reason(events', raw') = Reason(events, raw)
      /\ NextOrdinal(events', raw') = NextOrdinal(events, raw)
      /\ Open(events') = (Open(events) /\ row.kind # "request_finished")
      /\ Marked(events') = (Marked(events) \/ row.kind \in Stops)
      /\ Completed(events') = (Completed(events) \/ row.kind = "generation_completed")
  BY <1>1, RowSays
<1>3. RawlessOpen(events', raw') = RawlessOpen(events, raw)
  BY <1>2 DEF RawlessOpen
<1>4. Disposition(events', raw') = Disposition(events, raw)
  BY <1>2, <1>3, DispositionSays
<1>5. RawAudit(op)' = RawAudit(op)
  BY <1>2, <1>3 DEF RawAudit, RawlessOpen, Open
<1>6. EventsAudit(op)' = EventsAudit(op) /\ CompletionRow(op)' = CompletionRow(op)
  BY DEF EventsAudit, CompletionRow
<1>7. RequestHistory(events) => FinishRow(op)' = FinishRow(op) /\ MarkerRow(op)' = MarkerRow(op)
  BY <1>2 DEF FinishRow, MarkerRow
<1>. QED
  BY <1>2, <1>4, <1>5, <1>6, <1>7

(* An audit is owed by no ledger.                                              *)
LEMMA RecoveredAudit ==
    ASSUME TypeOK, LedgerInv, NEW op \in Operations, NEW row \in Rows,
           row.kind \in {"tail_recovered_events", "tail_recovered_raw"},
           events' = Append(events, row), raw' = raw
    PROVE  /\ \A x, y \in BOOLEAN : Remains(op, x, y)' = Remains(op, x, y)
           /\ TerminalMarkerCommitted' <=> TerminalMarkerCommitted
<1>1. /\ RequestHistory(events') = RequestHistory(events)
      /\ HasRaw(events', raw') = HasRaw(events, raw)
      /\ Reason(events', raw') = Reason(events, raw)
      /\ NextOrdinal(events', raw') = NextOrdinal(events, raw)
      /\ EventsAudit(op)' = EventsAudit(op) /\ RawAudit(op)' = RawAudit(op)
      /\ CompletionRow(op)' = CompletionRow(op)
      /\ RequestHistory(events) => FinishRow(op)' = FinishRow(op) /\ MarkerRow(op)' = MarkerRow(op)
  BY RecoveredSays
<1>2. /\ Open(events') = Open(events)
      /\ Marked(events') = Marked(events)
      /\ Completed(events') = Completed(events)
  <2>1. row.kind \notin Stops /\ row.kind # "generation_completed" /\ row.kind # "request_finished"
    BY DEF Stops
  <2>2. /\ Open(events) \in BOOLEAN /\ Marked(events) \in BOOLEAN /\ Completed(events) \in BOOLEAN
    BY DEF Open, Marked, Completed, RequestHistory
  <2>3. /\ Open(events') = (Open(events) /\ row.kind # "request_finished")
        /\ Marked(events') = (Marked(events) \/ row.kind \in Stops)
        /\ Completed(events') = (Completed(events) \/ row.kind = "generation_completed")
    BY <2>1, RecoveredSays
  <2>. QED
    BY <2>1, <2>2, <2>3
<1>3. /\ NeedsFinish(events', raw') = NeedsFinish(events, raw)
      /\ NeedsMarker(events', raw') = NeedsMarker(events, raw)
      /\ NeedsCompletion(events', raw') = NeedsCompletion(events, raw)
  BY <1>1, <1>2 DEF NeedsFinish, NeedsMarker, NeedsCompletion
<1>4. If(NeedsFinish(events', raw'), FinishRow(op)') = If(NeedsFinish(events, raw), FinishRow(op))
  BY <1>1, <1>3 DEF If, NeedsFinish, Open
<1>5. NeedsMarker(events, raw) => RequestHistory(events)
  BY DEF NeedsMarker, MarkerOf, Reason, HasRaw
<1>6. If(NeedsMarker(events', raw'), MarkerRow(op)') = If(NeedsMarker(events, raw), MarkerRow(op))
  BY <1>1, <1>3, <1>5 DEF If
<1>7. RequiredRows(op)' = RequiredRows(op)
  BY <1>1, <1>3, <1>4, <1>6, RequiredShape
<1>8. \A x, y \in BOOLEAN : Remains(op, x, y)' = Remains(op, x, y)
  BY <1>1, <1>7 DEF Remains
<1>9. TerminalMarkerCommitted' <=> TerminalMarkerCommitted
  BY <1>1, <1>2, <1>3, TerminalSays DEF TerminalOf, NeedsRepair
<1>. QED
  BY <1>8, <1>9

(* The rows owed are appended in their order, and each is no longer owed.      *)
LEMMA RecoveredOwed ==
    ASSUME TypeOK, LedgerInv, NEW op \in Operations, NEW row \in Rows, NEW rest,
           RequiredRows(op) # <<>>,
           row = Head(RequiredRows(op)), rest = Tail(RequiredRows(op)),
           events' = Append(events, row), raw' = raw
    PROVE  rest = Remains(op, FALSE, FALSE)'
<1>. DEFINE m == If(NeedsMarker(events, raw), MarkerRow(op))
            c == If(NeedsCompletion(events, raw), CompletionRow(op))
            newF == If(NeedsFinish(events', raw'), FinishRow(op)')
            newM == If(NeedsMarker(events', raw'), MarkerRow(op)')
            newC == If(NeedsCompletion(events', raw'), CompletionRow(op)')
<1>1. /\ m \in Seq(Rows) /\ c \in Seq(Rows)
      /\ NeedsMarker(events, raw) => MarkerRow(op) \in Rows
      /\ CompletionRow(op) \in Rows
      /\ NeedsFinish(events, raw) => FinishRow(op) \in Rows
  BY RequiredTyped, IfTyped
<1>2. m \o c \in Seq(Rows)
  BY <1>1, ConcatProperties
<1>3. \/ /\ NeedsFinish(events, raw) /\ row = FinishRow(op) /\ rest = m \o c
      \/ /\ ~NeedsFinish(events, raw) /\ NeedsMarker(events, raw) /\ ~NeedsCompletion(events, raw)
         /\ row = MarkerRow(op) /\ rest = <<>>
      \/ /\ ~NeedsFinish(events, raw) /\ ~NeedsMarker(events, raw) /\ NeedsCompletion(events, raw)
         /\ row = CompletionRow(op) /\ rest = <<>>
  <2>. HIDE DEF m, c
  <2>1. ASSUME NEW x \in Rows, RequiredRows(op) = <<x>> PROVE row = x /\ rest = <<>>
    BY <2>1
  <2>2. ASSUME NeedsFinish(events, raw) PROVE row = FinishRow(op) /\ rest = m \o c
    <3>1. RequiredRows(op) = <<FinishRow(op)>> \o (m \o c)
      BY <2>2, RequiredBy DEF m, c
    <3>. QED
      BY <1>1, <1>2, <2>2, <3>1, Front
  <2>. QED
    BY <1>1, <2>1, <2>2, RequiredBy DEF NeedsRepair
<1>4. /\ FinishRow(op).kind = "request_finished"
      /\ MarkerRow(op).kind = MarkerOf(Reason(events, raw))
      /\ CompletionRow(op).kind = "generation_completed"
  BY DEF FinishRow, MarkerRow, CompletionRow, RequestFinished, Marker, GenerationCompleted, Event
<1>5. NeedsMarker(events, raw) =>
          MarkerOf(Reason(events, raw)) \in Stops /\ RequestHistory(events)
  BY DEF NeedsMarker, MarkerOf, Reason, HasRaw, Stops
<1>6. row.kind # "request_started" /\ (row.kind = "request_finished" => HasRaw(events, raw))
  BY <1>3, <1>4, <1>5 DEF NeedsFinish, Stops
<1>7. /\ RequestHistory(events') = RequestHistory(events)
      /\ HasRaw(events', raw') = HasRaw(events, raw)
      /\ Reason(events', raw') = Reason(events, raw)
      /\ NextOrdinal(events', raw') = NextOrdinal(events, raw)
      /\ CompletionRow(op)' = CompletionRow(op)
      /\ RequestHistory(events) => FinishRow(op)' = FinishRow(op) /\ MarkerRow(op)' = MarkerRow(op)
      /\ Open(events') = (Open(events) /\ row.kind # "request_finished")
      /\ Marked(events') = (Marked(events) \/ row.kind \in Stops)
      /\ Completed(events') = (Completed(events) \/ row.kind = "generation_completed")
  BY <1>6, RecoveredSays
<1>. HIDE DEF m, c, newF, newM, newC
<1>8. /\ ~NeedsFinish(events', raw') => newF = <<>>
      /\ ~NeedsMarker(events', raw') => newM = <<>>
      /\ ~NeedsCompletion(events', raw') => newC = <<>>
  BY DEF If, newF, newM, newC
<1>9. ~NeedsFinish(events', raw') /\ newM \o newC = rest
  <2>1. CASE /\ NeedsFinish(events, raw) /\ row = FinishRow(op) /\ rest = m \o c
    <3>1. /\ ~Open(events')
          /\ Marked(events') <=> Marked(events)
          /\ Completed(events') <=> Completed(events)
      BY <1>4, <1>7, <2>1 DEF Stops
    <3>2. /\ NeedsMarker(events', raw') <=> NeedsMarker(events, raw)
          /\ NeedsCompletion(events', raw') <=> NeedsCompletion(events, raw)
      BY <1>7, <3>1 DEF NeedsMarker, NeedsCompletion
    <3>3. newM = m /\ newC = c
      BY <1>5, <1>7, <3>2 DEF newM, m, newC, c, If
    <3>. QED
      BY <2>1, <3>1, <3>3 DEF NeedsFinish
  <2>2. CASE /\ ~NeedsFinish(events, raw) /\ NeedsMarker(events, raw) /\ ~NeedsCompletion(events, raw)
             /\ row = MarkerRow(op) /\ rest = <<>>
    <3>1. ~NeedsFinish(events', raw')
      BY <1>7, <2>2 DEF NeedsFinish
    <3>2. ~NeedsMarker(events', raw')
      BY <1>4, <1>5, <1>7, <2>2 DEF NeedsMarker
    <3>3. ~NeedsCompletion(events', raw')
      BY <1>7, <2>2 DEF NeedsCompletion
    <3>. QED
      BY <1>8, <2>2, <3>1, <3>2, <3>3
  <2>3. CASE /\ ~NeedsFinish(events, raw) /\ ~NeedsMarker(events, raw) /\ NeedsCompletion(events, raw)
             /\ row = CompletionRow(op) /\ rest = <<>>
    <3>1. ~NeedsFinish(events', raw')
      BY <1>7, <2>3 DEF NeedsFinish
    <3>2. ~NeedsMarker(events', raw')
      BY <1>7, <2>3 DEF NeedsMarker
    <3>3. ~NeedsCompletion(events', raw')
      BY <1>4, <1>7, <2>3 DEF NeedsCompletion
    <3>. QED
      BY <1>8, <2>3, <3>1, <3>2, <3>3
  <2>. QED
    BY <1>3, <2>1, <2>2, <2>3
<1>10. RequiredRows(op)' = (newF \o newM) \o newC
  BY RequiredShape DEF newF, newM, newC
<1>11. /\ newM \in Seq(Rows) /\ newC \in Seq(Rows)
  <2>1. NeedsMarker(events', raw') => MarkerRow(op)' \in Rows
    BY <1>1, <1>5, <1>7 DEF NeedsMarker
  <2>. QED
    BY <1>1, <1>7, <2>1, IfTyped DEF newM, newC
<1>12. Remains(op, FALSE, FALSE)' = (<<>> \o <<>>) \o RequiredRows(op)'
  BY DEF Remains, If
<1>. QED
  <2>1. \A s, t \in Seq(Rows) : (<<>> \o <<>>) \o (s \o t) = s \o t /\ (<<>> \o s) \o t = s \o t
    BY ConcatEmptySeq, ConcatProperties
  <2>2. RequiredRows(op)' = (<<>> \o newM) \o newC
    BY <1>8, <1>9, <1>10
  <2>3. RequiredRows(op)' = newM \o newC
    BY <1>11, <2>1, <2>2
  <2>4. Remains(op, FALSE, FALSE)' = newM \o newC
    BY <1>11, <1>12, <2>1, <2>3
  <2>. QED
    BY <1>9, <2>4

(* A recovered row is what was owed first, and what is owed behind it remains. *)
LEMMA RecoveredRow ==
    ASSUME TypeOK, LedgerInv, NEW op \in Operations, TodoRemains(op),
           mem.disposition = Disposition(events, raw), NEW row, NEW rest,
           mem.todo # <<>>, row = Head(mem.todo), rest = Tail(mem.todo),
           row \in OwedRows,
           events' = Append(events, row), raw' = raw,
           mem'.todo = rest, mem'.disposition = mem.disposition
    PROVE  TodoRemains(op)' /\ mem'.disposition = Disposition(events', raw')
<1>1. PICK inEvents, inRaw \in BOOLEAN :
          /\ mem.todo = Remains(op, inEvents, inRaw)
          /\ inEvents \/ inRaw => ~TerminalMarkerCommitted
  BY DEF TodoRemains
<1>2. /\ row \in Rows /\ row.kind # "request_started"
      /\ row.kind = "request_finished" => HasRaw(events, raw)
  BY DEF OwedRows
<1>3. Disposition(events', raw') = Disposition(events, raw)
  BY <1>2, RecoveredSays
<1>4. CASE inEvents \/ inRaw
  <2>1. \/ row = EventsAudit(op) /\ rest = Remains(op, FALSE, inRaw)
        \/ row = RawAudit(op) /\ rest = Remains(op, FALSE, FALSE)
    BY <1>1, <1>4, FirstRemaining
  <2>2. /\ EventsAudit(op).kind = "tail_recovered_events"
        /\ RawAudit(op).kind = "tail_recovered_raw"
    BY DEF EventsAudit, RawAudit, Event
  <2>3. /\ \A x, y \in BOOLEAN : Remains(op, x, y)' = Remains(op, x, y)
        /\ TerminalMarkerCommitted' <=> TerminalMarkerCommitted
    BY <1>2, <2>1, <2>2, RecoveredAudit
  <2>4. TodoRemains(op)'
    BY <1>1, <1>4, <2>1, <2>3 DEF TodoRemains
  <2>. QED
    BY <1>3, <2>4
<1>5. CASE ~inEvents /\ ~inRaw
  <2>1. mem.todo = RequiredRows(op)
    BY <1>1, <1>5, FirstRemaining
  <2>2. rest = Remains(op, FALSE, FALSE)'
    BY <1>2, <2>1, RecoveredOwed
  <2>. QED
    BY <1>3, <2>2 DEF TodoRemains
<1>. QED
  BY <1>4, <1>5

-----------------------------------------------------------------------------
(* Repair: each operation *)

(* Where the acting operation goes.                                            *)
LEMMA GoesTo ==
    ASSUME IInv, NEW op \in Operations, NEW place, pc' = [pc EXCEPT ![op] = place]
    PROVE  pc'[op] = place
BY DEF IInv, TypeOK

LEMMA StaysThere ==
    ASSUME IInv, NEW op \in Operations, pc' = pc
    PROVE  pc' = [pc EXCEPT ![op] = pc[op]] /\ pc'[op] = pc[op]
BY DEF IInv, TypeOK

(* Nothing that RepairMemory speaks of.                                        *)
Elsewhere == Returned \cup {"new", "locked", "ready", "epoch", "item", "started",
                            "calling", "answered"}

LEMMA ElsewhereMemory ==
    ASSUME NEW op \in Operations, pc'[op] \in Elsewhere
    PROVE  RepairMemory(op)'
BY DEF RepairMemory, Elsewhere, Returned

(* A plan depends on the ledgers only.                                         *)
LEMMA SamePlan ==
    ASSUME events' = events, raw' = raw, NEW op
    PROVE  /\ \A x, y \in BOOLEAN : Remains(op, x, y)' = Remains(op, x, y)
           /\ TerminalMarkerCommitted' <=> TerminalMarkerCommitted
           /\ mem' = mem /\ TodoRemains(op) => TodoRemains(op)'
<1>1. EventsAudit(op)' = EventsAudit(op) /\ RawAudit(op)' = RawAudit(op)
  BY DEF EventsAudit, RawAudit
<1>2. RequiredRows(op)' = RequiredRows(op)
  BY DEF RequiredRows
<1>3. \A x, y \in BOOLEAN : Remains(op, x, y)' = Remains(op, x, y)
  BY <1>1, <1>2 DEF Remains
<1>4. TerminalMarkerCommitted' <=> TerminalMarkerCommitted
  BY DEF TerminalMarkerCommitted
<1>5. mem' = mem /\ TodoRemains(op) => TodoRemains(op)'
  BY <1>3, <1>4 DEF TodoRemains
<1>. QED
  BY <1>3, <1>4, <1>5

LEMMA AcquireLockRepairs ==
    ASSUME IInv, RepairInv, NEW op \in Operations, AcquireLock(op)
    PROVE  RepairInv'
<1>1. /\ pc[op] = "new" /\ UNCHANGED <<ledgers, mem, calls>>
      /\ pc \in [Operations -> Places] /\ \A o \in Operations : pc[o] \in Running => lock = o
      /\ pc' = [pc EXCEPT ![op] = "locked"] \/ pc' = [pc EXCEPT ![op] = "busy"]
  BY DEF AcquireLock, Goto, IInv, TypeOK, SingleMutator
<1>2. /\ events' = events /\ eventTail' = eventTail /\ raw' = raw /\ rawTail' = rawTail
      /\ mem' = mem
  BY <1>1 DEF ledgers
<1>3. TerminalRowsEnd' /\ AlwaysRepairable'
  BY <1>2 DEF RepairInv, TerminalRowsEnd, AlwaysRepairable, TerminalMarkerCommitted
<1>4. \A o \in Operations : pc'[o] = pc[o] \/ pc'[o] \in {"locked", "busy"}
  BY <1>1
<1>5. CompleteReportIsTrue'
  BY <1>2, <1>4 DEF RepairInv, CompleteReportIsTrue
<1>6. \A o \in Operations : RepairMemory(o)'
  BY <1>2, <1>4, SamePlan DEF RepairInv, RepairMemory
<1>. QED
  BY <1>3, <1>5, <1>6 DEF RepairInv

LEMMA PlanRecoveryRepairs ==
    ASSUME IInv, RepairInv, NEW op \in Operations, PlanRecovery(op)
    PROVE  RepairInv'
<1>1. /\ pc[op] = "locked" /\ pc[op] \in Running /\ pc' = [pc EXCEPT ![op] = "planned"]
      /\ (eventTail \/ rawTail) => ~TerminalMarkerCommitted
      /\ events' = events /\ eventTail' = eventTail /\ raw' = raw /\ rawTail' = rawTail
  BY DEF PlanRecovery, Goto, ledgers, Running
<1>2. mem'.todo = RecoveryPlan(op) /\ mem'.disposition = Disposition(events, raw)
  BY DEF PlanRecovery, IInv, TypeOK, Memories
<1>3. pc'[op] = "planned"
  BY <1>1, GoesTo
<1>4. TerminalMarkerCommitted' <=> TerminalMarkerCommitted
  BY <1>1, SamePlan
<1>5. Remains(op, eventTail, rawTail)' = Remains(op, eventTail, rawTail)
  BY <1>1, SamePlan DEF Remains, IInv, TypeOK
<1>6. mem'.todo = Remains(op, eventTail, rawTail)' /\ eventTail' \in BOOLEAN /\ rawTail' \in BOOLEAN
  BY <1>1, <1>2, <1>5, PlanRemains DEF IInv, TypeOK
<1>7. TodoRemains(op)'
  BY <1>1, <1>4, <1>6 DEF TodoRemains
<1>8. RepairMemory(op)'
  BY <1>1, <1>2, <1>3, <1>7 DEF RepairMemory
<1>. QED
  BY <1>1, <1>8, RepairQuiet

LEMMA BeginRepairRepairs ==
    ASSUME IInv, RepairInv, NEW op \in Operations,
           BeginRepair(op) \/ TruncateEvents(op) \/ TruncateRaw(op)
    PROVE  RepairInv'
<1>1. /\ pc[op] \in {"planned", "recovering"} /\ pc[op] \in Running
      /\ events' = events /\ raw' = raw /\ (eventTail' => eventTail) /\ (rawTail' => rawTail)
      /\ mem' = mem
  BY DEF BeginRepair, TruncateEvents, TruncateRaw, Continue, ledgers, Running
<1>2. pc' = [pc EXCEPT ![op] = "recovering"]
  <2>1. BeginRepair(op) => pc' = [pc EXCEPT ![op] = "recovering"]
    BY DEF BeginRepair, Continue, Goto
  <2>2. TruncateEvents(op) \/ TruncateRaw(op) => pc' = pc /\ pc[op] = "recovering"
    BY DEF TruncateEvents, TruncateRaw
  <2>. QED
    BY <2>1, <2>2, StaysThere
<1>3. TodoRemains(op) /\ mem.disposition = Disposition(events, raw)
  BY <1>1 DEF RepairInv, RepairMemory
<1>4. TodoRemains(op)'
  BY <1>1, <1>3, SamePlan
<1>5. RepairMemory(op)'
  <2>1. pc'[op] = "recovering"
    BY <1>2, GoesTo
  <2>2. mem'.disposition = Disposition(events', raw')
    BY <1>1, <1>3
  <2>. QED
    BY <2>1, <2>2, <1>4 DEF RepairMemory
<1>. QED
  BY <1>1, <1>2, <1>5, RepairQuiet

(* Refusing, leaving and dying write nothing.                                  *)
LEMMA ReturnRepairs ==
    ASSUME IInv, RepairInv, NEW op \in Operations, pc[op] \in Running,
           NEW result \in Returned \ {"complete"}, Return(op, result), UNCHANGED ledgers
    PROVE  RepairInv'
<1>1. /\ pc' = [pc EXCEPT ![op] = result]
      /\ events' = events /\ eventTail' = eventTail /\ raw' = raw /\ rawTail' = rawTail
  BY DEF Return, Goto, ledgers
<1>2. RepairMemory(op)'
  BY <1>1, GoesTo, ElsewhereMemory DEF Elsewhere
<1>. QED
  BY <1>1, <1>2, RepairQuiet

(* A repair that ends in a complete report has a completion to report.         *)
LEMMA FinishRepairRepairs ==
    ASSUME IInv, RepairInv, NEW op \in Operations, FinishRepair(op)
    PROVE  RepairInv'
<1>1. /\ pc[op] \in Running /\ Repaired
      /\ events' = events /\ eventTail' = eventTail /\ raw' = raw /\ rawTail' = rawTail
  BY DEF FinishRepair, ledgers, Running
<1>2. PICK place \in {"complete", "operational_stop", "ready"} :
         /\ pc' = [pc EXCEPT ![op] = place]
         /\ place = "complete" => mem.disposition = "complete"
  BY DEF FinishRepair, Return, Goto
<1>3. place = "complete" => Done
  <2>1. place = "complete" => NextOrdinal(events, raw) = PlanLength /\ ~NeedsRepair(events, raw)
    BY <1>1, <1>2, DispositionSays DEF Repaired
  <2>. QED
    BY <1>1, <2>1 DEF Done, Repaired, NeedsRepair, NeedsCompletion
<1>4. RepairMemory(op)'
  BY <1>2, GoesTo, ElsewhereMemory DEF Elsewhere, Returned
<1>. QED
  BY <1>1, <1>2, <1>3, <1>4, RepairQuiet DEF Done

(* What a plan holds is a recovered row that is owed, or the audit of a tail   *)
(* recovery may cut off.                                                       *)
LEMMA PlannedRow ==
    ASSUME TypeOK, LedgerInv, NEW op \in Operations, TodoRemains(op), mem.todo # <<>>
    PROVE  LET row == Head(mem.todo) IN
           /\ row.recovered = TRUE
           /\ ~TerminalMarkerCommitted
           /\ row.kind \in Stops => NeedsMarker(events, raw) /\ ~NeedsFinish(events, raw)
           /\ row.kind = "generation_completed" =>
                 NeedsCompletion(events, raw) /\ ~NeedsFinish(events, raw)
<1>. DEFINE row == Head(mem.todo)
<1>1. PICK inEvents, inRaw \in BOOLEAN :
          /\ mem.todo = Remains(op, inEvents, inRaw)
          /\ inEvents \/ inRaw => ~TerminalMarkerCommitted
  BY DEF TodoRemains
<1>2. /\ EventsAudit(op).kind = "tail_recovered_events"
      /\ RawAudit(op).kind = "tail_recovered_raw"
      /\ FinishRow(op).kind = "request_finished"
      /\ MarkerRow(op).kind = MarkerOf(Reason(events, raw))
      /\ CompletionRow(op).kind = "generation_completed"
      /\ \A r \in {EventsAudit(op), RawAudit(op), FinishRow(op), MarkerRow(op), CompletionRow(op)} :
            r.recovered = TRUE
  BY DEF EventsAudit, RawAudit, FinishRow, MarkerRow, CompletionRow, RequestFinished, Marker,
         GenerationCompleted, Event
<1>3. CASE inEvents \/ inRaw
  <2>1. row = EventsAudit(op) \/ row = RawAudit(op)
    BY <1>1, <1>3, FirstRemaining
  <2>. QED
    BY <1>1, <1>2, <1>3, <2>1 DEF Stops
<1>4. CASE ~inEvents /\ ~inRaw
  <2>1. mem.todo = RequiredRows(op)
    BY <1>1, <1>4, FirstRemaining
  <2>2. NeedsRepair(events, raw)
    BY <2>1, RequiredBy
  <2>3. \/ row = FinishRow(op)
        \/ row = MarkerRow(op) /\ ~NeedsFinish(events, raw) /\ NeedsMarker(events, raw)
        \/ row = CompletionRow(op) /\ ~NeedsFinish(events, raw) /\ NeedsCompletion(events, raw)
    <3>1. NeedsFinish(events, raw) => row = FinishRow(op)
      <4>. DEFINE rest == If(NeedsMarker(events, raw), MarkerRow(op))
                          \o If(NeedsCompletion(events, raw), CompletionRow(op))
      <4>1. /\ If(NeedsMarker(events, raw), MarkerRow(op)) \in Seq(Rows)
            /\ If(NeedsCompletion(events, raw), CompletionRow(op)) \in Seq(Rows)
        BY RequiredTyped, IfTyped
      <4>2. rest \in Seq(Rows)
        BY <4>1, ConcatProperties
      <4>3. NeedsFinish(events, raw) =>
               FinishRow(op) \in Rows /\ mem.todo = <<FinishRow(op)>> \o rest
        BY <2>1, RequiredTyped, RequiredBy
      <4>. HIDE DEF rest
      <4>. QED
        BY <4>2, <4>3, Front
    <3>2. \A x : Head(<<x>>) = x
      OBVIOUS
    <3>. QED
      BY <2>1, <2>2, <3>1, <3>2, RequiredBy DEF NeedsRepair
  <2>4. NeedsMarker(events, raw) => MarkerOf(Reason(events, raw)) \in Stops
    BY DEF NeedsMarker, MarkerOf, Stops
  <2>5. ~TerminalMarkerCommitted
    BY <2>2, TerminalSays DEF TerminalOf
  <2>. QED
    BY <1>2, <2>3, <2>4, <2>5 DEF Stops
<1>. QED
  BY <1>3, <1>4

LEMMA AppendRecoveredRepairs ==
    ASSUME IInv, RepairInv, NEW op \in Operations, AppendRecovered(op)
    PROVE  RepairInv'
<1>. DEFINE row == Head(mem.todo)
            rest == Tail(mem.todo)
<1>1. /\ pc[op] = "recovering" /\ pc[op] \in Running /\ mem.todo # <<>>
      /\ ~eventTail /\ ~rawTail
      /\ raw' = raw /\ rawTail' = rawTail
      /\ mem \in Memories /\ mem.todo \in Seq(OwedRows)
      /\ TypeOK /\ LedgerInv
  BY DEF AppendRecovered, AppendEvent, Running, IInv, TypeOK, MemoryInv, TodoIsOwed
<1>2. row \in OwedRows
  BY <1>1, HeadTailProperties
<1>3. row \in Rows
  BY <1>2 DEF OwedRows
<1>4. TodoRemains(op) /\ mem.disposition = Disposition(events, raw)
  BY <1>1 DEF RepairInv, RepairMemory
<1>5. /\ ~TerminalMarkerCommitted
      /\ row.kind \in Stops => NeedsMarker(events, raw) /\ ~NeedsFinish(events, raw)
      /\ row.kind = "generation_completed" =>
            NeedsCompletion(events, raw) /\ ~NeedsFinish(events, raw)
  BY <1>1, <1>4, PlannedRow
<1>6. NeedsMarker(events, raw) \/ NeedsCompletion(events, raw) => HasRaw(events, raw)
  <2>1. NeedsMarker(events, raw) => Reason(events, raw) # "missing"
    BY DEF NeedsMarker, MarkerOf
  <2>. QED
    BY <1>1, <2>1, PositionSays DEF NeedsCompletion
<1>7. /\ row.kind \in Stops => NeedsMarker(events, raw) /\ ~Open(events)
      /\ row.kind = "generation_completed" => NeedsCompletion(events, raw) /\ ~Open(events)
  BY <1>5, <1>6 DEF NeedsFinish
<1>8. \/ /\ events' = Append(events, row) /\ eventTail' = eventTail
         /\ mem'.todo = rest /\ mem'.disposition = mem.disposition /\ pc' = pc
      \/ /\ \/ events' = Append(events, row) /\ eventTail' = eventTail
            \/ eventTail' = TRUE /\ events' = events
         /\ Return(op, "failed")
  BY <1>1 DEF AppendRecovered, AppendEvent, Memories
<1>. HIDE DEF row, rest
<1>9. CASE /\ events' = Append(events, row) /\ eventTail' = eventTail
           /\ mem'.todo = rest /\ mem'.disposition = mem.disposition /\ pc' = pc
  <2>1. pc' = [pc EXCEPT ![op] = "recovering"] /\ pc'[op] = "recovering"
    BY <1>1, <1>9, StaysThere
  <2>2. TodoRemains(op)' /\ mem'.disposition = Disposition(events', raw')
    <3>1. row = Head(mem.todo) /\ rest = Tail(mem.todo)
      BY DEF row, rest
    <3>. QED
      BY <1>1, <1>2, <1>4, <1>9, <3>1, RecoveredRow
  <2>3. RepairMemory(op)'
    BY <2>1, <2>2 DEF RepairMemory
  <2>. QED
    BY <1>1, <1>3, <1>5, <1>7, <1>9, <2>1, <2>3, RepairWrite
<1>10. CASE /\ \/ events' = Append(events, row) /\ eventTail' = eventTail
               \/ eventTail' = TRUE /\ events' = events
            /\ Return(op, "failed")
  <2>1. pc' = [pc EXCEPT ![op] = "failed"]
    BY <1>10 DEF Return, Goto
  <2>2. RepairMemory(op)'
    BY <2>1, GoesTo, ElsewhereMemory DEF Elsewhere, Returned
  <2>. QED
    BY <1>1, <1>3, <1>5, <1>7, <1>10, <2>1, <2>2, RepairWrite
<1>. QED
  BY <1>8, <1>9, <1>10

(* An event row written by an epoch, by an operation that goes on or ends.     *)
LEMMA EpochWriteRepairs ==
    ASSUME IInv, RepairInv, NEW op \in Operations, NEW place,
           \/ pc[op] \in {"ready", "epoch", "item", "completing"}
           \/ pc[op] = "finished" /\ mem.reason \notin Resolved,
           pc' = [pc EXCEPT ![op] = place],
           place \in Elsewhere, place # "complete" \/ Done',
           NEW row \in Rows, raw' = raw, rawTail' = rawTail,
           \/ events' = Append(events, row) /\ eventTail' = eventTail
           \/ eventTail' = TRUE /\ events' = events,
           row.kind \in Stops => pc[op] = "finished" /\ MarkerOf(mem.reason) # "none",
           row.kind = "generation_completed" => pc[op] = "completing"
    PROVE  RepairInv'
<1>1. pc[op] \in Running
  BY DEF Running
<1>2. RepairMemory(op)'
  BY GoesTo, ElsewhereMemory
<1>3. /\ ~TerminalMarkerCommitted /\ ~eventTail /\ ~rawTail
      /\ pc[op] = "completing" => NeedsCompletion(events, raw) /\ ~Open(events)
      /\ pc[op] = "finished" /\ MarkerOf(mem.reason) # "none" =>
           NeedsMarker(events, raw) /\ ~Open(events)
  BY LivePosition
<1>. QED
  BY <1>1, <1>2, <1>3, RepairWrite

LEMMA StartExecutionRepairs ==
    ASSUME IInv, RepairInv, NEW op \in Operations,
           StartExecution(op) \/ StartRequest(op)
    PROVE  RepairInv'
<1>1. CASE StartExecution(op)
  <2>. DEFINE row == Event("execution_started", op, FALSE, mem.ordinal, 0, 0)
  <2>1. row \in Rows /\ row.kind = "execution_started"
    BY HolderMemory DEF Event, Rows
  <2>. HIDE DEF row
  <2>2. /\ pc[op] = "ready" /\ raw' = raw /\ rawTail' = rawTail
        /\ \/ events' = Append(events, row) /\ eventTail' = eventTail
           \/ eventTail' = TRUE /\ events' = events
        /\ pc' = [pc EXCEPT ![op] = "epoch"] \/ pc' = [pc EXCEPT ![op] = "failed"]
    BY <1>1 DEF StartExecution, AppendEvent, Continue, Return, Goto, row
  <2>. QED
    BY <2>1, <2>2, EpochWriteRepairs DEF Stops, Elsewhere, Returned
<1>2. CASE StartRequest(op)
  <2>. DEFINE row == RequestStarted(op, mem.ordinal, mem.attempt, Len(raw))
  <2>1. row \in Rows /\ row.kind = "request_started"
    BY HolderMemory DEF RequestStarted, Event, Rows, IInv, TypeOK
  <2>. HIDE DEF row
  <2>2. /\ pc[op] = "item" /\ raw' = raw /\ rawTail' = rawTail
        /\ \/ events' = Append(events, row) /\ eventTail' = eventTail
           \/ eventTail' = TRUE /\ events' = events
        /\ pc' = [pc EXCEPT ![op] = "started"] \/ pc' = [pc EXCEPT ![op] = "failed"]
    BY <1>2 DEF StartRequest, AppendEvent, Continue, Return, Goto, row
  <2>. QED
    BY <2>1, <2>2, EpochWriteRepairs DEF Stops, Elsewhere, Returned
<1>. QED
  BY <1>1, <1>2

LEMMA StopRepairs ==
    ASSUME IInv, RepairInv, NEW op \in Operations, Interrupt(op) \/ Block(op)
    PROVE  RepairInv'
<1>. DEFINE interrupted == Event("execution_interrupted", op, FALSE, mem.ordinal, 0, 0)
            blocked == Event("execution_blocked", op, FALSE, 0, 0, 0)
<1>1. /\ interrupted \in Rows /\ interrupted.kind = "execution_interrupted"
      /\ blocked \in Rows /\ blocked.kind = "execution_blocked"
  BY HolderMemory DEF Event, Rows
<1>. HIDE DEF interrupted, blocked
<1>2. \/ pc[op] \in {"ready", "epoch", "item", "completing"}
      \/ pc[op] = "finished" /\ mem.reason \notin Resolved
  BY DEF Interrupt, Block, Resolved
<1>3. PICK row \in {interrupted, blocked} :
        /\ raw' = raw /\ rawTail' = rawTail
        /\ \/ events' = Append(events, row) /\ eventTail' = eventTail
           \/ eventTail' = TRUE /\ events' = events
        /\ pc' = [pc EXCEPT ![op] = "operational_stop"] \/ pc' = [pc EXCEPT ![op] = "failed"]
  BY DEF Interrupt, Block, AppendEvent, Return, Goto, interrupted, blocked
<1>. QED
  BY <1>1, <1>2, <1>3, EpochWriteRepairs DEF Stops, Elsewhere, Returned

LEMMA EndRepairs ==
    ASSUME IInv, RepairInv, NEW op \in Operations, MarkStop(op) \/ CompleteGeneration(op)
    PROVE  RepairInv'
<1>1. CASE MarkStop(op)
  <2>. DEFINE row == Marker(MarkerOf(mem.reason), op, FALSE, Start(events))
  <2>1. pc[op] = "finished" /\ MarkerOf(mem.reason) # "none"
    BY <1>1 DEF MarkStop
  <2>2. Start(events) \in Rows
    BY <2>1, LastRow, FinishedPosition DEF IInv, StartIsMine
  <2>3. MarkerOf(mem.reason) \in Stops /\ mem.reason \notin Resolved
    BY <2>1 DEF MarkerOf, Stops, Resolved
  <2>4. row \in Rows /\ row.kind \in Stops
    BY <2>2, <2>3, HolderMemory DEF Marker, Event, Rows, Stops
  <2>. HIDE DEF row
  <2>5. /\ raw' = raw /\ rawTail' = rawTail
        /\ \/ events' = Append(events, row) /\ eventTail' = eventTail
           \/ eventTail' = TRUE /\ events' = events
        /\ pc' = [pc EXCEPT ![op] = "operational_stop"] \/ pc' = [pc EXCEPT ![op] = "failed"]
    BY <1>1 DEF MarkStop, AppendEvent, Return, Goto, row
  <2>. QED
    BY <2>1, <2>3, <2>4, <2>5, EpochWriteRepairs DEF Stops, Elsewhere, Returned
<1>2. CASE CompleteGeneration(op)
  <2>. DEFINE row == GenerationCompleted(op, FALSE)
  <2>1. row \in Rows /\ row.kind = "generation_completed"
    BY HolderMemory DEF GenerationCompleted, Event, Rows
  <2>. HIDE DEF row
  <2>2. /\ pc[op] = "completing" /\ raw' = raw /\ rawTail' = rawTail
        /\ \/ /\ events' = Append(events, row) /\ eventTail' = eventTail
              /\ pc' = [pc EXCEPT ![op] = "complete"]
           \/ /\ \/ events' = Append(events, row) /\ eventTail' = eventTail
                 \/ eventTail' = TRUE /\ events' = events
              /\ pc' = [pc EXCEPT ![op] = "failed"]
    BY <1>2 DEF CompleteGeneration, AppendEvent, Return, Goto, row
  <2>3. events' = Append(events, row) => Completed(events')
    BY <2>1, RowSays DEF IInv, TypeOK
  <2>4. ~eventTail /\ ~rawTail
    BY <2>2, LivePosition
  <2>5. row.kind \notin Stops /\ {"complete", "failed"} \subseteq Elsewhere
    BY <2>1 DEF Stops, Elsewhere, Returned
  <2>6. CASE pc' = [pc EXCEPT ![op] = "complete"] /\ events' = Append(events, row)
             /\ eventTail' = eventTail
    <3>1. Done'
      BY <2>2, <2>3, <2>4, <2>6 DEF Done
    <3>. QED
      BY <2>1, <2>2, <2>5, <2>6, <3>1, EpochWriteRepairs
  <2>7. CASE pc' = [pc EXCEPT ![op] = "failed"]
    BY <2>1, <2>2, <2>5, <2>7, EpochWriteRepairs
  <2>. QED
    BY <2>2, <2>6, <2>7
<1>. QED
  BY <1>1, <1>2

(* After a finish the ledger is neither marked nor completed.                  *)
LEMMA FinishRequestRepairs ==
    ASSUME IInv, RepairInv, NEW op \in Operations, FinishRequest(op)
    PROVE  RepairInv'
<1>. DEFINE row == RequestFinished(op, FALSE, Start(events))
<1>1. pc[op] = "recorded" /\ pc[op] \in Running /\ TypeOK /\ LedgerInv
  BY DEF FinishRequest, Running, IInv
<1>2. Start(events) \in Rows
  BY <1>1, LastRow, HolderMemory DEF IInv, MemoryInv, StartIsMine
<1>3. row \in Rows /\ row.kind = "request_finished"
  BY <1>2 DEF RequestFinished, Event, Rows
<1>. HIDE DEF row
<1>4. /\ raw' = raw /\ rawTail' = rawTail
      /\ \/ /\ events' = Append(events, row) /\ eventTail' = eventTail
            /\ pc' = [pc EXCEPT ![op] = "finished"]
         \/ /\ \/ events' = Append(events, row) /\ eventTail' = eventTail
               \/ eventTail' = TRUE /\ events' = events
            /\ pc' = [pc EXCEPT ![op] = "failed"]
  BY DEF FinishRequest, AppendEvent, Continue, Return, Goto, row
<1>5. ~TerminalMarkerCommitted /\ ~eventTail /\ ~rawTail
  BY <1>1, LivePosition
<1>6. ~Marked(events) /\ ~Completed(events)
  BY <1>1, <1>5, NoTerminalRow DEF RepairInv
<1>7. events' = Append(events, row) => ~Marked(events') /\ ~Completed(events')
  <2>1. row.kind \notin Stops
    BY <1>3 DEF Stops
  <2>2. events \in Seq(Rows)
    BY <1>1 DEF TypeOK
  <2>3. /\ Marked(Append(events, row)) = (Marked(events) \/ row.kind \in Stops)
        /\ Completed(Append(events, row)) = (Completed(events) \/ row.kind = "generation_completed")
    BY <1>3, <2>2, RowSays
  <2>. QED
    BY <1>3, <1>6, <2>1, <2>3
<1>8. row.kind \notin Stops
  BY <1>3 DEF Stops
<1>9. CASE events' = Append(events, row) /\ pc' = [pc EXCEPT ![op] = "finished"]
  <2>1. pc'[op] = "finished"
    BY <1>9, GoesTo
  <2>2. RepairMemory(op)'
    BY <1>7, <1>9, <2>1 DEF RepairMemory
  <2>. QED
    BY <1>1, <1>3, <1>4, <1>5, <1>8, <1>9, <2>2, RepairWrite
<1>10. CASE pc' = [pc EXCEPT ![op] = "failed"]
  <2>1. RepairMemory(op)'
    BY <1>10, GoesTo, ElsewhereMemory DEF Elsewhere, Returned
  <2>. QED
    BY <1>1, <1>3, <1>4, <1>5, <1>8, <1>10, <2>1, RepairWrite
<1>. QED
  BY <1>4, <1>9, <1>10

(* The raw row of an open request marks and completes nothing.                 *)
LEMMA RecordAttemptRepairs ==
    ASSUME IInv, RepairInv, NEW op \in Operations, RecordAttempt(op)
    PROVE  RepairInv'
<1>1. /\ pc[op] = "answered" /\ pc[op] \in Running /\ TypeOK /\ LedgerInv
      /\ events' = events /\ eventTail' = eventTail
      /\ raw' = raw \/ raw' # raw
  BY DEF RecordAttempt, AppendRaw, Running, IInv
<1>2. Open(events)
  BY <1>1, HolderMemory DEF MemoryInv
<1>3. ~Marked(events) /\ ~Completed(events)
  BY <1>1, <1>2 DEF RepairInv, TerminalRowsEnd
<1>4. TerminalRowsEnd' /\ AlwaysRepairable'
  BY <1>1, <1>2, <1>3 DEF TerminalRowsEnd, AlwaysRepairable, TerminalMarkerCommitted
<1>5. PICK place \in {"recorded", "failed"} : pc' = [pc EXCEPT ![op] = place]
  BY DEF RecordAttempt, AppendRaw, Continue, Return, Goto
<1>6. RepairMemory(op)'
  <2>1. pc'[op] = place /\ Open(events')
    BY <1>1, <1>2, <1>5, GoesTo
  <2>. QED
    BY <2>1 DEF RepairMemory
<1>. QED
  BY <1>1, <1>3, <1>4, <1>5, <1>6, RepairFrame DEF Done

(* Steps of an epoch that write nothing.                                       *)
LEMMA SilentRepairs ==
    ASSUME IInv, RepairInv, NEW op \in Operations,
           BindProvider(op) \/ CallProvider(op) \/ ProviderReturns(op) \/ NextItem(op) \/ Backoff(op)
    PROVE  RepairInv'
<1>1. /\ pc[op] \in Running
      /\ events' = events /\ eventTail' = eventTail /\ raw' = raw /\ rawTail' = rawTail
  BY DEF BindProvider, CallProvider, ProviderReturns, NextItem, Backoff, Continue, ledgers, Running
<1>2. PICK place \in {"item", "calling", "answered", "completing"} :
        /\ pc' = [pc EXCEPT ![op] = place]
        /\ place = "completing" => pc[op] = "finished"
  <2>1. BindProvider(op) => pc' = [pc EXCEPT ![op] = "item"]
    BY DEF BindProvider, Continue, Goto
  <2>2. CallProvider(op) => pc' = [pc EXCEPT ![op] = "calling"]
    BY DEF CallProvider, Continue, Goto
  <2>3. ProviderReturns(op) => pc' = [pc EXCEPT ![op] = "answered"]
    BY DEF ProviderReturns, Goto
  <2>4. NextItem(op) => /\ pc[op] = "finished"
                        /\ pc' = [pc EXCEPT ![op] = "completing"] \/ pc' = [pc EXCEPT ![op] = "item"]
    BY DEF NextItem, Continue, Goto
  <2>5. Backoff(op) => pc' = [pc EXCEPT ![op] = "item"]
    BY DEF Backoff, Goto
  <2>. QED
    BY <2>1, <2>2, <2>3, <2>4, <2>5
<1>3. pc'[op] = place
  BY <1>2, GoesTo
<1>4. RepairMemory(op)'
  BY <1>1, <1>2, <1>3 DEF RepairInv, RepairMemory
<1>. QED
  BY <1>1, <1>2, <1>4, RepairQuiet

LEMMA StepRepairs ==
    ASSUME IInv, RepairInv, NEW op \in Operations, Step(op) \/ Fail(op)
    PROVE  RepairInv'
<1>1. CASE RefuseRuntime(op) \/ LeaveAmbiguous(op) \/ Fail(op)
  <2>1. /\ pc[op] \in Running /\ UNCHANGED ledgers
        /\ Return(op, "refused") \/ Return(op, "operational_stop") \/ Return(op, "failed")
    BY <1>1 DEF RefuseRuntime, LeaveAmbiguous, Fail, Running
  <2>. QED
    BY <2>1, ReturnRepairs DEF Returned
<1>. QED
  BY <1>1, AcquireLockRepairs, PlanRecoveryRepairs, BeginRepairRepairs, AppendRecoveredRepairs,
     FinishRepairRepairs, StartExecutionRepairs, StopRepairs, EndRepairs, FinishRequestRepairs,
     RecordAttemptRepairs, SilentRepairs
     DEF Step, Advance, Recover, Execute, Stop

LEMMA InitRepairs == Init => RepairInv
<1>. SUFFICES ASSUME Init PROVE RepairInv
  OBVIOUS
<1>1. TypeOK /\ \A op \in Operations : pc[op] = "new"
  BY InitInv DEF IInv, Init
<1>2. events = <<Prepared>> /\ Prepared.kind = "prepared"
  BY DEF Init, Prepared, Event
<1>3. ~Marked(events) /\ ~Completed(events)
  <2>1. \A K : "prepared" \notin K => IsLast(events, K, 0)
    BY <1>2 DEF IsLast
  <2>2. "prepared" \notin Stops /\ "prepared" \notin {"generation_completed"}
    BY DEF Stops
  <2>3. Last(events, Stops) = 0 /\ Last(events, {"generation_completed"}) = 0
    BY <1>1, <2>1, <2>2, LastIsIt DEF TypeOK
  <2>. QED
    BY <2>3 DEF Marked, Completed
<1>4. TerminalRowsEnd /\ AlwaysRepairable /\ CompleteReportIsTrue
  BY <1>1, <1>3 DEF Init, TerminalRowsEnd, AlwaysRepairable, CompleteReportIsTrue
<1>5. \A op \in Operations : RepairMemory(op)
  BY <1>1 DEF RepairMemory
<1>. QED
  BY <1>4, <1>5 DEF RepairInv

-----------------------------------------------------------------------------
(* Repair: theorems *)

(* As long as no power is lost: what holds of the journal.                     *)
LossFree == losses = 0 => IInv /\ RepairInv

LEMMA LossFreeNext == losses \in Nat /\ LossFree /\ [DNext]_dvars => (losses \in Nat /\ LossFree)'
<1>. SUFFICES ASSUME losses \in Nat, LossFree, [DNext]_dvars PROVE (losses \in Nat /\ LossFree)'
  OBVIOUS
<1>1. CASE PowerLoss
  BY <1>1 DEF PowerLoss, LossFree
<1>2. ASSUME NEW op \in Operations, DStep(op) PROVE (losses \in Nat /\ LossFree)'
  <2>1. losses' = losses /\ (Step(op) \/ Fail(op))
    BY <1>2 DEF DStep
  <2>2. losses = 0 => IInv'
    BY <2>1, NextInv DEF LossFree, Next
  <2>3. losses = 0 => RepairInv'
    BY <2>1, StepRepairs DEF LossFree
  <2>. QED
    BY <2>1, <2>2, <2>3 DEF LossFree
<1>3. CASE UNCHANGED dvars
  <2>1. UNCHANGED vars /\ losses' = losses
    BY <1>3 DEF dvars
  <2>2. losses = 0 => IInv'
    BY <2>1, StutterStep DEF LossFree
  <2>3. /\ events' = events /\ eventTail' = eventTail /\ raw' = raw /\ rawTail' = rawTail
        /\ pc' = pc /\ mem' = mem
    BY <2>1 DEF vars
  <2>4. losses = 0 => RepairInv'
    <3>1. losses = 0 => TerminalRowsEnd' /\ AlwaysRepairable' /\ CompleteReportIsTrue'
      BY <2>3 DEF LossFree, RepairInv, TerminalRowsEnd, AlwaysRepairable, CompleteReportIsTrue,
                  TerminalMarkerCommitted
    <3>2. losses = 0 => \A op \in Operations : RepairMemory(op)'
      BY <2>3, SamePlan DEF LossFree, RepairInv, RepairMemory
    <3>. QED
      BY <3>1, <3>2 DEF RepairInv
  <2>. QED
    BY <2>1, <2>2, <2>4 DEF LossFree
<1>. QED
  BY <1>1, <1>2, <1>3 DEF DNext

(* As long as no power is lost, the invariants of the journal and of repair    *)
(* hold in every reachable state.                                              *)
THEOREM JournalWithoutLoss == DSpec => [](losses \in Nat /\ LossFree)
<1>1. DInit => losses \in Nat /\ LossFree
  BY InitInv, InitRepairs DEF DInit, LossFree
<1>. QED
  BY <1>1, LossFreeNext, PTL DEF DSpec

(* The plan made before the first repair write repairs everything, no crash    *)
(* leaves a fragment that recovery may not cut off, and a complete report is   *)
(* a durable one, as long as no power is lost.                                 *)
THEOREM RepairsSucceed == DSpec => []RepairSucceeds
<1>1. LossFree => RepairSucceeds
  <2>. SUFFICES ASSUME IInv, RepairInv PROVE PlanRepairsAll
    BY DEF LossFree, RepairSucceeds, RepairInv
  <2>. SUFFICES ASSUME NEW op \in Operations, pc[op] = "recovering", ~eventTail, ~rawTail,
                       mem.todo = <<>>
                PROVE  Repaired
    BY DEF PlanRepairsAll
  <2>1. TypeOK /\ LedgerInv /\ TodoRemains(op) /\ mem.disposition = Disposition(events, raw)
    BY DEF IInv, RepairInv, RepairMemory
  <2>2. RequiredRows(op) = <<>>
    BY <2>1, FirstRemaining DEF TodoRemains
  <2>. QED
    BY <2>1, <2>2, RequiredBy DEF Repaired
<1>. QED
  BY <1>1, JournalWithoutLoss, PTL

-----------------------------------------------------------------------------
(* The acceptors read a ledger row by row *)

LEMMA ReplayStatesAre ==
    ASSUME NEW ev, NEW rw, Len(ev) \in Nat
    PROVE  /\ Len(ev) >= 1 => H!ReplayStates(ev, rw)[1] = H!HistoryInit
           /\ \A n \in 2 .. Len(ev) :
                 H!ReplayStates(ev, rw)[n] = H!HistoryStep(H!ReplayStates(ev, rw)[n - 1], ev[n], rw)
<1>. DEFINE N == Len(ev)
            Good(m, f) == f = [n \in 1 .. m |-> IF n = 1 THEN H!HistoryInit
                                                ELSE H!HistoryStep(f[n - 1], ev[n], rw)]
            T == { m \in 0 .. N : \E f : Good(m, f) }
<1>1. 0 \in T
  <2>. DEFINE f == [n \in 1 .. 0 |-> H!HistoryInit]
  <2>1. Good(0, f)
    OBVIOUS
  <2>. HIDE DEF Good
  <2>. QED
    BY <2>1
<1>2. ASSUME NEW m \in 0 .. N - 1, m \in T
      PROVE  m + 1 \in T
  <2>1. PICK f : Good(m, f)
    BY <1>2
  <2>. DEFINE h == [n \in 1 .. m + 1 |->
                      IF n = m + 1
                      THEN IF n = 1 THEN H!HistoryInit ELSE H!HistoryStep(f[m], ev[m + 1], rw)
                      ELSE f[n]]
  <2>2. \A n \in 1 .. m + 1 :
            h[n] = IF n = 1 THEN H!HistoryInit ELSE H!HistoryStep(h[n - 1], ev[n], rw)
    <3>. SUFFICES ASSUME NEW n \in 1 .. m + 1
                  PROVE  h[n] = IF n = 1 THEN H!HistoryInit
                                ELSE H!HistoryStep(h[n - 1], ev[n], rw)
      OBVIOUS
    <3>1. CASE n = m + 1
      BY <3>1
    <3>2. CASE n \in 1 .. m
      <4>1. h[n] = f[n] /\ (n # 1 => h[n - 1] = f[n - 1])
        BY <3>2
      <4>2. f[n] = IF n = 1 THEN H!HistoryInit ELSE H!HistoryStep(f[n - 1], ev[n], rw)
        BY <2>1, <3>2
      <4>. QED
        BY <4>1, <4>2
    <3>. QED
      BY <3>1, <3>2
  <2>3. Good(m + 1, h)
    <3>. HIDE DEF h
    <3>1. h = [n \in 1 .. m + 1 |-> h[n]]
      BY DEF h
    <3>. QED
      BY <2>2, <3>1
  <2>. HIDE DEF Good, h
  <2>. QED
    BY <2>3
<1>3. N \in T
  <2>. HIDE DEF T
  <2>1. \A m \in 0 .. N - 1 : m \in T => m + 1 \in T
    BY <1>2
  <2>2. N \in Nat /\ 0 \in Nat
    OBVIOUS
  <2>. HIDE DEF N
  <2>3. \A m \in 0 .. N : m \in T
    BY <1>1, <2>1, <2>2, UpTo
  <2>. QED
    BY <2>2, <2>3
<1>4. \E f : f = [n \in 1 .. Len(ev) |-> IF n = 1 THEN H!HistoryInit
                                         ELSE H!HistoryStep(f[n - 1], ev[n], rw)]
  BY <1>3
<1>5. H!ReplayStates(ev, rw) =
        [n \in 1 .. Len(ev) |-> IF n = 1 THEN H!HistoryInit
                                ELSE H!HistoryStep(H!ReplayStates(ev, rw)[n - 1], ev[n], rw)]
  BY <1>4, Zenon DEF H!ReplayStates
<1>. QED
  BY <1>5

LEMMA EventStatesAre ==
    ASSUME NEW ev, Len(ev) \in Nat
    PROVE  /\ Len(ev) >= 1 => H!EventStates(ev)[1] = H!EventInit
           /\ \A n \in 2 .. Len(ev) :
                 H!EventStates(ev)[n] = H!EventStep(H!EventStates(ev)[n - 1], ev[n])
<1>. DEFINE N == Len(ev)
            Good(m, f) == f = [n \in 1 .. m |-> IF n = 1 THEN H!EventInit
                                                ELSE H!EventStep(f[n - 1], ev[n])]
            T == { m \in 0 .. N : \E f : Good(m, f) }
<1>1. 0 \in T
  <2>. DEFINE f == [n \in 1 .. 0 |-> H!EventInit]
  <2>1. Good(0, f)
    OBVIOUS
  <2>. HIDE DEF Good
  <2>. QED
    BY <2>1
<1>2. ASSUME NEW m \in 0 .. N - 1, m \in T
      PROVE  m + 1 \in T
  <2>1. PICK f : Good(m, f)
    BY <1>2
  <2>. DEFINE h == [n \in 1 .. m + 1 |->
                      IF n = m + 1
                      THEN IF n = 1 THEN H!EventInit ELSE H!EventStep(f[m], ev[m + 1])
                      ELSE f[n]]
  <2>2. \A n \in 1 .. m + 1 :
            h[n] = IF n = 1 THEN H!EventInit ELSE H!EventStep(h[n - 1], ev[n])
    <3>. SUFFICES ASSUME NEW n \in 1 .. m + 1
                  PROVE  h[n] = IF n = 1 THEN H!EventInit
                                ELSE H!EventStep(h[n - 1], ev[n])
      OBVIOUS
    <3>1. CASE n = m + 1
      BY <3>1
    <3>2. CASE n \in 1 .. m
      <4>1. h[n] = f[n] /\ (n # 1 => h[n - 1] = f[n - 1])
        BY <3>2
      <4>2. f[n] = IF n = 1 THEN H!EventInit ELSE H!EventStep(f[n - 1], ev[n])
        BY <2>1, <3>2
      <4>. QED
        BY <4>1, <4>2
    <3>. QED
      BY <3>1, <3>2
  <2>3. Good(m + 1, h)
    <3>. HIDE DEF h
    <3>1. h = [n \in 1 .. m + 1 |-> h[n]]
      BY DEF h
    <3>. QED
      BY <2>2, <3>1
  <2>. HIDE DEF Good, h
  <2>. QED
    BY <2>3
<1>3. N \in T
  <2>. HIDE DEF T
  <2>1. \A m \in 0 .. N - 1 : m \in T => m + 1 \in T
    BY <1>2
  <2>2. N \in Nat /\ 0 \in Nat
    OBVIOUS
  <2>. HIDE DEF N
  <2>3. \A m \in 0 .. N : m \in T
    BY <1>1, <2>1, <2>2, UpTo
  <2>. QED
    BY <2>2, <2>3
<1>4. \E f : f = [n \in 1 .. Len(ev) |-> IF n = 1 THEN H!EventInit
                                         ELSE H!EventStep(f[n - 1], ev[n])]
  BY <1>3
<1>5. H!EventStates(ev) =
        [n \in 1 .. Len(ev) |-> IF n = 1 THEN H!EventInit
                                ELSE H!EventStep(H!EventStates(ev)[n - 1], ev[n])]
  BY <1>4, Zenon DEF H!EventStates
<1>. QED
  BY <1>5

(* One more row is one more step from the state before it.                     *)
HS(ev, rw) == H!ReplayStates(ev, rw)[Len(ev)]
ES(ev) == H!EventStates(ev)[Len(ev)]

LEMMA StatesStep ==
    ASSUME NEW ev, NEW rw, Len(ev) \in Nat, NEW n \in 1 .. Len(ev) - 1
    PROVE  /\ H!ReplayStates(ev, rw)[n + 1] = H!HistoryStep(H!ReplayStates(ev, rw)[n], ev[n + 1], rw)
           /\ H!EventStates(ev)[n + 1] = H!EventStep(H!EventStates(ev)[n], ev[n + 1])
<1>1. n + 1 \in 2 .. Len(ev) /\ (n + 1) - 1 = n
  OBVIOUS
<1>. DEFINE k == n + 1
<1>2. k \in 2 .. Len(ev) /\ k - 1 = n
  BY <1>1
<1>. HIDE DEF k
<1>3. H!ReplayStates(ev, rw)[k] = H!HistoryStep(H!ReplayStates(ev, rw)[n], ev[k], rw)
  BY <1>2, ReplayStatesAre
<1>4. H!EventStates(ev)[k] = H!EventStep(H!EventStates(ev)[n], ev[k])
  BY <1>2, EventStatesAre
<1>. QED
  BY <1>3, <1>4 DEF k

LEMMA StatesOfAppend ==
    ASSUME NEW ev \in Seq(Rows), NEW rw, NEW row \in Rows, ev # <<>>
    PROVE  /\ HS(Append(ev, row), rw) = H!HistoryStep(HS(ev, rw), row, rw)
           /\ ES(Append(ev, row)) = H!EventStep(ES(ev), row)
<1>. DEFINE new == Append(ev, row)
            T == { n \in 1 .. Len(ev) : /\ H!ReplayStates(new, rw)[n] = H!ReplayStates(ev, rw)[n]
                                        /\ H!EventStates(new)[n] = H!EventStates(ev)[n] }
            N == Len(ev)
<1>1. /\ Len(ev) \in Nat /\ Len(ev) >= 1 /\ Len(new) = Len(ev) + 1 /\ new[Len(ev) + 1] = row
      /\ \A n \in 1 .. Len(ev) : new[n] = ev[n]
  OBVIOUS
<1>. HIDE DEF new
<1>2. 1 \in T
  BY <1>1, ReplayStatesAre, EventStatesAre
<1>3. ASSUME NEW n \in 1 .. N - 1, n \in T PROVE n + 1 \in T
  <2>1. n \in 1 .. Len(new) - 1 /\ n \in 1 .. Len(ev) - 1 /\ new[n + 1] = ev[n + 1]
        /\ Len(new) \in Nat
    BY <1>1
  <2>2. /\ H!ReplayStates(new, rw)[n + 1] = H!HistoryStep(H!ReplayStates(new, rw)[n], new[n + 1], rw)
        /\ H!EventStates(new)[n + 1] = H!EventStep(H!EventStates(new)[n], new[n + 1])
    BY <2>1, StatesStep
  <2>3. /\ H!ReplayStates(ev, rw)[n + 1] = H!HistoryStep(H!ReplayStates(ev, rw)[n], ev[n + 1], rw)
        /\ H!EventStates(ev)[n + 1] = H!EventStep(H!EventStates(ev)[n], ev[n + 1])
    BY <1>1, <2>1, StatesStep
  <2>. QED
    BY <1>1, <1>3, <2>1, <2>2, <2>3
<1>4. N \in T
  <2>1. N \in Nat /\ N >= 1 /\ 1 \in Nat
    BY <1>1
  <2>. HIDE DEF T, N
  <2>2. \A n \in 1 .. N : n \in T
    BY <1>2, <1>3, <2>1, UpTo
  <2>. QED
    BY <2>1, <2>2
<1>5. /\ H!ReplayStates(new, rw)[N + 1] = H!HistoryStep(H!ReplayStates(new, rw)[N], new[N + 1], rw)
      /\ H!EventStates(new)[N + 1] = H!EventStep(H!EventStates(new)[N], new[N + 1])
  <2>1. N \in 1 .. Len(new) - 1 /\ Len(new) \in Nat
    BY <1>1
  <2>. QED
    BY <2>1, StatesStep
<1>6. HS(new, rw) = H!HistoryStep(HS(ev, rw), row, rw) /\ ES(new) = H!EventStep(ES(ev), row)
  BY <1>1, <1>4, <1>5 DEF HS, ES
<1>. QED
  BY <1>6 DEF new

-----------------------------------------------------------------------------
(* What one accepted row does to the states of the acceptors *)

HFields == DOMAIN H!HistoryInit
EFields == DOMAIN H!EventInit

LEMMA FieldsAre ==
    /\ HFields = {"ok", "epoch", "hadCall", "open", "start", "startOp", "reason", "finished",
                  "finishOp", "pending", "completion", "suffix", "repair", "phase", "execution",
                  "request", "blocked", "recovered", "ambiguity", "auth", "ordinal", "attempt",
                  "call", "taken", "seen"}
    /\ EFields = {"ok", "epoch", "resume", "hadCall", "open", "start", "lastStart", "lastFinish",
                  "finishOp", "startOp", "repair", "phase", "suffix", "call", "seen"}
BY DEF HFields, EFields, H!HistoryInit, H!EventInit

(* What is read of the raw ledger and of starts.                               *)
SameReading(s, t) ==
    /\ t.taken = s.taken /\ t.request = s.request /\ t.call = s.call
    /\ t.start = s.start /\ t.startOp = s.startOp
    /\ t.ordinal = s.ordinal /\ t.attempt = s.attempt
    /\ t.auth = s.auth /\ t.ambiguity = s.ambiguity
SameEnd(s, t) ==
    /\ t.open = s.open /\ t.finished = s.finished /\ t.finishOp = s.finishOp
    /\ t.pending = s.pending /\ t.completion = s.completion /\ t.suffix = s.suffix
SameCalls(s, t) ==
    t.hadCall = s.hadCall /\ t.open = s.open /\ t.start = s.start /\ t.startOp = s.startOp
    /\ t.finishOp = s.finishOp /\ t.call = s.call
SameRepair(s, t) == t.repair = s.repair /\ t.phase = s.phase /\ t.seen = s.seen

(* The phase from which a repair of op goes on.                                *)
From(s, op) == IF s.repair = op THEN s.phase ELSE 0
Known(s, e) == e.op = s.repair \/ e.op \notin s.seen
MayRepair(s, e) == Known(s, e) /\ H!PhaseAllows(From(s, e.op), e.kind)

LEMMA StartedSays ==
    ASSUME NEW s, DOMAIN s = HFields, s.ok, ~s.suffix, NEW e, NEW rw,
           e.kind = "execution_started",
           s.open = "none", s.pending = "none", ~s.completion, s.ordinal # PlanLength,
           Known(s, e), e.item = s.ordinal
    PROVE  LET t == H!HistoryStep(s, e, rw) IN
           /\ DOMAIN t = HFields /\ t.ok /\ SameReading(s, t) /\ SameEnd(s, t)
           /\ t.execution = TRUE /\ t.blocked = FALSE /\ t.seen = s.seen \cup {e.op}
           /\ t.repair = NoOperation /\ t.phase = 0 /\ t.epoch = e.op /\ t.hadCall = FALSE
BY FieldsAre DEF H!HistoryStep, H!Started, H!When, SameReading, SameEnd, Known

LEMMA EventStartedSays ==
    ASSUME NEW s, DOMAIN s = EFields, s.ok, ~s.suffix, NEW e,
           e.kind = "execution_started",
           ~s.open, e.item < PlanLength, s.call = 0 => e.item = 0,
           Known(s, e)
    PROVE  LET t == H!EventStep(s, e) IN
           /\ DOMAIN t = EFields /\ t.ok /\ t.suffix = s.suffix
           /\ t.open = s.open /\ t.start = s.start /\ t.startOp = s.startOp
           /\ t.finishOp = s.finishOp /\ t.call = s.call
           /\ t.seen = s.seen \cup {e.op} /\ t.repair = NoOperation /\ t.phase = 0
           /\ t.epoch = e.op /\ t.resume = e.item /\ t.hadCall = FALSE
BY FieldsAre DEF H!EventStep, H!EventStarted, H!When, Known

LEMMA TailSays ==
    ASSUME NEW s, DOMAIN s = HFields, s.ok, ~s.suffix, NEW e, NEW rw,
           e.kind \in {"tail_recovered_events", "tail_recovered_raw"},
           <<e.item, e.attempt>> = IF e.kind = "tail_recovered_raw" /\ s.open = "rawless"
                                   THEN <<s.start.item, s.start.attempt>> ELSE <<0, 0>>,
           MayRepair(s, e)
    PROVE  LET t == H!HistoryStep(s, e, rw) IN
           /\ DOMAIN t = HFields /\ t.ok /\ SameReading(s, t) /\ SameEnd(s, t)
           /\ t.execution = s.execution /\ t.blocked = s.blocked /\ t.hadCall = s.hadCall
           /\ t.epoch = NoOperation /\ t.seen = s.seen \cup {e.op}
           /\ t.repair = e.op /\ t.phase = H!PhaseOf(e.kind)
BY FieldsAre DEF H!HistoryStep, H!TailRecovered, H!AdvanceRepair, H!When, SameReading, SameEnd,
                 MayRepair, Known, From

LEMMA EventTailSays ==
    ASSUME NEW s, DOMAIN s = EFields, s.ok, ~s.suffix, NEW e,
           e.kind \in {"tail_recovered_events", "tail_recovered_raw"},
           \/ e.attempt = 0
           \/ /\ e.kind = "tail_recovered_raw" /\ s.open
              /\ e.item = s.start.item /\ e.attempt = s.start.attempt,
           MayRepair(s, e)
    PROVE  LET t == H!EventStep(s, e) IN
           /\ DOMAIN t = EFields /\ t.ok /\ t.suffix = s.suffix /\ SameCalls(s, t)
           /\ t.lastStart = s.lastStart /\ t.lastFinish = s.lastFinish
           /\ t.epoch = NoOperation /\ t.seen = s.seen \cup {e.op}
           /\ t.repair = e.op /\ t.phase = H!PhaseOf(e.kind)
BY FieldsAre DEF H!EventStep, H!EventTail, H!AdvanceRepair, H!When, SameCalls, MayRepair, Known, From

LEMMA BlockedSays ==
    ASSUME NEW s, DOMAIN s = HFields, s.ok, ~s.suffix, NEW e, NEW rw,
           e.kind = "execution_blocked", e.op = s.epoch, s.epoch # NoOperation,
           ~s.hadCall, s.open = "none"
    PROVE  LET t == H!HistoryStep(s, e, rw) IN
           /\ DOMAIN t = HFields /\ t.ok /\ SameReading(s, t) /\ SameEnd(s, t) /\ SameRepair(s, t)
           /\ t.execution = s.execution /\ t.blocked = ~s.request /\ t.hadCall = s.hadCall
           /\ t.epoch = NoOperation
BY FieldsAre DEF H!HistoryStep, H!Blocked, H!InEpoch, H!When, SameReading, SameEnd, SameRepair

LEMMA EventBlockedSays ==
    ASSUME NEW s, DOMAIN s = EFields, s.ok, ~s.suffix, NEW e,
           e.kind = "execution_blocked", e.op = s.epoch, s.epoch # NoOperation,
           ~s.hadCall, ~s.open
    PROVE  LET t == H!EventStep(s, e) IN
           /\ DOMAIN t = EFields /\ t.ok /\ t.suffix = s.suffix /\ SameCalls(s, t)
           /\ SameRepair(s, t) /\ t.epoch = NoOperation
BY FieldsAre DEF H!EventStep, H!EventBlocked, H!InEpoch, H!When, SameCalls, SameRepair

LEMMA InterruptedSays ==
    ASSUME NEW s, DOMAIN s = HFields, s.ok, ~s.suffix, NEW e, NEW rw,
           e.kind = "execution_interrupted", e.op = s.epoch, s.epoch # NoOperation,
           s.open = "none", s.pending = "none", e.item = s.ordinal, s.ordinal < PlanLength
    PROVE  LET t == H!HistoryStep(s, e, rw) IN
           /\ DOMAIN t = HFields /\ t.ok /\ SameReading(s, t) /\ SameEnd(s, t) /\ SameRepair(s, t)
           /\ t.execution = s.execution /\ t.blocked = s.blocked /\ t.hadCall = s.hadCall
           /\ t.epoch = NoOperation
BY FieldsAre DEF H!HistoryStep, H!Interrupted, H!InEpoch, H!When, SameReading, SameEnd, SameRepair

LEMMA EventInterruptedSays ==
    ASSUME NEW s, DOMAIN s = EFields, s.ok, ~s.suffix, NEW e,
           e.kind = "execution_interrupted", e.op = s.epoch, s.epoch # NoOperation,
           ~s.open, ~s.hadCall => e.item = s.resume, e.item \in Ordinals
    PROVE  LET t == H!EventStep(s, e) IN
           /\ DOMAIN t = EFields /\ t.ok /\ t.suffix = s.suffix /\ SameCalls(s, t)
           /\ SameRepair(s, t) /\ t.epoch = NoOperation
BY FieldsAre DEF H!EventStep, H!EventInterrupted, H!InEpoch, H!When, SameCalls, SameRepair,
                 H!Ordinals, Ordinals

MayRequest(s, e, rw) ==
    /\ DOMAIN s = HFields /\ s.ok /\ ~s.suffix
    /\ e.kind = "request_started"
    /\ e.op = s.epoch /\ s.epoch # NoOperation
    /\ s.open = "none" /\ s.pending = "none"
    /\ s.ordinal < PlanLength /\ e.item = s.ordinal /\ e.call = s.call
    /\ e.attempt = s.attempt /\ e.attempt <= MaxAttempts
    /\ s.taken = Len(rw) /\ Len(rw) \in Nat
Requested(s, t, e) ==
    /\ DOMAIN t = HFields /\ t.ok /\ SameRepair(s, t)
    /\ t.taken = s.taken /\ t.ordinal = s.ordinal /\ t.attempt = s.attempt
    /\ t.auth = s.auth /\ t.ambiguity = s.ambiguity
    /\ t.finished = s.finished /\ t.finishOp = s.finishOp
    /\ t.pending = s.pending /\ t.completion = s.completion /\ t.suffix = s.suffix
    /\ t.execution = s.execution /\ t.epoch = s.epoch
    /\ t.request = TRUE /\ t.hadCall = TRUE /\ t.open = "rawless"
    /\ t.start = e /\ t.startOp = e.op /\ t.call = s.call + 1

LEMMA RequestedSays ==
    ASSUME NEW s, NEW e, NEW rw, MayRequest(s, e, rw)
    PROVE  Requested(s, H!HistoryStep(s, e, rw), e)
<1>1. s.taken + 1 > Len(rw)
  BY DEF MayRequest
<1>. QED
  BY <1>1, FieldsAre DEF Requested, MayRequest, H!HistoryStep, H!Requested, H!InEpoch, H!When, SameRepair, MaxAttempts

EventMayRequest(s, e) ==
    /\ DOMAIN s = EFields /\ s.ok /\ ~s.suffix
    /\ e.kind = "request_started"
    /\ e.op = s.epoch /\ s.epoch # NoOperation
    /\ ~s.open /\ e.call = s.call
    /\ e.attempt <= MaxAttempts /\ e.item \in Ordinals
    /\ ~s.hadCall => e.item = s.resume
EventRequests(s, t, e) ==
    /\ DOMAIN t = EFields /\ t.ok /\ t.suffix = s.suffix /\ SameRepair(s, t)
    /\ t.epoch = s.epoch /\ t.finishOp = s.finishOp
    /\ t.hadCall = TRUE /\ t.open = TRUE /\ t.start = e /\ t.startOp = e.op
    /\ t.call = s.call + 1

LEMMA EventRequestSays ==
    ASSUME NEW s, NEW e, EventMayRequest(s, e)
    PROVE  EventRequests(s, H!EventStep(s, e), e)
BY FieldsAre DEF EventRequests, EventMayRequest, H!EventStep, H!EventRequest, H!InEpoch, H!When, SameRepair, H!Ordinals, Ordinals,
                 MaxAttempts

(* A row of the running session, or one a repair writes in its order.          *)
InOrder(s, e) == IF e.recovered THEN MayRepair(s, e) ELSE e.op = s.epoch /\ s.epoch # NoOperation
RepairSeen(s, t, e) ==
    IF e.recovered
    THEN t.repair = e.op /\ t.phase = H!PhaseOf(e.kind) /\ t.seen = s.seen \cup {e.op}
    ELSE SameRepair(s, t)

MayFinish(s, e, rw) ==
    /\ DOMAIN s = HFields /\ s.ok /\ ~s.suffix
    /\ e.kind = "request_finished"
    /\ e.recovered \in BOOLEAN /\ InOrder(s, e)
    /\ s.open = "raw" /\ e.call = s.start.call
    /\ e.item = s.start.item /\ e.attempt = s.start.attempt
    /\ ~e.recovered => e.op = s.startOp
Finishes(s, t, e) ==
    /\ DOMAIN t = HFields /\ t.ok /\ SameReading(s, t) /\ RepairSeen(s, t, e)
    /\ t.execution = s.execution /\ t.blocked = s.blocked /\ t.hadCall = s.hadCall
    /\ t.epoch = IF e.recovered THEN NoOperation ELSE s.epoch
    /\ t.open = "none" /\ t.finished = TRUE /\ t.finishOp = e.op
    /\ t.pending = s.pending /\ t.completion = s.completion /\ t.suffix = s.suffix

LEMMA FinishedSays ==
    ASSUME NEW s, NEW e, NEW rw, MayFinish(s, e, rw)
    PROVE  Finishes(s, H!HistoryStep(s, e, rw), e)
BY FieldsAre DEF Finishes, MayFinish, H!HistoryStep, H!Finished, H!InEpoch, H!Repairing, H!EndEpochIfRecovered,
                 H!AdvanceRepair, H!When, SameReading, SameRepair, RepairSeen, InOrder, MayRepair, Known, From

EventMayFinish(s, e) ==
    /\ DOMAIN s = EFields /\ s.ok /\ ~s.suffix
    /\ e.kind = "request_finished"
    /\ e.recovered \in BOOLEAN /\ InOrder(s, e)
    /\ s.open /\ e.call = s.start.call
    /\ e.item = s.start.item /\ e.attempt = s.start.attempt
    /\ ~e.recovered => e.op = s.startOp
EventFinishes(s, t, e) ==
    /\ DOMAIN t = EFields /\ t.ok /\ t.suffix = s.suffix /\ RepairSeen(s, t, e)
    /\ t.epoch = IF e.recovered THEN NoOperation ELSE s.epoch
    /\ t.hadCall = s.hadCall /\ t.start = s.start /\ t.startOp = s.startOp
    /\ t.call = s.call
    /\ t.open = FALSE /\ t.lastStart = TRUE /\ t.lastFinish = TRUE /\ t.finishOp = e.op

LEMMA EventFinishSays ==
    ASSUME NEW s, NEW e, EventMayFinish(s, e)
    PROVE  EventFinishes(s, H!EventStep(s, e), e)
BY FieldsAre DEF EventFinishes, EventMayFinish, H!EventStep, H!EventFinish, H!InEpoch, H!Repairing, H!EndEpochIfRecovered,
                 H!AdvanceRepair, H!When, SameRepair, RepairSeen, InOrder, MayRepair, Known, From

MayMark(s, e, rw) ==
    /\ DOMAIN s = HFields /\ s.ok /\ ~s.suffix
    /\ e.kind \in Stops
    /\ e.recovered \in BOOLEAN /\ InOrder(s, e)
    /\ s.open = "none" /\ s.pending = e.kind
    /\ s.finished
    /\ e.item = s.start.item /\ e.attempt = s.start.attempt
    /\ ~e.recovered => e.op = s.finishOp
Marks(s, t, e) ==
    /\ DOMAIN t = HFields /\ t.ok /\ SameReading(s, t) /\ RepairSeen(s, t, e)
    /\ t.execution = s.execution /\ t.blocked = s.blocked /\ t.hadCall = s.hadCall
    /\ t.epoch = NoOperation
    /\ t.open = s.open /\ t.finished = s.finished /\ t.finishOp = s.finishOp
    /\ t.pending = "none" /\ t.completion = s.completion /\ t.suffix = TRUE

LEMMA MarkedSays ==
    ASSUME NEW s, NEW e, NEW rw, MayMark(s, e, rw)
    PROVE  Marks(s, H!HistoryStep(s, e, rw), e)
<1>1. e.kind \in {"authentication_stopped", "delivery_ambiguous"}
  BY DEF MayMark, Stops
<1>. QED
  BY <1>1, FieldsAre DEF Marks, MayMark, H!HistoryStep, H!MarkedStop, H!InEpoch, H!Repairing,
                 H!AdvanceRepair, H!When, SameReading, SameRepair, RepairSeen, InOrder, MayRepair, Known, From

EventMayMark(s, e) ==
    /\ DOMAIN s = EFields /\ s.ok /\ ~s.suffix
    /\ e.kind \in Stops
    /\ e.recovered \in BOOLEAN /\ InOrder(s, e)
    /\ ~s.open /\ s.lastStart /\ s.lastFinish
    /\ e.item = s.start.item /\ e.attempt = s.start.attempt
    /\ ~e.recovered => e.op = s.finishOp
EventMarks(s, t, e) ==
    /\ DOMAIN t = EFields /\ t.ok /\ t.suffix = TRUE /\ RepairSeen(s, t, e) /\ SameCalls(s, t)
    /\ t.epoch = NoOperation

LEMMA EventMarkerSays ==
    ASSUME NEW s, NEW e, EventMayMark(s, e)
    PROVE  EventMarks(s, H!EventStep(s, e), e)
<1>1. e.kind \in {"authentication_stopped", "delivery_ambiguous"}
  BY DEF EventMayMark, Stops
<1>. QED
  BY <1>1, FieldsAre DEF EventMarks, EventMayMark, H!EventStep, H!EventMarker, H!InEpoch, H!Repairing,
                 H!AdvanceRepair, H!When, SameCalls, SameRepair, RepairSeen, InOrder, MayRepair, Known, From

MayComplete(s, e, rw) ==
    /\ DOMAIN s = HFields /\ s.ok /\ ~s.suffix
    /\ e.kind = "generation_completed"
    /\ e.recovered \in BOOLEAN /\ InOrder(s, e)
    /\ s.open = "none" /\ s.pending = "none"
    /\ s.ordinal = PlanLength
    /\ s.finished
    /\ e.item = PlanLength - 1
    /\ ~e.recovered => e.op = s.finishOp
Completes(s, t, e) ==
    /\ DOMAIN t = HFields /\ t.ok /\ SameReading(s, t) /\ RepairSeen(s, t, e)
    /\ t.execution = s.execution /\ t.blocked = s.blocked /\ t.hadCall = s.hadCall
    /\ t.epoch = NoOperation
    /\ t.open = s.open /\ t.finished = s.finished /\ t.finishOp = s.finishOp
    /\ t.pending = s.pending /\ t.completion = TRUE /\ t.suffix = TRUE

LEMMA CompletedSays ==
    ASSUME NEW s, NEW e, NEW rw, MayComplete(s, e, rw)
    PROVE  Completes(s, H!HistoryStep(s, e, rw), e)
BY FieldsAre DEF Completes, MayComplete, H!HistoryStep, H!CompletedGeneration, H!InEpoch, H!Repairing,
                 H!AdvanceRepair, H!When, SameReading, SameRepair, RepairSeen, InOrder, MayRepair, Known, From

EventMayComplete(s, e) ==
    /\ DOMAIN s = EFields /\ s.ok /\ ~s.suffix
    /\ e.kind = "generation_completed"
    /\ e.recovered \in BOOLEAN /\ InOrder(s, e)
    /\ ~s.open /\ s.lastFinish
    /\ e.item = PlanLength - 1
    /\ ~e.recovered => e.op = s.finishOp
EventCompletes(s, t, e) ==
    /\ DOMAIN t = EFields /\ t.ok /\ t.suffix = TRUE /\ RepairSeen(s, t, e) /\ SameCalls(s, t)
    /\ t.epoch = NoOperation

LEMMA EventCompletedSays ==
    ASSUME NEW s, NEW e, EventMayComplete(s, e)
    PROVE  EventCompletes(s, H!EventStep(s, e), e)
BY FieldsAre DEF EventCompletes, EventMayComplete, H!EventStep, H!EventCompleted, H!InEpoch, H!Repairing,
                 H!AdvanceRepair, H!When, SameCalls, SameRepair, RepairSeen, InOrder, MayRepair, Known, From

-----------------------------------------------------------------------------
(* What the states say of the ledgers *)

ExecutionHistory(ev) == Last(ev, {"execution_started"}) # 0
Pending(ev, rw) == IF NeedsMarker(ev, rw) THEN MarkerOf(Reason(ev, rw)) ELSE "none"
OpenAs(ev, rw) ==
    IF ~Open(ev) THEN "none" ELSE IF HasRaw(ev, rw) THEN "raw" ELSE "rawless"

(* The state after both ledgers is the position recovery computes from them.   *)
HistoryFacts(ev, rw, s) ==
    /\ DOMAIN s = HFields /\ s.ok /\ s.taken = Len(rw)
    /\ s.request <=> RequestHistory(ev)
    /\ s.call = IF RequestHistory(ev) THEN Start(ev).call + 1 ELSE 0
    /\ RequestHistory(ev) => s.start = Start(ev) /\ s.startOp = Start(ev).op /\ s.execution
    /\ RequestHistory(ev) /\ ~Open(ev) => s.finished
    /\ s.open = OpenAs(ev, rw)
    /\ s.ordinal = NextOrdinal(ev, rw) /\ s.attempt = NextAttempt(ev, rw)
    /\ s.pending = Pending(ev, rw)
    /\ s.completion <=> Completed(ev)
    /\ s.suffix <=> Marked(ev) \/ Completed(ev)
    /\ s.auth <=> Reason(ev, rw) = "authentication_stopped"
    /\ s.ambiguity <=> Reason(ev, rw) = "ambiguous_delivery"
    /\ s.execution <=> ExecutionHistory(ev)
    /\ s.epoch # NoOperation => s.execution
    /\ ~RequestHistory(ev) => (s.blocked <=> BlockedBeforeAnyCall(ev))
    /\ s.repair \in s.seen /\ NoOperation \in s.seen

(* The grammar of events.jsonl alone follows it.                               *)
EventFacts(ev, rw, s, t) ==
    /\ DOMAIN t = EFields /\ t.ok
    /\ t.epoch = s.epoch /\ t.hadCall = s.hadCall /\ t.start = s.start /\ t.startOp = s.startOp
    /\ t.finishOp = s.finishOp /\ t.call = s.call /\ SameRepair(s, t)
    /\ t.suffix <=> s.suffix
    /\ t.open <=> Open(ev)
    /\ NeedsMarker(ev, rw) \/ NeedsCompletion(ev, rw) =>
          Open(ev) \/ (t.lastStart /\ t.lastFinish)

(* Both acceptors take one more row, and it is the writer's.                   *)
Accepted(ev, rw, row, s, t) ==
    LET s2 == H!HistoryStep(s, row, rw)
        t2 == H!EventStep(t, row)
    IN  /\ HistoryFacts(Append(ev, row), rw, s2)
        /\ EventFacts(Append(ev, row), rw, s2, t2)
        /\ s2.seen \subseteq s.seen \cup {row.op}

LEMMA ExecutionSays ==
    ASSUME NEW ev \in Seq(Rows), NEW row \in Rows
    PROVE  LET new == Append(ev, row) IN
           /\ ExecutionHistory(new) <=> ExecutionHistory(ev) \/ row.kind = "execution_started"
           /\ row.kind = "execution_started" => ~BlockedBeforeAnyCall(new)
           /\ row.kind = "execution_blocked" /\ ~RequestHistory(ev) => BlockedBeforeAnyCall(new)
           /\ row.kind \notin {"execution_started", "execution_blocked", "request_started"} =>
                (BlockedBeforeAnyCall(new) <=> BlockedBeforeAnyCall(ev))
<1>. DEFINE new == Append(ev, row)
            B == {"execution_blocked"}
            SB == {"execution_started", "execution_blocked"}
            X == {"execution_started"}
<1>1. /\ HasLast(ev, B) /\ HasLast(ev, SB) /\ HasLast(ev, X) /\ Len(ev) \in Nat
  BY EveryLastExists
<1>2. /\ row.kind \in B => Last(new, B) = Len(ev) + 1
      /\ row.kind \notin B => Last(new, B) = Last(ev, B)
      /\ row.kind \in SB => Last(new, SB) = Len(ev) + 1
      /\ row.kind \notin SB => Last(new, SB) = Last(ev, SB)
      /\ row.kind \in X => Last(new, X) = Len(ev) + 1
      /\ row.kind \notin X => Last(new, X) = Last(ev, X)
  <2>. HIDE DEF B, SB, X, new
  <2>. QED
    BY <1>1, LastOfAppend DEF new
<1>3. Last(ev, B) \in 0 .. Len(ev)
  BY <1>1, LastIsLast DEF IsLast
<1>4. row.kind # "request_started" => RequestHistory(new) = RequestHistory(ev)
  BY RowSays
<1>. QED
  BY <1>1, <1>2, <1>3, <1>4 DEF ExecutionHistory, BlockedBeforeAnyCall

(* Rows that no request, marker or completion is told by.                      *)
QuietKinds == {"execution_started", "execution_blocked", "execution_interrupted",
               "tail_recovered_events", "tail_recovered_raw"}

LEMMA QuietSays ==
    ASSUME NEW ev \in Seq(Rows), NEW rw, NEW row \in Rows, row.kind \in QuietKinds
    PROVE  LET new == Append(ev, row) IN
           /\ RequestHistory(new) <=> RequestHistory(ev)
           /\ RequestHistory(ev) => Start(new) = Start(ev)
           /\ Reason(new, rw) = Reason(ev, rw)
           /\ NextOrdinal(new, rw) = NextOrdinal(ev, rw)
           /\ NextAttempt(new, rw) = NextAttempt(ev, rw)
           /\ Open(new) <=> Open(ev)
           /\ Marked(new) <=> Marked(ev)
           /\ Completed(new) <=> Completed(ev)
           /\ NeedsMarker(new, rw) <=> NeedsMarker(ev, rw)
           /\ NeedsCompletion(new, rw) <=> NeedsCompletion(ev, rw)
           /\ OpenAs(new, rw) = OpenAs(ev, rw)
           /\ Pending(new, rw) = Pending(ev, rw)
<1>. DEFINE new == Append(ev, row)
<1>1. /\ row.kind # "request_started" /\ row.kind # "request_finished"
      /\ row.kind \notin Stops /\ row.kind # "generation_completed"
  BY DEF QuietKinds, Stops
<1>2. /\ RequestHistory(new) <=> RequestHistory(ev)
      /\ RequestHistory(ev) => Start(new) = Start(ev)
      /\ HasRaw(new, rw) <=> HasRaw(ev, rw)
      /\ Reason(new, rw) = Reason(ev, rw)
      /\ NextOrdinal(new, rw) = NextOrdinal(ev, rw)
      /\ NextAttempt(new, rw) = NextAttempt(ev, rw)
      /\ Open(new) <=> Open(ev)
      /\ Marked(new) <=> Marked(ev)
      /\ Completed(new) <=> Completed(ev)
  BY <1>1, RowSays
<1>3. /\ NeedsMarker(new, rw) <=> NeedsMarker(ev, rw)
      /\ NeedsCompletion(new, rw) <=> NeedsCompletion(ev, rw)
  BY <1>2 DEF NeedsMarker, NeedsCompletion
<1>4. OpenAs(new, rw) = OpenAs(ev, rw) /\ Pending(new, rw) = Pending(ev, rw)
  BY <1>2, <1>3 DEF OpenAs, Pending
<1>. QED
  BY <1>2, <1>3, <1>4

LEMMA QuietFacts ==
    ASSUME NEW ev \in Seq(Rows), NEW rw, NEW row \in Rows, row.kind \in QuietKinds,
           NEW s, HistoryFacts(ev, rw, s), NEW t, DOMAIN t = HFields, t.ok,
           SameReading(s, t), SameEnd(s, t), t.repair \in t.seen, NoOperation \in t.seen,
           t.execution <=> s.execution \/ row.kind = "execution_started",
           t.epoch # NoOperation => t.execution,
           row.kind = "execution_started" => ~t.blocked,
           row.kind = "execution_blocked" => (t.blocked <=> ~s.request),
           row.kind \notin {"execution_started", "execution_blocked"} => (t.blocked <=> s.blocked)
    PROVE  HistoryFacts(Append(ev, row), rw, t)
<1>1. row.kind # "request_started"
  BY DEF QuietKinds
<1>2. ~RequestHistory(ev) => (t.blocked <=> BlockedBeforeAnyCall(Append(ev, row)))
  BY <1>1, ExecutionSays DEF HistoryFacts
<1>3. t.execution <=> ExecutionHistory(Append(ev, row))
  BY ExecutionSays DEF HistoryFacts
<1>. QED
  BY <1>2, <1>3, QuietSays DEF HistoryFacts, SameReading, SameEnd

LEMMA QuietEvents ==
    ASSUME NEW ev \in Seq(Rows), NEW rw, NEW row \in Rows, row.kind \in QuietKinds,
           NEW s, NEW t, EventFacts(ev, rw, s, t), NEW s2, NEW t2, DOMAIN t2 = EFields, t2.ok,
           SameReading(s, s2), SameEnd(s, s2),
           t2.epoch = s2.epoch, t2.hadCall = s2.hadCall, SameRepair(s2, t2),
           t2.start = t.start, t2.startOp = t.startOp, t2.finishOp = t.finishOp, t2.call = t.call,
           t2.suffix = t.suffix, t2.open = t.open,
           \/ ~NeedsMarker(ev, rw) /\ ~NeedsCompletion(ev, rw)
           \/ t2.lastStart = t.lastStart /\ t2.lastFinish = t.lastFinish
    PROVE  EventFacts(Append(ev, row), rw, s2, t2)
BY QuietSays DEF EventFacts, SameReading, SameEnd

(* Rows of the session between its requests.                                   *)
LEMMA AcceptStarted ==
    ASSUME NEW ev \in Seq(Rows), NEW rw, NEW row \in Rows, row.kind = "execution_started",
           NEW s, NEW t, HistoryFacts(ev, rw, s), EventFacts(ev, rw, s, t),
           ~Open(ev), ~Marked(ev), ~Completed(ev), ~NeedsMarker(ev, rw), ~NeedsCompletion(ev, rw),
           NextOrdinal(ev, rw) # PlanLength, row.item = NextOrdinal(ev, rw),
           RequestHistory(ev) => Start(ev).call \in Nat,
           Known(s, row)
    PROVE  LET s2 == H!HistoryStep(s, row, rw)
               t2 == H!EventStep(t, row)
           IN  /\ Accepted(ev, rw, row, s, t)
               /\ s2.epoch = row.op /\ s2.hadCall = FALSE /\ t2.resume = row.item
<1>. DEFINE s2 == H!HistoryStep(s, row, rw)
            t2 == H!EventStep(t, row)
<1>1. /\ DOMAIN s = HFields /\ s.ok /\ ~s.suffix /\ s.open = "none" /\ s.pending = "none"
      /\ ~s.completion /\ s.ordinal # PlanLength /\ row.item = s.ordinal
      /\ NoOperation \in s.seen
  BY DEF HistoryFacts, OpenAs, Pending
<1>2. /\ DOMAIN s2 = HFields /\ s2.ok /\ SameReading(s, s2) /\ SameEnd(s, s2)
      /\ s2.execution = TRUE /\ s2.blocked = FALSE /\ s2.seen = s.seen \cup {row.op}
      /\ s2.repair = NoOperation /\ s2.phase = 0 /\ s2.epoch = row.op /\ s2.hadCall = FALSE
  BY <1>1, StartedSays
<1>3. row.item \in 0 .. PlanLength - 1
  BY DEF Rows, Ordinals
<1>4. t.call = 0 => row.item = 0
  BY DEF HistoryFacts, EventFacts, NextOrdinal
<1>5. /\ DOMAIN t = EFields /\ t.ok /\ ~t.suffix /\ ~t.open /\ row.item < PlanLength
      /\ Known(t, row)
  BY <1>1, <1>3, PlanIsNotEmpty DEF EventFacts, SameRepair, Known
<1>6. /\ DOMAIN t2 = EFields /\ t2.ok /\ t2.suffix = t.suffix
      /\ t2.open = t.open /\ t2.start = t.start /\ t2.startOp = t.startOp
      /\ t2.finishOp = t.finishOp /\ t2.call = t.call
      /\ t2.seen = t.seen \cup {row.op} /\ t2.repair = NoOperation /\ t2.phase = 0
      /\ t2.epoch = row.op /\ t2.resume = row.item /\ t2.hadCall = FALSE
  BY <1>4, <1>5, EventStartedSays
<1>7. SameRepair(s2, t2)
  BY <1>2, <1>6 DEF EventFacts, SameRepair
<1>8. row.kind \in QuietKinds
  BY DEF QuietKinds
<1>. HIDE DEF s2, t2
<1>9. HistoryFacts(Append(ev, row), rw, s2)
  BY <1>1, <1>2, <1>8, QuietFacts
<1>10. EventFacts(Append(ev, row), rw, s2, t2)
  BY <1>2, <1>6, <1>7, <1>8, QuietEvents
<1>. QED
  BY <1>2, <1>6, <1>9, <1>10 DEF Accepted, s2, t2

LEMMA AcceptStopped ==
    ASSUME NEW ev \in Seq(Rows), NEW rw, NEW row \in Rows,
           NEW s, NEW t, HistoryFacts(ev, rw, s), EventFacts(ev, rw, s, t),
           ~Open(ev), ~Marked(ev), ~Completed(ev), ~NeedsMarker(ev, rw), ~NeedsCompletion(ev, rw),
           NextOrdinal(ev, rw) \in Ordinals,
           row.op = s.epoch, row.op # NoOperation,
           \/ row.kind = "execution_blocked" /\ ~s.hadCall
           \/ /\ row.kind = "execution_interrupted" /\ row.item = NextOrdinal(ev, rw)
              /\ ~s.hadCall => row.item = t.resume
    PROVE  Accepted(ev, rw, row, s, t)
<1>. DEFINE s2 == H!HistoryStep(s, row, rw)
            t2 == H!EventStep(t, row)
<1>1. /\ DOMAIN s = HFields /\ s.ok /\ ~s.suffix /\ s.open = "none" /\ s.pending = "none"
      /\ s.ordinal = NextOrdinal(ev, rw) /\ s.repair \in s.seen /\ NoOperation \in s.seen
  BY DEF HistoryFacts, OpenAs, Pending
<1>2. s.ordinal \in 0 .. PlanLength - 1 /\ s.ordinal < PlanLength
  BY <1>1, PlanIsNotEmpty DEF Ordinals
<1>3. /\ DOMAIN t = EFields /\ t.ok /\ ~t.suffix /\ ~t.open
      /\ t.epoch = s.epoch /\ t.hadCall = s.hadCall
  BY <1>1 DEF EventFacts
<1>4. /\ DOMAIN s2 = HFields /\ s2.ok /\ SameReading(s, s2) /\ SameEnd(s, s2) /\ SameRepair(s, s2)
      /\ s2.execution = s.execution /\ s2.hadCall = s.hadCall /\ s2.epoch = NoOperation
      /\ row.kind = "execution_blocked" => s2.blocked = ~s.request
      /\ row.kind = "execution_interrupted" => s2.blocked = s.blocked
  <2>1. CASE row.kind = "execution_blocked"
    BY <1>1, <2>1, BlockedSays
  <2>2. CASE row.kind = "execution_interrupted"
    BY <1>1, <1>2, <2>2, InterruptedSays
  <2>. QED
    BY <2>1, <2>2
<1>5. /\ DOMAIN t2 = EFields /\ t2.ok /\ t2.suffix = t.suffix /\ SameCalls(t, t2)
      /\ SameRepair(t, t2) /\ t2.epoch = NoOperation
  <2>1. CASE row.kind = "execution_blocked"
    BY <1>3, <2>1, EventBlockedSays
  <2>2. CASE row.kind = "execution_interrupted"
    BY <1>1, <1>3, <2>2, EventInterruptedSays
  <2>. QED
    BY <2>1, <2>2
<1>6. row.kind \in QuietKinds /\ row.kind # "execution_started"
  BY DEF QuietKinds
<1>7. SameRepair(s2, t2) /\ s2.repair \in s2.seen /\ NoOperation \in s2.seen
  BY <1>1, <1>4, <1>5 DEF EventFacts, SameRepair
<1>. HIDE DEF s2, t2
<1>8. HistoryFacts(Append(ev, row), rw, s2)
  BY <1>1, <1>4, <1>6, <1>7, QuietFacts
<1>9. EventFacts(Append(ev, row), rw, s2, t2)
  BY <1>3, <1>4, <1>5, <1>6, <1>7, QuietEvents DEF SameCalls
<1>. QED
  BY <1>4, <1>8, <1>9 DEF Accepted, SameRepair, s2, t2

(* An audit of a torn tail, which comes first in its repair.                   *)
LEMMA AcceptAudit ==
    ASSUME NEW ev \in Seq(Rows), NEW rw, NEW row \in Rows,
           row.kind \in {"tail_recovered_events", "tail_recovered_raw"},
           NEW s, NEW t, HistoryFacts(ev, rw, s), EventFacts(ev, rw, s, t),
           ~Marked(ev), ~Completed(ev),
           IF row.kind = "tail_recovered_raw" /\ RawlessOpen(ev, rw)
           THEN row.item = Start(ev).item /\ row.attempt = Start(ev).attempt
           ELSE row.item = 0 /\ row.attempt = 0,
           MayRepair(s, row)
    PROVE  LET s2 == H!HistoryStep(s, row, rw)
           IN  /\ Accepted(ev, rw, row, s, t)
               /\ s2.repair = row.op /\ s2.phase = H!PhaseOf(row.kind)
<1>. DEFINE s2 == H!HistoryStep(s, row, rw)
            t2 == H!EventStep(t, row)
<1>1. /\ DOMAIN s = HFields /\ s.ok /\ ~s.suffix /\ NoOperation \in s.seen
      /\ s.open = "rawless" <=> RawlessOpen(ev, rw)
      /\ RawlessOpen(ev, rw) => s.start = Start(ev) /\ Open(ev)
  BY DEF HistoryFacts, OpenAs, RawlessOpen, Open
<1>2. <<row.item, row.attempt>> = IF row.kind = "tail_recovered_raw" /\ s.open = "rawless"
                                  THEN <<s.start.item, s.start.attempt>> ELSE <<0, 0>>
  BY <1>1
<1>3. /\ DOMAIN s2 = HFields /\ s2.ok /\ SameReading(s, s2) /\ SameEnd(s, s2)
      /\ s2.execution = s.execution /\ s2.blocked = s.blocked /\ s2.hadCall = s.hadCall
      /\ s2.epoch = NoOperation /\ s2.seen = s.seen \cup {row.op}
      /\ s2.repair = row.op /\ s2.phase = H!PhaseOf(row.kind)
  BY <1>1, <1>2, TailSays
<1>4. /\ DOMAIN t = EFields /\ t.ok /\ ~t.suffix /\ MayRepair(t, row)
      /\ \/ row.attempt = 0
         \/ /\ row.kind = "tail_recovered_raw" /\ t.open
            /\ row.item = t.start.item /\ row.attempt = t.start.attempt
  BY <1>1 DEF EventFacts, SameRepair, MayRepair, Known, From
<1>5. /\ DOMAIN t2 = EFields /\ t2.ok /\ t2.suffix = t.suffix /\ SameCalls(t, t2)
      /\ t2.lastStart = t.lastStart /\ t2.lastFinish = t.lastFinish
      /\ t2.epoch = NoOperation /\ t2.seen = t.seen \cup {row.op}
      /\ t2.repair = row.op /\ t2.phase = H!PhaseOf(row.kind)
  BY <1>4, EventTailSays
<1>6. row.kind \in QuietKinds /\ row.kind \notin {"execution_started", "execution_blocked"}
  BY DEF QuietKinds
<1>7. SameRepair(s2, t2) /\ t2.hadCall = s2.hadCall
  BY <1>3, <1>5 DEF EventFacts, SameRepair, SameCalls
<1>. HIDE DEF s2, t2
<1>8. HistoryFacts(Append(ev, row), rw, s2)
  BY <1>1, <1>3, <1>6, QuietFacts
<1>9. EventFacts(Append(ev, row), rw, s2, t2)
  BY <1>3, <1>5, <1>6, <1>7, QuietEvents DEF SameCalls
<1>. QED
  BY <1>3, <1>8, <1>9 DEF Accepted, s2, t2

(* A request of the position, numbered by the raw rows.                        *)
LEMMA AcceptRequest ==
    ASSUME NEW ev \in Seq(Rows), NEW rw, Len(rw) \in Nat,
           NEW row \in Rows, row.kind = "request_started",
           NEW s, NEW t, HistoryFacts(ev, rw, s), EventFacts(ev, rw, s, t),
           ~Open(ev), ~Marked(ev), ~Completed(ev), ~NeedsMarker(ev, rw),
           Reason(ev, rw) \notin {"authentication_stopped", "ambiguous_delivery"},
           row.item = NextOrdinal(ev, rw), row.attempt = NextAttempt(ev, rw), row.call = Len(rw),
           RequestHistory(ev) => Start(ev).call + 1 = Len(rw), ~RequestHistory(ev) => Len(rw) = 0,
           row.op = s.epoch, row.op # NoOperation, ~s.hadCall => row.item = t.resume
    PROVE  LET s2 == H!HistoryStep(s, row, rw)
           IN  Accepted(ev, rw, row, s, t) /\ s2.epoch = s.epoch /\ s2.hadCall
<1>. DEFINE s2 == H!HistoryStep(s, row, rw)
            t2 == H!EventStep(t, row)
            new == Append(ev, row)
<1>1. /\ DOMAIN s = HFields /\ s.ok /\ ~s.suffix /\ s.open = "none" /\ s.pending = "none"
      /\ s.ordinal = row.item /\ s.attempt = row.attempt /\ s.call = row.call
      /\ s.taken = Len(rw) /\ s.repair \in s.seen /\ NoOperation \in s.seen
      /\ ~s.auth /\ ~s.ambiguity /\ ~s.completion /\ s.execution
      /\ row.op = s.epoch /\ s.epoch # NoOperation
  BY DEF HistoryFacts, OpenAs, Pending
<1>2. row.item \in Ordinals /\ row.item < PlanLength /\ row.attempt <= MaxAttempts
      /\ row.call \in Nat
  BY PlanIsNotEmpty, RetriesAreNatural DEF Rows, Ordinals, MaxAttempts
<1>22. MayRequest(s, row, rw)
  BY <1>1, <1>2 DEF MayRequest
<1>23. Requested(s, s2, row)
  BY <1>22, RequestedSays
<1>3. /\ DOMAIN s2 = HFields /\ s2.ok /\ SameRepair(s, s2)
      /\ s2.taken = s.taken /\ s2.ordinal = s.ordinal /\ s2.attempt = s.attempt
      /\ s2.auth = s.auth /\ s2.ambiguity = s.ambiguity
      /\ s2.finished = s.finished /\ s2.finishOp = s.finishOp
      /\ s2.pending = s.pending /\ s2.completion = s.completion /\ s2.suffix = s.suffix
      /\ s2.execution = s.execution /\ s2.epoch = s.epoch
      /\ s2.request = TRUE /\ s2.hadCall = TRUE /\ s2.open = "rawless"
      /\ s2.start = row /\ s2.startOp = row.op /\ s2.call = s.call + 1
  BY <1>23 DEF Requested
<1>4. /\ DOMAIN t = EFields /\ t.ok /\ ~t.suffix /\ ~t.open
      /\ t.epoch = s.epoch /\ t.hadCall = s.hadCall /\ t.call = s.call /\ t.finishOp = s.finishOp
      /\ SameRepair(s, t)
  BY <1>1 DEF EventFacts
<1>44. EventMayRequest(t, row)
  BY <1>1, <1>2, <1>4 DEF EventMayRequest
<1>45. EventRequests(t, t2, row)
  BY <1>44, EventRequestSays
<1>5. /\ DOMAIN t2 = EFields /\ t2.ok /\ t2.suffix = t.suffix /\ SameRepair(t, t2)
      /\ t2.epoch = t.epoch /\ t2.finishOp = t.finishOp
      /\ t2.hadCall = TRUE /\ t2.open = TRUE /\ t2.start = row /\ t2.startOp = row.op
      /\ t2.call = t.call + 1
  BY <1>45 DEF EventRequests
<1>6. /\ RequestHistory(new) /\ Start(new) = row /\ Open(new)
      /\ Marked(new) = Marked(ev) /\ Completed(new) = Completed(ev)
  BY StartSays
<1>7. ExecutionHistory(new) <=> ExecutionHistory(ev)
  BY ExecutionSays
<1>. HIDE DEF s2, t2, new
<1>8. ~HasRaw(new, rw)
  BY <1>2, <1>6 DEF HasRaw
<1>9. Reason(new, rw) = "missing" /\ OpenAs(new, rw) = "rawless"
  BY <1>6, <1>8 DEF Reason, OpenAs
<1>10. NextOrdinal(new, rw) = row.item /\ NextAttempt(new, rw) = row.attempt
  BY <1>6, <1>9 DEF NextOrdinal, NextAttempt, Resolved
<1>11. ~NeedsMarker(new, rw) /\ Pending(new, rw) = "none"
  BY <1>9 DEF NeedsMarker, MarkerOf, Pending
<1>12. HistoryFacts(new, rw, s2)
  BY <1>1, <1>3, <1>6, <1>7, <1>9, <1>10, <1>11 DEF HistoryFacts, SameRepair
<1>13. EventFacts(new, rw, s2, t2)
  <2>1. /\ DOMAIN t2 = EFields /\ t2.ok /\ ~t2.suffix /\ ~s2.suffix /\ t2.open
    BY <1>1, <1>3, <1>4, <1>5
  <2>. HIDE DEF s2, t2
  <2>2. /\ t2.epoch = s2.epoch /\ t2.hadCall = s2.hadCall /\ t2.finishOp = s2.finishOp
        /\ t2.start = s2.start /\ t2.startOp = s2.startOp /\ t2.call = s2.call
    <3>1. t2.epoch = s2.epoch /\ t2.hadCall = s2.hadCall
      BY <1>3, <1>4, <1>5
    <3>2. t2.finishOp = s2.finishOp
      BY <1>3, <1>4, <1>5
    <3>3. t2.start = s2.start /\ t2.startOp = s2.startOp
      BY <1>3, <1>4, <1>5
    <3>4. t2.call = s2.call
      BY <1>3, <1>4, <1>5
    <3>. QED
      BY <3>1, <3>2, <3>3, <3>4
  <2>3. SameRepair(s2, t2)
    BY <1>3, <1>4, <1>5 DEF SameRepair
  <2>. QED
    BY <1>6, <2>1, <2>2, <2>3 DEF EventFacts
<1>. QED
  BY <1>3, <1>12, <1>13 DEF Accepted, SameRepair, s2, t2, new

(* The finish of the open request, once its raw row is written.                *)
LEMMA AcceptFinish ==
    ASSUME NEW ev \in Seq(Rows), NEW rw, NEW row \in Rows, row.kind = "request_finished",
           NEW s, NEW t, HistoryFacts(ev, rw, s), EventFacts(ev, rw, s, t),
           NeedsFinish(ev, rw), ~Marked(ev), ~Completed(ev),
           row.item = Start(ev).item, row.attempt = Start(ev).attempt, row.call = Start(ev).call,
           InOrder(s, row), ~row.recovered => row.op = Start(ev).op
    PROVE  LET s2 == H!HistoryStep(s, row, rw)
           IN  /\ Accepted(ev, rw, row, s, t)
               /\ s2.finishOp = row.op /\ s2.hadCall = s.hadCall /\ RepairSeen(s, s2, row)
               /\ ~row.recovered => s2.epoch = s.epoch
<1>. DEFINE s2 == H!HistoryStep(s, row, rw)
            t2 == H!EventStep(t, row)
            new == Append(ev, row)
<1>1. /\ RequestHistory(ev) /\ Open(ev) /\ HasRaw(ev, rw) /\ row.recovered \in BOOLEAN
  BY DEF NeedsFinish, Open, Rows
<1>2. /\ DOMAIN s = HFields /\ s.ok /\ ~s.suffix /\ s.open = "raw"
      /\ s.start = Start(ev) /\ s.startOp = Start(ev).op
      /\ s.repair \in s.seen /\ NoOperation \in s.seen
  BY <1>1 DEF HistoryFacts, OpenAs
<1>22. MayFinish(s, row, rw)
  BY <1>1, <1>2 DEF MayFinish
<1>23. Finishes(s, s2, row)
  BY <1>22, FinishedSays
<1>3. /\ DOMAIN s2 = HFields /\ s2.ok /\ SameReading(s, s2) /\ RepairSeen(s, s2, row)
      /\ s2.execution = s.execution /\ s2.blocked = s.blocked /\ s2.hadCall = s.hadCall
      /\ s2.epoch = IF row.recovered THEN NoOperation ELSE s.epoch
      /\ s2.open = "none" /\ s2.finished = TRUE /\ s2.finishOp = row.op
      /\ s2.pending = s.pending /\ s2.completion = s.completion /\ s2.suffix = s.suffix
  BY <1>23 DEF Finishes
<1>4. /\ DOMAIN t = EFields /\ t.ok /\ ~t.suffix /\ t.open
      /\ t.epoch = s.epoch /\ t.hadCall = s.hadCall /\ t.call = s.call
      /\ t.start = s.start /\ t.startOp = s.startOp /\ SameRepair(s, t)
  BY <1>1, <1>2 DEF EventFacts
<1>5. InOrder(t, row)
  BY <1>4 DEF InOrder, MayRepair, Known, From, SameRepair
<1>55. EventMayFinish(t, row)
  BY <1>1, <1>2, <1>4, <1>5 DEF EventMayFinish
<1>56. EventFinishes(t, t2, row)
  BY <1>55, EventFinishSays
<1>6. /\ DOMAIN t2 = EFields /\ t2.ok /\ t2.suffix = t.suffix /\ RepairSeen(t, t2, row)
      /\ t2.epoch = IF row.recovered THEN NoOperation ELSE t.epoch
      /\ t2.hadCall = t.hadCall /\ t2.start = t.start /\ t2.startOp = t.startOp
      /\ t2.call = t.call
      /\ t2.open = FALSE /\ t2.lastStart = TRUE /\ t2.lastFinish = TRUE /\ t2.finishOp = row.op
  BY <1>56 DEF EventFinishes
<1>7. row.kind \notin Stops /\ row.kind # "generation_completed"
  BY DEF Stops
<1>8. /\ RequestHistory(new) = RequestHistory(ev)
      /\ Start(new) = Start(ev)
      /\ HasRaw(new, rw) = HasRaw(ev, rw)
      /\ Reason(new, rw) = Reason(ev, rw)
      /\ NextOrdinal(new, rw) = NextOrdinal(ev, rw)
      /\ NextAttempt(new, rw) = NextAttempt(ev, rw)
      /\ ~Open(new) /\ ~Marked(new) /\ ~Completed(new)
  BY <1>1, <1>7, RowSays
<1>9. ExecutionHistory(new) <=> ExecutionHistory(ev)
  BY ExecutionSays
<1>. HIDE DEF s2, t2, new
<1>10. /\ NeedsMarker(new, rw) <=> NeedsMarker(ev, rw)
       /\ Pending(new, rw) = Pending(ev, rw) /\ OpenAs(new, rw) = "none"
  BY <1>8 DEF NeedsMarker, Pending, OpenAs
<1>11. SameRepair(s2, t2) /\ s2.repair \in s2.seen /\ NoOperation \in s2.seen
  BY <1>2, <1>3, <1>4, <1>6 DEF RepairSeen, SameRepair
<1>12. HistoryFacts(new, rw, s2)
  BY <1>1, <1>3, <1>8, <1>9, <1>10, <1>11 DEF HistoryFacts, SameReading
<1>13. EventFacts(new, rw, s2, t2)
  BY <1>2, <1>3, <1>4, <1>6, <1>8, <1>11 DEF EventFacts, SameReading
<1>. QED
  BY <1>3, <1>12, <1>13 DEF Accepted, RepairSeen, SameRepair, s2, t2, new

(* A terminal marker or the completion, which nothing follows.                 *)
LEMMA AcceptEnd ==
    ASSUME NEW ev \in Seq(Rows), NEW rw, NEW row \in Rows,
           NEW s, NEW t, HistoryFacts(ev, rw, s), EventFacts(ev, rw, s, t),
           ~Open(ev), ~Marked(ev), ~Completed(ev), InOrder(s, row),
           ~row.recovered => row.op = s.finishOp,
           \/ /\ row.kind \in Stops /\ NeedsMarker(ev, rw) /\ ~NeedsCompletion(ev, rw)
              /\ row.kind = MarkerOf(Reason(ev, rw))
              /\ row.item = Start(ev).item /\ row.attempt = Start(ev).attempt
           \/ /\ row.kind = "generation_completed"
              /\ NeedsCompletion(ev, rw) /\ ~NeedsMarker(ev, rw)
              /\ row.item = PlanLength - 1
    PROVE  LET s2 == H!HistoryStep(s, row, rw)
           IN  Accepted(ev, rw, row, s, t) /\ RepairSeen(s, s2, row)
<1>. DEFINE s2 == H!HistoryStep(s, row, rw)
            t2 == H!EventStep(t, row)
            new == Append(ev, row)
            marks == row.kind \in Stops
<1>1. RequestHistory(ev) /\ row.recovered \in BOOLEAN
  BY PlanIsNotEmpty
     DEF NeedsMarker, NeedsCompletion, MarkerOf, Reason, HasRaw, NextOrdinal, Rows
<1>2. /\ DOMAIN s = HFields /\ s.ok /\ ~s.suffix /\ s.open = "none" /\ s.finished
      /\ s.start = Start(ev) /\ s.ordinal = NextOrdinal(ev, rw) /\ s.pending = Pending(ev, rw)
      /\ s.repair \in s.seen /\ NoOperation \in s.seen
  BY <1>1 DEF HistoryFacts, OpenAs
<1>3. ~marks => row.kind = "generation_completed"
  OBVIOUS
<1>34. /\ marks => /\ NeedsMarker(ev, rw) /\ row.kind = MarkerOf(Reason(ev, rw))
                    /\ row.item = Start(ev).item /\ row.attempt = Start(ev).attempt
       /\ ~marks => /\ ~NeedsMarker(ev, rw) /\ NextOrdinal(ev, rw) = PlanLength
                     /\ row.kind = "generation_completed" /\ row.item = PlanLength - 1
  BY DEF Stops, NeedsCompletion
<1>4. /\ marks => MayMark(s, row, rw)
      /\ ~marks => MayComplete(s, row, rw)
  <2>1. ASSUME marks PROVE MayMark(s, row, rw)
    BY <1>1, <1>2, <1>34, <2>1 DEF MayMark, Pending
  <2>2. ASSUME ~marks PROVE MayComplete(s, row, rw)
    <3>1. s.pending = "none" /\ s.ordinal = PlanLength
      BY <1>2, <1>34, <2>2 DEF Pending
    <3>. QED
      BY <1>1, <1>2, <1>34, <2>2, <3>1 DEF MayComplete
  <2>. QED
    BY <2>1, <2>2
<1>5. /\ marks => Marks(s, s2, row)
      /\ ~marks => Completes(s, s2, row)
  BY <1>4, MarkedSays, CompletedSays
<1>6. /\ DOMAIN s2 = HFields /\ s2.ok /\ SameReading(s, s2) /\ RepairSeen(s, s2, row)
      /\ s2.execution = s.execution /\ s2.blocked = s.blocked /\ s2.hadCall = s.hadCall
      /\ s2.epoch = NoOperation
      /\ s2.open = s.open /\ s2.finished = s.finished /\ s2.finishOp = s.finishOp
      /\ s2.suffix = TRUE /\ s2.pending = "none"
      /\ s2.completion <=> ~marks
  BY <1>2, <1>5 DEF Marks, Completes, Pending, HistoryFacts
<1>7. /\ DOMAIN t = EFields /\ t.ok /\ ~t.suffix /\ ~t.open /\ t.lastStart /\ t.lastFinish
      /\ t.epoch = s.epoch /\ t.hadCall = s.hadCall /\ t.call = s.call /\ t.start = s.start
      /\ t.startOp = s.startOp /\ t.finishOp = s.finishOp /\ SameRepair(s, t)
  BY <1>2 DEF EventFacts
<1>8. InOrder(t, row)
  BY <1>7 DEF InOrder, MayRepair, Known, From, SameRepair
<1>9. /\ marks => EventMayMark(t, row)
      /\ ~marks => EventMayComplete(t, row)
  BY <1>1, <1>2, <1>7, <1>8, <1>34 DEF EventMayMark, EventMayComplete
<1>10. /\ marks => EventMarks(t, t2, row)
       /\ ~marks => EventCompletes(t, t2, row)
  BY <1>9, EventMarkerSays, EventCompletedSays
<1>11. /\ DOMAIN t2 = EFields /\ t2.ok /\ t2.suffix = TRUE /\ RepairSeen(t, t2, row)
       /\ SameCalls(t, t2) /\ t2.epoch = NoOperation
  BY <1>10 DEF EventMarks, EventCompletes
<1>12. /\ marks => row.kind # "generation_completed"
       /\ row.kind # "request_finished" /\ row.kind # "request_started"
       /\ row.kind \notin {"execution_started", "execution_blocked"}
  BY DEF Stops
<1>13. /\ RequestHistory(new)
       /\ Start(new) = Start(ev)
       /\ Reason(new, rw) = Reason(ev, rw)
       /\ NextOrdinal(new, rw) = NextOrdinal(ev, rw)
       /\ NextAttempt(new, rw) = NextAttempt(ev, rw)
       /\ ~Open(new)
       /\ Marked(new) <=> marks
       /\ Completed(new) <=> ~marks
  <2>1. /\ RequestHistory(new) = RequestHistory(ev)
        /\ RequestHistory(ev) => Start(new) = Start(ev)
        /\ Reason(new, rw) = Reason(ev, rw)
        /\ NextOrdinal(new, rw) = NextOrdinal(ev, rw)
        /\ NextAttempt(new, rw) = NextAttempt(ev, rw)
    BY <1>12, RowSays
  <2>2. /\ Open(new) = (Open(ev) /\ row.kind # "request_finished")
        /\ Marked(new) = (Marked(ev) \/ row.kind \in Stops)
        /\ Completed(new) = (Completed(ev) \/ row.kind = "generation_completed")
    BY <1>12, RowSays
  <2>. QED
    BY <1>1, <1>12, <1>34, <2>1, <2>2
<1>14. ExecutionHistory(new) <=> ExecutionHistory(ev)
  BY <1>12, ExecutionSays
<1>. HIDE DEF s2, t2, new, marks
<1>15. ~NeedsMarker(new, rw) /\ ~NeedsCompletion(new, rw)
  BY <1>13, <1>34 DEF NeedsMarker, NeedsCompletion
<1>16. Pending(new, rw) = "none" /\ OpenAs(new, rw) = "none"
  BY <1>13, <1>15 DEF Pending, OpenAs
<1>17. SameRepair(s2, t2) /\ s2.repair \in s2.seen /\ NoOperation \in s2.seen
  BY <1>2, <1>6, <1>7, <1>11 DEF RepairSeen, SameRepair
<1>18. HistoryFacts(new, rw, s2)
  BY <1>1, <1>2, <1>6, <1>13, <1>14, <1>16, <1>17 DEF HistoryFacts, SameReading
<1>19. EventFacts(new, rw, s2, t2)
  BY <1>6, <1>7, <1>11, <1>13, <1>15, <1>17 DEF EventFacts, SameReading, SameCalls
<1>. QED
  BY <1>6, <1>18, <1>19 DEF Accepted, RepairSeen, SameRepair, s2, t2, new

-----------------------------------------------------------------------------
(* History: the invariant *)

Asking == {"started", "calling", "answered"}
Called == Asking \cup {"recorded", "finished", "completing"}

(* The rows left to write go on from a phase of the repair.                    *)
PhaseFits(todo, phase) == todo = <<>> \/ H!PhaseAllows(phase, Head(todo).kind)

(* What the acceptors know of an operation: no row of one that has not begun   *)
(* to write, only audits and owed rows of a repair, and its epoch.             *)
HistoryMemory(op, s, t) ==
    /\ pc[op] \in {"new", "locked", "planned"} => op \notin s.seen
    /\ pc[op] \in {"recovering", "ready"} => op \notin s.seen \/ op = s.repair
    /\ pc[op] = "recovering" => PhaseFits(mem.todo, From(s, op))
    /\ pc[op] \in {"epoch", "item"} \cup Called => s.epoch = op
    /\ pc[op] = "epoch" => ~s.hadCall
    /\ pc[op] \in {"epoch", "item"} => s.hadCall \/ t.resume = mem.ordinal
    /\ pc[op] \in Called => s.hadCall
    /\ pc[op] \in Asking \cup {"recorded"} => Start(events).op = op
    /\ pc[op] \in Asking => events[Len(events)].kind = "request_started"
    /\ pc[op] = "answered" => (mem.reason = "retry_exhausted" => mem.attempt = MaxAttempts)
    /\ pc[op] \in {"finished", "completing"} => s.finishOp = op

HistoryInv ==
    /\ events # <<>> /\ events[1].kind = "prepared"
    /\ HistoryFacts(events, raw, HS(events, raw))
    /\ EventFacts(events, raw, HS(events, raw), ES(events))
    /\ \A op \in Operations : HistoryMemory(op, HS(events, raw), ES(events))

(* Nothing is known of an operation that has ended.                            *)
LEMMA EndedHistory ==
    ASSUME NEW op \in Operations, pc'[op] \in Returned, NEW s, NEW t
    PROVE  HistoryMemory(op, s, t)'
BY DEF HistoryMemory, Returned, Called, Asking

(* What the acting operation does not write stays as it is.                    *)
LEMMA HistoryFrame ==
    ASSUME IInv, HistoryInv, NEW op \in Operations, pc[op] \in Running, NEW place,
           pc' = [pc EXCEPT ![op] = place],
           NEW s2, NEW t2, s2 = HS(events', raw'), t2 = ES(events'),
           events' # <<>>, events'[1].kind = "prepared",
           HistoryFacts(events', raw', s2), EventFacts(events', raw', s2, t2),
           s2.seen \subseteq HS(events, raw).seen \cup {op},
           HistoryMemory(op, s2, t2)'
    PROVE  HistoryInv'
<1>1. pc \in [Operations -> Places] /\ lock = op
  BY DEF IInv, TypeOK, SingleMutator
<1>2. \A o \in Operations \ {op} : pc'[o] = pc[o] /\ pc[o] \notin Running
  BY <1>1, NoOperationIsFresh DEF IInv, SingleMutator
<1>3. ASSUME NEW o \in Operations, o # op PROVE HistoryMemory(o, s2, t2)'
  <2>1. pc'[o] = pc[o] /\ pc[o] \in {"new"} \cup Returned
    BY <1>1, <1>2, <1>3 DEF Places
  <2>2. CASE pc[o] \in Returned
    BY <2>1, <2>2, EndedHistory
  <2>3. CASE pc[o] = "new"
    <3>1. o \notin HS(events, raw).seen
      BY <2>3 DEF HistoryInv, HistoryMemory
    <3>2. o \notin s2.seen
      BY <1>3, <3>1
    <3>. QED
      BY <2>1, <2>3, <3>2 DEF HistoryMemory, Called, Asking
  <2>. QED
    BY <2>1, <2>2, <2>3
<1>4. \A o \in Operations : HistoryMemory(o, s2, t2)'
  BY <1>3
<1>. QED
  BY <1>4 DEF HistoryInv

LEMMA HistoryQuiet ==
    ASSUME IInv, HistoryInv, NEW op \in Operations, pc[op] \in Running, NEW place,
           pc' = [pc EXCEPT ![op] = place], events' = events, raw' = raw,
           \/ place \in Returned
           \/ \A s, t : s = HS(events, raw) /\ t = ES(events) => HistoryMemory(op, s, t)'
    PROVE  HistoryInv'
<1>. DEFINE s == HS(events, raw)
            t == ES(events)
<1>1. PICK s2, t2 : s2 = HS(events, raw) /\ t2 = ES(events)
  OBVIOUS
<1>2. s2 = HS(events', raw') /\ t2 = ES(events')
  BY <1>1
<1>3. HistoryMemory(op, s2, t2)'
  BY <1>1, GoesTo, EndedHistory
<1>4. /\ events' # <<>> /\ events'[1].kind = "prepared"
      /\ HistoryFacts(events', raw', s2) /\ EventFacts(events', raw', s2, t2)
      /\ s2.seen \subseteq HS(events, raw).seen \cup {op}
  BY <1>1 DEF HistoryInv
<1>. QED
  BY <1>2, <1>3, <1>4, HistoryFrame

LEMMA HistoryWrite ==
    ASSUME IInv, HistoryInv, NEW op \in Operations, pc[op] \in Running, NEW place,
           pc' = [pc EXCEPT ![op] = place], raw' = raw,
           NEW row \in Rows, row.op = op, NEW s2, NEW t2,
           s2 = H!HistoryStep(HS(events, raw), row, raw), t2 = H!EventStep(ES(events), row),
           Accepted(events, raw, row, HS(events, raw), ES(events)),
           \/ events' = Append(events, row) /\ (place \in Returned \/ HistoryMemory(op, s2, t2)')
           \/ events' = events /\ place \in Returned
    PROVE  HistoryInv'
<1>1. CASE events' = events /\ place \in Returned
  BY <1>1, HistoryQuiet
<1>2. CASE events' = Append(events, row) /\ (place \in Returned \/ HistoryMemory(op, s2, t2)')
  <2>1. events \in Seq(Rows) /\ events # <<>> /\ events[1].kind = "prepared"
    BY DEF IInv, TypeOK, HistoryInv
  <2>2. s2 = HS(events', raw') /\ t2 = ES(events')
    BY <1>2, <2>1, StatesOfAppend
  <2>3. events' # <<>> /\ events'[1].kind = "prepared"
    BY <1>2, <2>1
  <2>4. /\ HistoryFacts(events', raw', s2) /\ EventFacts(events', raw', s2, t2)
        /\ s2.seen \subseteq HS(events, raw).seen \cup {op}
    BY <1>2 DEF Accepted
  <2>5. HistoryMemory(op, s2, t2)'
    BY <1>2, GoesTo, EndedHistory
  <2>. QED
    BY <2>2, <2>3, <2>4, <2>5, HistoryFrame
<1>. QED
  BY <1>1, <1>2

-----------------------------------------------------------------------------
(* History: the steps *)

(* Between requests nothing is owed and the memory holds the position.         *)
LEMMA BetweenRequests ==
    ASSUME IInv, RepairInv, NEW op \in Operations,
           \/ pc[op] \in {"ready", "epoch", "item"}
           \/ pc[op] = "finished" /\ mem.reason = "none"
    PROVE  /\ ~Open(events) /\ ~Marked(events) /\ ~Completed(events)
           /\ ~NeedsMarker(events, raw) /\ ~NeedsCompletion(events, raw)
           /\ Reason(events, raw) \notin {"authentication_stopped", "ambiguous_delivery"}
           /\ NextOrdinal(events, raw) = mem.ordinal
           /\ pc[op] # "finished" => NextAttempt(events, raw) = mem.attempt
           /\ mem.ordinal \in Ordinals /\ mem.ordinal # PlanLength
           /\ RequestHistory(events) =>
                 Start(events).call \in Nat /\ Start(events).call + 1 = Len(raw)
           /\ ~RequestHistory(events) => Len(raw) = 0
<1>1. /\ TypeOK /\ LedgerInv /\ MemoryInv(op) /\ mem.ordinal \in Ordinals /\ TerminalRowsEnd
      /\ ~TerminalMarkerCommitted
  BY HolderMemory, LivePosition DEF IInv, RepairInv, Resolved
<1>2. ~Marked(events) /\ ~Completed(events)
  BY <1>1, NoTerminalRow
<1>3. /\ ~Open(events) /\ NextOrdinal(events, raw) = mem.ordinal
      /\ RequestHistory(events) => Reason(events, raw) \in Resolved \cup {"none"}
      /\ pc[op] # "finished" => NextAttempt(events, raw) = mem.attempt
  <2>1. CASE pc[op] \in {"ready", "epoch", "item"}
    BY <1>1, <2>1 DEF MemoryInv, PositionIsNext
  <2>2. CASE pc[op] = "finished" /\ mem.reason = "none"
    BY <2>2, FinishedPosition
  <2>. QED
    BY <2>1, <2>2
<1>4. Reason(events, raw) \in Resolved \cup {"none", "missing"}
  BY <1>3 DEF Reason, HasRaw
<1>5. Reason(events, raw) \notin {"authentication_stopped", "ambiguous_delivery"}
  BY <1>4 DEF Resolved
<1>6. ~NeedsMarker(events, raw)
  BY <1>4 DEF NeedsMarker, MarkerOf, Resolved
<1>7. mem.ordinal # PlanLength
  BY <1>1, PlanIsNotEmpty DEF Ordinals
<1>8. RequestHistory(events) =>
         Start(events).call \in Nat /\ Start(events).call + 1 = Len(raw)
  <2>1. RequestHistory(events) => HasRaw(events, raw) /\ Start(events) \in Rows
    BY <1>1, <1>3, LastRow DEF LedgerInv, StartIsCurrent
  <2>. QED
    BY <1>1, <2>1, LastRow DEF Rows
<1>9. ~RequestHistory(events) => Len(raw) = 0
  BY <1>1 DEF LedgerInv, StartIsCurrent
<1>. QED
  BY <1>1, <1>2, <1>3, <1>5, <1>6, <1>7, <1>8, <1>9 DEF NeedsCompletion

LEMMA StartExecutionAccepted ==
    ASSUME IInv, RepairInv, HistoryInv, NEW op \in Operations, StartExecution(op)
    PROVE  HistoryInv'
<1>. DEFINE row == Event("execution_started", op, FALSE, mem.ordinal, 0, 0)
            s == HS(events, raw)
            t == ES(events)
<1>1. /\ row \in Rows /\ row.kind = "execution_started" /\ row.op = op /\ row.item = mem.ordinal
  BY HolderMemory DEF Event, Rows
<1>2. /\ pc[op] = "ready" /\ pc[op] \in Running /\ events \in Seq(Rows)
      /\ HistoryFacts(events, raw, s) /\ EventFacts(events, raw, s, t)
      /\ HistoryMemory(op, s, t)
  BY DEF StartExecution, Running, HistoryInv, IInv, TypeOK
<1>. HIDE DEF row, s, t
<1>. PICK s2, t2 : s2 = H!HistoryStep(s, row, raw) /\ t2 = H!EventStep(t, row)
  OBVIOUS
<1>3. Known(s, row)
  BY <1>1, <1>2 DEF HistoryMemory, Known
<1>4. /\ Accepted(events, raw, row, s, t)
      /\ s2.epoch = row.op /\ s2.hadCall = FALSE /\ t2.resume = row.item
  <2>1. /\ ~Open(events) /\ ~Marked(events) /\ ~Completed(events)
        /\ ~NeedsMarker(events, raw) /\ ~NeedsCompletion(events, raw)
        /\ NextOrdinal(events, raw) # PlanLength /\ row.item = NextOrdinal(events, raw)
        /\ RequestHistory(events) => Start(events).call \in Nat
    BY <1>1, <1>2, BetweenRequests
  <2>. QED
    BY <1>1, <1>2, <1>3, <2>1, AcceptStarted
<1>5. /\ raw' = raw
      /\ \/ events' = Append(events, row) /\ mem' = mem /\ pc' = [pc EXCEPT ![op] = "epoch"]
         \/ /\ events' = Append(events, row) \/ events' = events
            /\ pc' = [pc EXCEPT ![op] = "failed"]
  BY DEF StartExecution, AppendEvent, Continue, Return, Goto, row
<1>6. ASSUME mem' = mem, pc' = [pc EXCEPT ![op] = "epoch"] PROVE HistoryMemory(op, s2, t2)'
  <2>1. pc'[op] = "epoch"
    BY <1>6, GoesTo
  <2>. QED
    BY <1>1, <1>4, <1>6, <2>1 DEF HistoryMemory, Called, Asking
<1>. QED
  BY <1>1, <1>2, <1>4, <1>5, <1>6, HistoryWrite DEF s, t, Returned

LEMMA StopAccepted ==
    ASSUME IInv, RepairInv, HistoryInv, NEW op \in Operations, Interrupt(op) \/ Block(op)
    PROVE  HistoryInv'
<1>. DEFINE interrupted == Event("execution_interrupted", op, FALSE, mem.ordinal, 0, 0)
            blocked == Event("execution_blocked", op, FALSE, 0, 0, 0)
            s == HS(events, raw)
            t == ES(events)
<1>1. /\ interrupted \in Rows /\ interrupted.kind = "execution_interrupted"
      /\ interrupted.op = op /\ interrupted.item = mem.ordinal
      /\ blocked \in Rows /\ blocked.kind = "execution_blocked" /\ blocked.op = op
  BY HolderMemory DEF Event, Rows
<1>. HIDE DEF interrupted, blocked, s, t
<1>2. /\ pc[op] \in {"epoch", "item"} \/ (pc[op] = "finished" /\ mem.reason = "none")
      /\ pc[op] \in Running /\ events \in Seq(Rows) /\ op # NoOperation
      /\ HistoryFacts(events, raw, s) /\ EventFacts(events, raw, s, t)
      /\ HistoryMemory(op, s, t)
  BY NoOperationIsFresh DEF Interrupt, Block, Running, HistoryInv, IInv, TypeOK, s, t
<1>3. PICK row \in {interrupted, blocked} :
        /\ raw' = raw /\ (row = blocked => pc[op] = "epoch")
        /\ events' = Append(events, row) \/ events' = events
        /\ pc' = [pc EXCEPT ![op] = "operational_stop"] \/ pc' = [pc EXCEPT ![op] = "failed"]
  <2>1. ASSUME Interrupt(op)
        PROVE  /\ raw' = raw
               /\ events' = Append(events, interrupted) \/ events' = events
               /\ pc' = [pc EXCEPT ![op] = "operational_stop"] \/ pc' = [pc EXCEPT ![op] = "failed"]
    BY <2>1 DEF Interrupt, AppendEvent, Return, Goto, interrupted
  <2>2. ASSUME Block(op)
        PROVE  /\ raw' = raw /\ pc[op] = "epoch"
               /\ events' = Append(events, blocked) \/ events' = events
               /\ pc' = [pc EXCEPT ![op] = "operational_stop"] \/ pc' = [pc EXCEPT ![op] = "failed"]
    BY <2>2 DEF Block, AppendEvent, Return, Goto, blocked
  <2>3. interrupted # blocked
    BY <1>1
  <2>. QED
    BY <2>1, <2>2, <2>3
<1>4. Accepted(events, raw, row, s, t)
  <2>1. /\ ~Open(events) /\ ~Marked(events) /\ ~Completed(events)
        /\ ~NeedsMarker(events, raw) /\ ~NeedsCompletion(events, raw)
        /\ NextOrdinal(events, raw) = mem.ordinal /\ mem.ordinal \in Ordinals
    BY <1>2, BetweenRequests
  <2>2. row.op = s.epoch /\ row.op # NoOperation /\ row \in Rows
    BY <1>1, <1>2, <1>3 DEF HistoryMemory, Called
  <2>3. \/ row.kind = "execution_blocked" /\ ~s.hadCall
        \/ /\ row.kind = "execution_interrupted" /\ row.item = NextOrdinal(events, raw)
           /\ ~s.hadCall => row.item = t.resume
    BY <1>1, <1>2, <1>3, <2>1 DEF HistoryMemory, Called
  <2>. QED
    BY <1>2, <2>1, <2>2, <2>3, AcceptStopped
<1>. QED
  BY <1>1, <1>2, <1>3, <1>4, HistoryWrite DEF s, t, Returned

LEMMA StartRequestAccepted ==
    ASSUME IInv, RepairInv, HistoryInv, NEW op \in Operations, StartRequest(op)
    PROVE  HistoryInv'
<1>. DEFINE row == RequestStarted(op, mem.ordinal, mem.attempt, Len(raw))
            s == HS(events, raw)
            t == ES(events)
<1>1. /\ row \in Rows /\ row.kind = "request_started" /\ row.op = op /\ row.item = mem.ordinal
      /\ row.attempt = mem.attempt /\ row.call = Len(raw) /\ Len(raw) \in Nat
  BY HolderMemory DEF RequestStarted, Event, Rows, IInv, TypeOK
<1>2. /\ pc[op] = "item" /\ pc[op] \in Running /\ events \in Seq(Rows) /\ op # NoOperation
      /\ HistoryFacts(events, raw, s) /\ EventFacts(events, raw, s, t)
      /\ HistoryMemory(op, s, t)
  BY NoOperationIsFresh DEF StartRequest, Running, HistoryInv, IInv, TypeOK
<1>. HIDE DEF row, s, t
<1>. PICK s2, t2 : s2 = H!HistoryStep(s, row, raw) /\ t2 = H!EventStep(t, row)
  OBVIOUS
<1>3. Accepted(events, raw, row, s, t) /\ s2.epoch = s.epoch /\ s2.hadCall
  <2>1. /\ ~Open(events) /\ ~Marked(events) /\ ~Completed(events) /\ ~NeedsMarker(events, raw)
        /\ Reason(events, raw) \notin {"authentication_stopped", "ambiguous_delivery"}
        /\ row.item = NextOrdinal(events, raw) /\ row.attempt = NextAttempt(events, raw)
        /\ RequestHistory(events) => Start(events).call + 1 = Len(raw)
        /\ ~RequestHistory(events) => Len(raw) = 0
    BY <1>1, <1>2, BetweenRequests
  <2>2. /\ row.op = s.epoch /\ row.op # NoOperation
        /\ ~s.hadCall => row.item = t.resume
    BY <1>1, <1>2 DEF HistoryMemory
  <2>. QED
    BY <1>1, <1>2, <2>1, <2>2, AcceptRequest
<1>4. /\ raw' = raw
      /\ \/ events' = Append(events, row) /\ mem' = mem /\ pc' = [pc EXCEPT ![op] = "started"]
         \/ /\ events' = Append(events, row) \/ events' = events
            /\ pc' = [pc EXCEPT ![op] = "failed"]
  BY DEF StartRequest, AppendEvent, Continue, Return, Goto, row
<1>5. ASSUME events' = Append(events, row), mem' = mem, pc' = [pc EXCEPT ![op] = "started"]
      PROVE  HistoryMemory(op, s2, t2)'
  <2>1. pc'[op] = "started"
    BY <1>5, GoesTo
  <2>2. Start(events') = row
    BY <1>1, <1>2, <1>5, StartSays
  <2>3. events'[Len(events')] = row
    BY <1>1, <1>2, <1>5
  <2>. QED
    BY <1>1, <1>2, <1>3, <1>5, <2>1, <2>2, <2>3 DEF HistoryMemory, Called, Asking
<1>. QED
  BY <1>1, <1>2, <1>3, <1>4, <1>5, HistoryWrite DEF s, t, Returned

(* Taking the lock writes nothing, of nobody.                                  *)
LEMMA AcquireLockAccepted ==
    ASSUME IInv, HistoryInv, NEW op \in Operations, AcquireLock(op)
    PROVE  HistoryInv'
<1>1. PICK s, t : s = HS(events, raw) /\ t = ES(events)
  OBVIOUS
<1>2. /\ events' = events /\ raw' = raw /\ mem' = mem /\ pc[op] = "new"
      /\ pc \in [Operations -> Places] /\ \A o \in Operations : pc[o] \in Running => lock = o
      /\ pc' = [pc EXCEPT ![op] = "locked"] \/ pc' = [pc EXCEPT ![op] = "busy"]
  BY DEF AcquireLock, Goto, ledgers, IInv, TypeOK, SingleMutator
<1>3. ASSUME NEW o \in Operations PROVE HistoryMemory(o, s, t)'
  <2>1. HistoryMemory(o, s, t)
    BY <1>1 DEF HistoryInv
  <2>2. CASE o # op
    <3>1. pc'[o] = pc[o]
      BY <1>2, <2>2
    <3>. QED
      BY <1>2, <2>1, <3>1 DEF HistoryMemory
  <2>3. CASE o = op /\ pc'[op] = "locked"
    BY <1>2, <2>1, <2>3 DEF HistoryMemory, Called, Asking
  <2>4. CASE o = op /\ pc'[op] = "busy"
    BY <2>4, EndedHistory DEF Returned
  <2>. QED
    BY <1>2, <2>2, <2>3, <2>4
<1>4. s = HS(events', raw') /\ t = ES(events')
  BY <1>1, <1>2
<1>5. /\ events' # <<>> /\ events'[1].kind = "prepared"
      /\ HistoryFacts(events', raw', s) /\ EventFacts(events', raw', s, t)
  BY <1>1, <1>2 DEF HistoryInv
<1>. QED
  BY <1>3, <1>4, <1>5 DEF HistoryInv

(* Refusing, leaving and dying write nothing.                                  *)
LEMMA ReturnAccepted ==
    ASSUME IInv, HistoryInv, NEW op \in Operations, pc[op] \in Running,
           NEW result \in Returned, Return(op, result), UNCHANGED ledgers
    PROVE  HistoryInv'
BY HistoryQuiet DEF Return, Goto, ledgers

LEMMA PlanRecoveryAccepted ==
    ASSUME IInv, HistoryInv, NEW op \in Operations, PlanRecovery(op)
    PROVE  HistoryInv'
<1>1. /\ pc[op] = "locked" /\ pc[op] \in Running /\ pc' = [pc EXCEPT ![op] = "planned"]
      /\ events' = events /\ raw' = raw
  BY DEF PlanRecovery, Goto, ledgers, Running
<1>2. pc'[op] = "planned"
  BY <1>1, GoesTo
<1>3. ASSUME NEW s, NEW t, s = HS(events, raw) /\ t = ES(events)
      PROVE  HistoryMemory(op, s, t)'
  <2>1. HistoryMemory(op, s, t)
    BY <1>3 DEF HistoryInv
  <2>. QED
    BY <1>1, <1>2, <2>1 DEF HistoryMemory, Called, Asking
<1>. QED
  BY <1>1, <1>3, HistoryQuiet

(* Any row may be the first of a repair.                                       *)
LEMMA FirstPhase ==
    ASSUME NEW todo, todo # <<>> => Head(todo).kind \in {"tail_recovered_events",
               "tail_recovered_raw", "request_finished", "authentication_stopped",
               "delivery_ambiguous", "generation_completed"}
    PROVE  PhaseFits(todo, 0)
BY DEF PhaseFits, H!PhaseAllows

EndKinds == {"authentication_stopped", "delivery_ambiguous", "generation_completed"}

(* The first row of what the ledgers owe, and what is owed behind it.          *)
LEMMA FirstOwed ==
    ASSUME TypeOK, LedgerInv, NEW op \in Operations, RequiredRows(op) # <<>>,
           NEW row, NEW rest, row = Head(RequiredRows(op)), rest = Tail(RequiredRows(op))
    PROVE  \/ /\ NeedsFinish(events, raw) /\ row = FinishRow(op)
              /\ rest # <<>> => Head(rest).kind \in EndKinds
           \/ /\ ~NeedsFinish(events, raw) /\ NeedsMarker(events, raw)
              /\ row = MarkerRow(op) /\ rest = <<>>
           \/ /\ ~NeedsFinish(events, raw) /\ NeedsCompletion(events, raw)
              /\ row = CompletionRow(op) /\ rest = <<>>
<1>. DEFINE m == If(NeedsMarker(events, raw), MarkerRow(op))
            c == If(NeedsCompletion(events, raw), CompletionRow(op))
            more == m \o c
<1>1. /\ m \in Seq(Rows) /\ c \in Seq(Rows)
      /\ NeedsMarker(events, raw) => MarkerRow(op) \in Rows
      /\ NeedsCompletion(events, raw) => CompletionRow(op) \in Rows
      /\ NeedsFinish(events, raw) => FinishRow(op) \in Rows
  BY RequiredTyped, IfTyped
<1>2. \A x : <<x>> # <<>> /\ Head(<<x>>) = x /\ Tail(<<x>>) = <<>>
  OBVIOUS
<1>3. CASE ~NeedsFinish(events, raw)
  <2>1. NeedsMarker(events, raw) \/ NeedsCompletion(events, raw)
    BY <1>3, RequiredBy DEF NeedsRepair
  <2>. QED
    BY <1>2, <1>3, <2>1, RequiredBy
<1>4. CASE NeedsFinish(events, raw)
  <2>1. more \in Seq(Rows)
    BY <1>1, ConcatProperties
  <2>2. RequiredRows(op) = <<FinishRow(op)>> \o more
    BY <1>4, RequiredBy
  <2>3. /\ MarkerRow(op).kind = MarkerOf(Reason(events, raw))
        /\ CompletionRow(op).kind = "generation_completed"
        /\ NeedsMarker(events, raw) => MarkerOf(Reason(events, raw)) \in EndKinds
    BY DEF MarkerRow, CompletionRow, Marker, GenerationCompleted, Event, NeedsMarker, MarkerOf,
           EndKinds
  <2>4. more # <<>> => Head(more).kind \in EndKinds
    <3>1. CASE NeedsMarker(events, raw)
      <4>1. m = <<MarkerRow(op)>>
        BY <3>1 DEF If
      <4>. HIDE DEF m, c
      <4>2. Head(<<MarkerRow(op)>> \o c) = MarkerRow(op)
        BY <1>1, <3>1, Front
      <4>. QED
        BY <2>3, <3>1, <4>1, <4>2
    <3>2. CASE ~NeedsMarker(events, raw)
      <4>1. more = c
        BY <1>1, <3>2, NothingInFront
      <4>2. c # <<>> => NeedsCompletion(events, raw) /\ c = <<CompletionRow(op)>>
        BY DEF If
      <4>3. c # <<>> => Head(c) = CompletionRow(op)
        BY <1>2, <4>2
      <4>. HIDE DEF c, more
      <4>. QED
        BY <2>3, <4>1, <4>3 DEF EndKinds
    <3>. QED
      BY <3>1, <3>2
  <2>. HIDE DEF more
  <2>5. row = FinishRow(op) /\ rest = more
    BY <1>1, <1>4, <2>1, <2>2, Front
  <2>. QED
    BY <1>4, <2>4, <2>5
<1>. QED
  BY <1>3, <1>4

(* The first row a plan still holds; the row behind it goes on from its phase. *)
LEMMA FirstPlanned ==
    ASSUME TypeOK, LedgerInv, NEW op \in Operations, TodoRemains(op), mem.todo # <<>>,
           NEW row, NEW rest, row = Head(mem.todo), rest = Tail(mem.todo)
    PROVE  /\ \/ row = EventsAudit(op)
              \/ row = RawAudit(op)
              \/ NeedsFinish(events, raw) /\ row = FinishRow(op)
              \/ ~NeedsFinish(events, raw) /\ NeedsMarker(events, raw) /\ row = MarkerRow(op)
              \/ ~NeedsFinish(events, raw) /\ NeedsCompletion(events, raw)
                 /\ row = CompletionRow(op)
           /\ row.op = op /\ row.recovered = TRUE
           /\ row.kind \in {"tail_recovered_events", "tail_recovered_raw", "request_finished"}
                           \cup EndKinds
           /\ PhaseFits(rest, H!PhaseOf(row.kind))
<1>1. PICK x, y \in BOOLEAN : mem.todo = Remains(op, x, y)
  BY DEF TodoRemains
<1>2. /\ EventsAudit(op).kind = "tail_recovered_events"
      /\ RawAudit(op).kind = "tail_recovered_raw"
      /\ FinishRow(op).kind = "request_finished"
      /\ MarkerRow(op).kind = MarkerOf(Reason(events, raw))
      /\ CompletionRow(op).kind = "generation_completed"
      /\ \A r \in {EventsAudit(op), RawAudit(op), FinishRow(op), MarkerRow(op), CompletionRow(op)} :
            r.op = op /\ r.recovered = TRUE
      /\ NeedsMarker(events, raw) =>
            MarkerOf(Reason(events, raw)) \in {"authentication_stopped", "delivery_ambiguous"}
  BY DEF EventsAudit, RawAudit, FinishRow, MarkerRow, CompletionRow, RequestFinished, Marker,
         GenerationCompleted, Event, NeedsMarker, MarkerOf
<1>3. H!PhaseOf("tail_recovered_events") = 1 /\ H!PhaseOf("tail_recovered_raw") = 2
      /\ H!PhaseOf("request_finished") = 3
  BY DEF H!PhaseOf
<1>4. \A todo : todo # <<>> /\ RequiredRows(op) = todo =>
         Head(todo).kind \in {"request_finished"} \cup EndKinds
  <2>1. NeedsMarker(events, raw) => MarkerRow(op).kind \in EndKinds
    BY <1>2 DEF EndKinds
  <2>. QED
    BY <1>2, <2>1, FirstOwed DEF EndKinds
<1>5. \A todo, p : /\ todo # <<>> => Head(todo).kind \in EndKinds
                   /\ p = 3
                   => PhaseFits(todo, p)
  BY DEF PhaseFits, EndKinds, H!PhaseAllows
<1>6. \A todo, p : /\ todo # <<>> => Head(todo).kind \in {"request_finished"} \cup EndKinds
                   /\ p \in {1, 2}
                   => PhaseFits(todo, p)
  BY DEF PhaseFits, EndKinds, H!PhaseAllows
<1>7. \A todo, p : /\ todo # <<>> => Head(todo).kind = "tail_recovered_raw"
                   /\ p = 1
                   => PhaseFits(todo, p)
  BY DEF PhaseFits, H!PhaseAllows
<1>8. CASE x
  <2>1. row = EventsAudit(op) /\ rest = Remains(op, FALSE, y)
    BY <1>1, <1>8, FirstRemaining
  <2>2. /\ y => Head(rest) = RawAudit(op)
        /\ ~y => rest = RequiredRows(op)
    BY <2>1, FirstRemaining
  <2>3. PhaseFits(rest, 1)
    BY <1>2, <1>4, <1>6, <1>7, <2>2
  <2>. QED
    BY <1>2, <1>3, <2>1, <2>3
<1>9. CASE ~x /\ y
  <2>1. row = RawAudit(op) /\ rest = Remains(op, FALSE, FALSE)
    BY <1>1, <1>9, FirstRemaining
  <2>2. rest = RequiredRows(op)
    BY <2>1, FirstRemaining
  <2>3. PhaseFits(rest, 2)
    BY <1>4, <1>6, <2>2
  <2>. QED
    BY <1>2, <1>3, <2>1, <2>3
<1>10. CASE ~x /\ ~y
  <2>1. mem.todo = RequiredRows(op)
    BY <1>1, <1>10, FirstRemaining
  <2>2. \/ /\ NeedsFinish(events, raw) /\ row = FinishRow(op)
           /\ rest # <<>> => Head(rest).kind \in EndKinds
        \/ /\ ~NeedsFinish(events, raw) /\ NeedsMarker(events, raw)
           /\ row = MarkerRow(op) /\ rest = <<>>
        \/ /\ ~NeedsFinish(events, raw) /\ NeedsCompletion(events, raw)
           /\ row = CompletionRow(op) /\ rest = <<>>
    BY <2>1, FirstOwed
  <2>3. PhaseFits(rest, H!PhaseOf(row.kind))
    <3>1. CASE row = FinishRow(op) /\ (rest # <<>> => Head(rest).kind \in EndKinds)
      BY <1>2, <1>3, <1>5, <3>1
    <3>2. CASE rest = <<>>
      BY <3>2 DEF PhaseFits
    <3>. QED
      BY <2>2, <3>1, <3>2
  <2>4. row.kind \in {"request_finished"} \cup EndKinds /\ row.op = op /\ row.recovered = TRUE
    BY <1>2, <2>2 DEF EndKinds
  <2>. QED
    BY <2>2, <2>3, <2>4
<1>. QED
  BY <1>8, <1>9, <1>10

LEMMA BeginRepairAccepted ==
    ASSUME IInv, RepairInv, HistoryInv, NEW op \in Operations,
           BeginRepair(op) \/ TruncateEvents(op) \/ TruncateRaw(op)
    PROVE  HistoryInv'
<1>1. /\ pc[op] \in {"planned", "recovering"} /\ pc[op] \in Running
      /\ events' = events /\ raw' = raw /\ mem' = mem
  BY DEF BeginRepair, TruncateEvents, TruncateRaw, Continue, ledgers, Running
<1>2. pc' = [pc EXCEPT ![op] = "recovering"]
  <2>1. BeginRepair(op) => pc' = [pc EXCEPT ![op] = "recovering"]
    BY DEF BeginRepair, Continue, Goto
  <2>2. TruncateEvents(op) \/ TruncateRaw(op) => pc' = pc /\ pc[op] = "recovering"
    BY DEF TruncateEvents, TruncateRaw
  <2>. QED
    BY <2>1, <2>2, StaysThere
<1>3. pc'[op] = "recovering"
  BY <1>2, GoesTo
<1>4. PhaseFits(mem.todo, 0)
  <2>1. TypeOK /\ LedgerInv /\ TodoRemains(op)
    BY <1>1 DEF IInv, RepairInv, RepairMemory
  <2>2. mem.todo # <<>> =>
          Head(mem.todo).kind \in {"tail_recovered_events", "tail_recovered_raw",
                                   "request_finished"} \cup EndKinds
    BY <2>1, FirstPlanned
  <2>. QED
    BY <2>2, FirstPhase DEF EndKinds
<1>5. ASSUME NEW s, NEW t, s = HS(events, raw) /\ t = ES(events)
      PROVE  HistoryMemory(op, s, t)'
  <2>1. HistoryMemory(op, s, t) /\ s.repair \in s.seen
    BY <1>5 DEF HistoryInv, HistoryFacts
  <2>2. op \notin s.seen \/ op = s.repair
    BY <1>1, <2>1 DEF HistoryMemory
  <2>3. PhaseFits(mem.todo, From(s, op))
    <3>1. CASE pc[op] = "planned"
      <4>1. From(s, op) = 0
        BY <2>1, <3>1 DEF HistoryMemory, From
      <4>. QED
        BY <1>4, <4>1
    <3>2. CASE pc[op] = "recovering"
      BY <2>1, <3>2 DEF HistoryMemory
    <3>. QED
      BY <1>1, <3>1, <3>2
  <2>. QED
    BY <1>1, <1>3, <2>2, <2>3 DEF HistoryMemory, Called, Asking
<1>. QED
  BY <1>1, <1>2, <1>5, HistoryQuiet

LEMMA FinishRepairAccepted ==
    ASSUME IInv, HistoryInv, NEW op \in Operations, FinishRepair(op)
    PROVE  HistoryInv'
<1>1. /\ pc[op] = "recovering" /\ pc[op] \in Running /\ events' = events /\ raw' = raw
  BY DEF FinishRepair, ledgers, Running
<1>2. PICK place \in {"complete", "operational_stop", "ready"} : pc' = [pc EXCEPT ![op] = place]
  BY DEF FinishRepair, Return, Goto
<1>3. ASSUME place = "ready", NEW s, NEW t, s = HS(events, raw) /\ t = ES(events)
      PROVE  HistoryMemory(op, s, t)'
  <2>1. HistoryMemory(op, s, t) /\ pc'[op] = "ready"
    BY <1>2, <1>3, GoesTo DEF HistoryInv
  <2>. QED
    BY <1>1, <2>1 DEF HistoryMemory, Called, Asking
<1>. QED
  BY <1>1, <1>2, <1>3, HistoryQuiet DEF Returned

(* Steps of an epoch that write nothing.                                       *)
LEMMA SilentAccepted ==
    ASSUME IInv, RepairInv, HistoryInv, NEW op \in Operations,
           BindProvider(op) \/ CallProvider(op) \/ NextItem(op) \/ Backoff(op)
    PROVE  HistoryInv'
<1>1. /\ pc[op] \in Running /\ events' = events /\ raw' = raw
  BY DEF BindProvider, CallProvider, NextItem, Backoff, Continue, ledgers, Running
<1>2. PICK place \in {"item", "calling", "completing"} :
        /\ pc' = [pc EXCEPT ![op] = place]
        /\ place = "calling" => pc[op] = "started"
        /\ place = "completing" => pc[op] = "finished"
        /\ place = "item" => pc[op] = "finished" \/ (pc[op] = "epoch" /\ mem' = mem)
  <2>1. BindProvider(op) => pc' = [pc EXCEPT ![op] = "item"] /\ pc[op] = "epoch" /\ mem' = mem
    BY DEF BindProvider, Continue, Goto
  <2>2. CallProvider(op) => pc' = [pc EXCEPT ![op] = "calling"] /\ pc[op] = "started"
    BY DEF CallProvider, Continue, Goto
  <2>3. NextItem(op) => /\ pc[op] = "finished"
                        /\ pc' = [pc EXCEPT ![op] = "completing"] \/ pc' = [pc EXCEPT ![op] = "item"]
    BY DEF NextItem, Continue, Goto
  <2>4. Backoff(op) => pc' = [pc EXCEPT ![op] = "item"] /\ pc[op] = "finished"
    BY DEF Backoff, Goto
  <2>. QED
    BY <2>1, <2>2, <2>3, <2>4
<1>3. pc'[op] = place
  BY <1>2, GoesTo
<1>4. ASSUME NEW s, NEW t, s = HS(events, raw) /\ t = ES(events)
      PROVE  HistoryMemory(op, s, t)'
  <2>1. HistoryMemory(op, s, t)
    BY <1>4 DEF HistoryInv
  <2>2. CASE place = "calling"
    BY <1>1, <1>2, <1>3, <2>1, <2>2 DEF HistoryMemory, Called, Asking
  <2>3. CASE place = "completing"
    BY <1>1, <1>2, <1>3, <2>1, <2>3 DEF HistoryMemory, Called, Asking
  <2>4. CASE place = "item"
    BY <1>1, <1>2, <1>3, <2>1, <2>4 DEF HistoryMemory, Called, Asking
  <2>. QED
    BY <2>2, <2>3, <2>4
<1>. QED
  BY <1>1, <1>2, <1>4, HistoryQuiet

(* An exhausted retry was the last attempt there is.                           *)
LEMMA ProviderReturnsAccepted ==
    ASSUME IInv, HistoryInv, NEW op \in Operations, ProviderReturns(op)
    PROVE  HistoryInv'
<1>1. PICK e \in Evidence : mem' = [mem EXCEPT !.reason = Decision(e, mem.attempt)]
  BY DEF ProviderReturns
<1>2. /\ pc[op] = "calling" /\ pc[op] \in Running /\ events' = events /\ raw' = raw
      /\ pc' = [pc EXCEPT ![op] = "answered"]
  BY DEF ProviderReturns, Goto, ledgers, Running
<1>3. pc'[op] = "answered"
  BY <1>2, GoesTo
<1>4. mem'.reason = Decision(e, mem.attempt) /\ mem'.attempt = mem.attempt
  BY <1>1, HolderMemory DEF Memories
<1>5. Decision(e, mem.attempt) = "retry_exhausted" => mem.attempt = MaxAttempts
  <2>1. mem.attempt \in 1 .. MaxTransientRetries + 1
    BY HolderMemory DEF MaxAttempts
  <2>. QED
    BY <2>1, RetriesAreNatural DEF Decision, Definite, MaxAttempts
<1>6. ASSUME NEW s, NEW t, s = HS(events, raw) /\ t = ES(events)
      PROVE  HistoryMemory(op, s, t)'
  <2>1. HistoryMemory(op, s, t)
    BY <1>6 DEF HistoryInv
  <2>. QED
    BY <1>2, <1>3, <1>4, <1>5, <2>1 DEF HistoryMemory, Called, Asking
<1>. QED
  BY <1>2, <1>6, HistoryQuiet

(* Both acceptors take the row a repair writes next.                           *)
LEMMA OwedRowAccepted ==
    ASSUME TypeOK, LedgerInv, TerminalRowsEnd, NEW op \in Operations, TodoRemains(op),
           mem.todo # <<>>, NEW row \in Rows, row = Head(mem.todo), NEW s, NEW t,
           HistoryFacts(events, raw, s), EventFacts(events, raw, s, t), MayRepair(s, row)
    PROVE  LET s2 == H!HistoryStep(s, row, raw)
           IN  /\ Accepted(events, raw, row, s, t)
               /\ s2.repair = op /\ s2.phase = H!PhaseOf(row.kind)
<1>. PICK rest : rest = Tail(mem.todo)
  OBVIOUS
<1>. PICK s2 : s2 = H!HistoryStep(s, row, raw)
  OBVIOUS
<1>1. /\ \/ row = EventsAudit(op)
         \/ row = RawAudit(op)
         \/ NeedsFinish(events, raw) /\ row = FinishRow(op)
         \/ ~NeedsFinish(events, raw) /\ NeedsMarker(events, raw) /\ row = MarkerRow(op)
         \/ ~NeedsFinish(events, raw) /\ NeedsCompletion(events, raw) /\ row = CompletionRow(op)
      /\ row.op = op /\ row.recovered = TRUE
  BY FirstPlanned
<1>2. /\ ~Marked(events) /\ ~Completed(events) /\ InOrder(s, row) /\ events \in Seq(Rows)
  BY <1>1, PlannedRow, NoTerminalRow DEF InOrder, TypeOK
<1>3. CASE row = EventsAudit(op) \/ row = RawAudit(op)
  <2>1. /\ row.kind \in {"tail_recovered_events", "tail_recovered_raw"}
        /\ IF row.kind = "tail_recovered_raw" /\ RawlessOpen(events, raw)
           THEN row.item = Start(events).item /\ row.attempt = Start(events).attempt
           ELSE row.item = 0 /\ row.attempt = 0
    BY <1>3 DEF EventsAudit, RawAudit, Event
  <2>2. Accepted(events, raw, row, s, t) /\ s2.repair = row.op /\ s2.phase = H!PhaseOf(row.kind)
    BY <1>2, <2>1, AcceptAudit
  <2>. QED
    BY <1>1, <2>2
<1>4. CASE NeedsFinish(events, raw) /\ row = FinishRow(op)
  <2>1. /\ row.kind = "request_finished" /\ row.item = Start(events).item
        /\ row.attempt = Start(events).attempt /\ row.call = Start(events).call
    BY <1>4 DEF FinishRow, RequestFinished, Event
  <2>2. Accepted(events, raw, row, s, t) /\ RepairSeen(s, s2, row)
    BY <1>1, <1>2, <1>4, <2>1, AcceptFinish
  <2>. QED
    BY <1>1, <2>2 DEF RepairSeen
<1>5. CASE \/ ~NeedsFinish(events, raw) /\ NeedsMarker(events, raw) /\ row = MarkerRow(op)
           \/ ~NeedsFinish(events, raw) /\ NeedsCompletion(events, raw) /\ row = CompletionRow(op)
  <2>1. NeedsMarker(events, raw) => Reason(events, raw) # "missing"
    BY DEF NeedsMarker, MarkerOf
  <2>2. HasRaw(events, raw) /\ (NeedsMarker(events, raw) => ~NeedsCompletion(events, raw))
    BY <1>5, <2>1, PositionSays, RequiredBy DEF NeedsCompletion
  <2>3. ~Open(events)
    BY <1>5, <2>2 DEF NeedsFinish
  <2>4. \/ /\ row.kind \in Stops /\ NeedsMarker(events, raw) /\ ~NeedsCompletion(events, raw)
           /\ row.kind = MarkerOf(Reason(events, raw))
           /\ row.item = Start(events).item /\ row.attempt = Start(events).attempt
        \/ /\ row.kind = "generation_completed"
           /\ NeedsCompletion(events, raw) /\ ~NeedsMarker(events, raw)
           /\ row.item = PlanLength - 1
    <3>1. NeedsMarker(events, raw) => MarkerOf(Reason(events, raw)) \in Stops
      BY DEF NeedsMarker, MarkerOf, Stops
    <3>. QED
      BY <1>5, <2>2, <3>1 DEF MarkerRow, CompletionRow, Marker, GenerationCompleted, Event
  <2>5. Accepted(events, raw, row, s, t) /\ RepairSeen(s, s2, row)
    BY <1>1, <1>2, <2>3, <2>4, AcceptEnd
  <2>. QED
    BY <1>1, <2>5 DEF RepairSeen
<1>. QED
  BY <1>1, <1>3, <1>4, <1>5

LEMMA AppendRecoveredAccepted ==
    ASSUME IInv, RepairInv, HistoryInv, NEW op \in Operations, AppendRecovered(op)
    PROVE  HistoryInv'
<1>. PICK row, rest : row = Head(mem.todo) /\ rest = Tail(mem.todo)
  OBVIOUS
<1>. PICK s, t : s = HS(events, raw) /\ t = ES(events)
  OBVIOUS
<1>. PICK s2, t2 : s2 = H!HistoryStep(s, row, raw) /\ t2 = H!EventStep(t, row)
  OBVIOUS
<1>1. /\ pc[op] = "recovering" /\ pc[op] \in Running /\ mem.todo # <<>>
      /\ mem \in Memories /\ mem.todo \in Seq(OwedRows)
      /\ TypeOK /\ LedgerInv /\ TerminalRowsEnd /\ TodoRemains(op)
  BY DEF AppendRecovered, Running, IInv, TypeOK, MemoryInv, TodoIsOwed, RepairInv, RepairMemory
<1>2. row \in Rows
  <2>1. Head(mem.todo) \in OwedRows
    BY <1>1, HeadTailProperties
  <2>. QED
    BY <2>1 DEF OwedRows
<1>3. row.op = op /\ PhaseFits(rest, H!PhaseOf(row.kind))
  BY <1>1, FirstPlanned
<1>4. /\ HistoryFacts(events, raw, s) /\ EventFacts(events, raw, s, t)
      /\ HistoryMemory(op, s, t)
  BY DEF HistoryInv
<1>5. MayRepair(s, row)
  BY <1>1, <1>3, <1>4 DEF HistoryMemory, MayRepair, Known, PhaseFits
<1>6. /\ Accepted(events, raw, row, s, t)
      /\ s2.repair = op /\ s2.phase = H!PhaseOf(row.kind)
  BY <1>1, <1>2, <1>4, <1>5, OwedRowAccepted
<1>7. /\ raw' = raw
      /\ \/ events' = Append(events, row) /\ pc' = pc /\ mem' = [mem EXCEPT !.todo = rest]
         \/ /\ events' = Append(events, row) \/ events' = events
            /\ pc' = [pc EXCEPT ![op] = "failed"]
  BY DEF AppendRecovered, AppendEvent, Return, Goto
<1>8. CASE events' = Append(events, row) /\ pc' = pc /\ mem' = [mem EXCEPT !.todo = rest]
  <2>1. mem'.todo = rest
    BY <1>1, <1>8 DEF Memories
  <2>2. pc' = [pc EXCEPT ![op] = "recovering"] /\ pc'[op] = "recovering"
    BY <1>1, <1>8, StaysThere
  <2>3. PhaseFits(mem'.todo, From(s2, op))
    BY <1>3, <1>6, <2>1 DEF From
  <2>4. HistoryMemory(op, s2, t2)'
    BY <1>6, <2>2, <2>3 DEF HistoryMemory, Called, Asking
  <2>. QED
    BY <1>1, <1>2, <1>3, <1>6, <1>7, <1>8, <2>2, <2>4, HistoryWrite
<1>9. CASE /\ events' = Append(events, row) \/ events' = events
           /\ pc' = [pc EXCEPT ![op] = "failed"]
  BY <1>1, <1>2, <1>3, <1>6, <1>7, <1>9, HistoryWrite DEF Returned
<1>. QED
  BY <1>7, <1>8, <1>9

LEMMA FinishRequestAccepted ==
    ASSUME IInv, RepairInv, HistoryInv, NEW op \in Operations, FinishRequest(op)
    PROVE  HistoryInv'
<1>10. PICK row : row = RequestFinished(op, FALSE, Start(events))
  OBVIOUS
<1>11. PICK s, t : s = HS(events, raw) /\ t = ES(events)
  OBVIOUS
<1>12. PICK s2, t2 : s2 = H!HistoryStep(s, row, raw) /\ t2 = H!EventStep(t, row)
  OBVIOUS
<1>1. /\ pc[op] = "recorded" /\ pc[op] \in Running /\ TypeOK /\ LedgerInv /\ TerminalRowsEnd
      /\ Open(events) /\ op # NoOperation
  BY NoOperationIsFresh DEF FinishRequest, Running, IInv, RepairInv, RepairMemory
<1>2. StartIsMine /\ HasRaw(events, raw) /\ Start(events) \in Rows
  BY <1>1, LastRow, HolderMemory DEF IInv, MemoryInv, StartIsMine
<1>3. /\ row \in Rows /\ row.kind = "request_finished" /\ row.op = op /\ row.recovered = FALSE
      /\ row.item = Start(events).item /\ row.attempt = Start(events).attempt
      /\ row.call = Start(events).call
  BY <1>2, <1>10 DEF RequestFinished, Event, Rows
<1>4. /\ HistoryFacts(events, raw, s) /\ EventFacts(events, raw, s, t)
      /\ HistoryMemory(op, s, t)
  BY <1>11 DEF HistoryInv
<1>5. s.epoch = op /\ Start(events).op = op /\ s.hadCall
  BY <1>1, <1>4 DEF HistoryMemory, Called, Asking
<1>6. NeedsFinish(events, raw) /\ ~Marked(events) /\ ~Completed(events) /\ InOrder(s, row)
  BY <1>1, <1>2, <1>3, <1>5 DEF NeedsFinish, TerminalRowsEnd, InOrder
<1>7. /\ Accepted(events, raw, row, s, t)
      /\ s2.finishOp = row.op /\ s2.hadCall = s.hadCall /\ s2.epoch = s.epoch
  <2>1. events \in Seq(Rows) /\ row.op = Start(events).op
    BY <1>1, <1>3, <1>5 DEF TypeOK
  <2>2. ~row.recovered => row.op = Start(events).op
    BY <2>1
  <2>3. LET x == H!HistoryStep(s, row, raw)
        IN  /\ Accepted(events, raw, row, s, t)
            /\ x.finishOp = row.op /\ x.hadCall = s.hadCall /\ RepairSeen(s, x, row)
            /\ ~row.recovered => x.epoch = s.epoch
    BY <1>3, <1>4, <1>6, <2>1, <2>2, AcceptFinish
  <2>. QED
    BY <1>3, <1>12, <2>3
<1>8. /\ raw' = raw
      /\ \/ events' = Append(events, row) /\ pc' = [pc EXCEPT ![op] = "finished"]
         \/ /\ events' = Append(events, row) \/ events' = events
            /\ pc' = [pc EXCEPT ![op] = "failed"]
  BY <1>10 DEF FinishRequest, AppendEvent, Continue, Return, Goto
<1>9. ASSUME pc' = [pc EXCEPT ![op] = "finished"] PROVE HistoryMemory(op, s2, t2)'
  <2>1. pc'[op] = "finished"
    BY <1>9, GoesTo
  <2>. QED
    BY <1>3, <1>5, <1>7, <2>1 DEF HistoryMemory, Called, Asking
<1>. QED
  BY <1>1, <1>3, <1>7, <1>8, <1>9, <1>11, <1>12, HistoryWrite DEF Returned

LEMMA EndAccepted ==
    ASSUME IInv, RepairInv, HistoryInv, NEW op \in Operations,
           MarkStop(op) \/ CompleteGeneration(op)
    PROVE  HistoryInv'
<1>. PICK mark, complete : /\ mark = Marker(MarkerOf(mem.reason), op, FALSE, Start(events))
                           /\ complete = GenerationCompleted(op, FALSE)
  OBVIOUS
<1>. PICK s, t : s = HS(events, raw) /\ t = ES(events)
  OBVIOUS
<1>1. PICK row \in {mark, complete} :
         /\ \/ /\ row = mark /\ pc[op] = "finished" /\ MarkerOf(mem.reason) # "none"
            \/ row = complete /\ pc[op] = "completing"
         /\ raw' = raw
         /\ events' = Append(events, row) \/ events' = events
         /\ \/ pc' = [pc EXCEPT ![op] = "operational_stop"]
            \/ pc' = [pc EXCEPT ![op] = "complete"]
            \/ pc' = [pc EXCEPT ![op] = "failed"]
  <2>1. ASSUME MarkStop(op)
        PROVE  /\ pc[op] = "finished" /\ MarkerOf(mem.reason) # "none" /\ raw' = raw
               /\ events' = Append(events, mark) \/ events' = events
               /\ pc' = [pc EXCEPT ![op] = "operational_stop"] \/ pc' = [pc EXCEPT ![op] = "failed"]
    BY <2>1 DEF MarkStop, AppendEvent, Return, Goto
  <2>2. ASSUME CompleteGeneration(op)
        PROVE  /\ pc[op] = "completing" /\ raw' = raw
               /\ events' = Append(events, complete) \/ events' = events
               /\ pc' = [pc EXCEPT ![op] = "complete"] \/ pc' = [pc EXCEPT ![op] = "failed"]
    BY <2>2 DEF CompleteGeneration, AppendEvent, Return, Goto
  <2>. QED
    BY <2>1, <2>2
<1>2. /\ pc[op] \in Running /\ TypeOK /\ LedgerInv /\ op # NoOperation
      /\ MarkerOf(mem.reason) # "none" => mem.reason \notin Resolved
      /\ MarkerOf(mem.reason) # "none" => MarkerOf(mem.reason) \in Stops
  BY <1>1, NoOperationIsFresh DEF Running, IInv, MarkerOf, Resolved, Stops
<1>3. /\ StartIsMine /\ ~Open(events) /\ Reason(events, raw) = mem.reason
      /\ Start(events) \in Rows
  BY <1>1, <1>2, FinishedPosition, LastRow DEF StartIsMine
<1>4. /\ ~TerminalMarkerCommitted
      /\ pc[op] = "completing" => NeedsCompletion(events, raw)
      /\ pc[op] = "finished" => NeedsMarker(events, raw)
  BY <1>1, <1>2, LivePosition
<1>5. ~Marked(events) /\ ~Completed(events)
  BY <1>2, <1>4, NoTerminalRow DEF RepairInv
<1>6. NeedsMarker(events, raw) => ~NeedsCompletion(events, raw)
  BY <1>2, RequiredBy
<1>7. /\ complete \in Rows /\ complete.kind = "generation_completed" /\ complete.op = op
      /\ complete.recovered = FALSE /\ complete.item = PlanLength - 1
      /\ mark.kind = MarkerOf(mem.reason) /\ mark.op = op /\ mark.recovered = FALSE
      /\ mark.item = Start(events).item /\ mark.attempt = Start(events).attempt
      /\ MarkerOf(mem.reason) # "none" => mark \in Rows
  BY <1>2, <1>3, HolderMemory DEF Marker, GenerationCompleted, Event, Rows, Stops
<1>8. /\ row \in Rows /\ row.op = op /\ row.recovered = FALSE
      /\ \/ /\ row.kind \in Stops /\ NeedsMarker(events, raw) /\ ~NeedsCompletion(events, raw)
            /\ row.kind = MarkerOf(Reason(events, raw))
            /\ row.item = Start(events).item /\ row.attempt = Start(events).attempt
         \/ /\ row.kind = "generation_completed"
            /\ NeedsCompletion(events, raw) /\ ~NeedsMarker(events, raw)
            /\ row.item = PlanLength - 1
  BY <1>1, <1>2, <1>3, <1>4, <1>6, <1>7
<1>9. /\ HistoryFacts(events, raw, s) /\ EventFacts(events, raw, s, t)
      /\ HistoryMemory(op, s, t)
  BY DEF HistoryInv
<1>10. s.epoch = op /\ s.finishOp = op /\ InOrder(s, row)
  BY <1>1, <1>2, <1>8, <1>9 DEF HistoryMemory, Called, Asking, InOrder
<1>11. Accepted(events, raw, row, s, t)
  BY <1>2, <1>3, <1>5, <1>8, <1>9, <1>10, AcceptEnd DEF TypeOK
<1>. QED
  BY <1>1, <1>2, <1>8, <1>11, HistoryWrite DEF Returned

(* The counts of calls announced and of raw rows consumed only grow.           *)
Counted(s) == DOMAIN s = HFields /\ s.call \in Nat /\ s.taken \in Nat

LEMMA OtherRowCounts ==
    ASSUME NEW s, Counted(s), NEW e, NEW rw, e.kind # "request_started"
    PROVE  LET t == H!HistoryStep(s, e, rw) IN Counted(t) /\ t.call = s.call
<1>. DEFINE t == H!HistoryStep(s, e, rw)
<1>1. CASE ~s.ok \/ s.suffix
  BY <1>1, FieldsAre DEF Counted, H!HistoryStep, H!Reject
<1>2. CASE s.ok /\ ~s.suffix /\ e.kind = "execution_started"
  BY <1>2, FieldsAre DEF Counted, H!HistoryStep, H!Started, H!When, H!Reject
<1>3. CASE s.ok /\ ~s.suffix /\ e.kind \in {"tail_recovered_events", "tail_recovered_raw"}
  BY <1>3, FieldsAre
     DEF Counted, H!HistoryStep, H!TailRecovered, H!AdvanceRepair, H!When, H!Reject
<1>4. CASE s.ok /\ ~s.suffix /\ e.kind = "execution_blocked"
  BY <1>4, FieldsAre DEF Counted, H!HistoryStep, H!Blocked, H!When, H!Reject
<1>5. CASE s.ok /\ ~s.suffix /\ e.kind = "execution_interrupted"
  BY <1>5, FieldsAre DEF Counted, H!HistoryStep, H!Interrupted, H!When, H!Reject
<1>6. CASE s.ok /\ ~s.suffix /\ e.kind = "request_finished"
  BY <1>6, FieldsAre DEF Counted, H!HistoryStep, H!Finished, H!Repairing, H!EndEpochIfRecovered,
                         H!AdvanceRepair, H!When, H!Reject
<1>7. CASE s.ok /\ ~s.suffix /\ e.kind \in {"authentication_stopped", "delivery_ambiguous"}
  BY <1>7, FieldsAre DEF Counted, H!HistoryStep, H!MarkedStop, H!Repairing, H!AdvanceRepair,
                         H!When, H!Reject
<1>8. CASE s.ok /\ ~s.suffix /\ e.kind = "generation_completed"
  BY <1>8, FieldsAre DEF Counted, H!HistoryStep, H!CompletedGeneration, H!Repairing,
                         H!AdvanceRepair, H!When, H!Reject
<1>9. CASE /\ s.ok /\ ~s.suffix
           /\ e.kind \notin {"execution_started", "tail_recovered_events", "tail_recovered_raw",
                             "execution_blocked", "execution_interrupted", "request_finished",
                             "authentication_stopped", "delivery_ambiguous",
                             "generation_completed"}
  BY <1>9, FieldsAre DEF Counted, H!HistoryStep, H!Reject
<1>. QED
  BY <1>1, <1>2, <1>3, <1>4, <1>5, <1>6, <1>7, <1>8, <1>9

LEMMA TakenRawCounts ==
    ASSUME NEW s, Counted(s), NEW e, NEW row \in RawRows
    PROVE  LET t == H!TakeRaw(s, e, row) IN Counted(t) /\ t.call = s.call /\ (t.ok => t.open = "raw")
<1>1. row.reason \in {"none", "success", "retry_exhausted", "provider_rejected",
                      "authentication_stopped", "ambiguous_delivery"}
  BY DEF RawRows, Reasons, Resolved
<1>. QED
  BY <1>1, FieldsAre DEF Counted, H!TakeRaw, H!Resolved, H!When, H!Reject

(* A start the acceptor takes, before its raw row is looked at.                *)
Announced(s, e) ==
    [[s EXCEPT !.recovered = e.recovered] EXCEPT
        !.request = TRUE, !.hadCall = TRUE, !.blocked = FALSE,
        !.open = "rawless", !.start = e, !.startOp = e.op, !.call = s.call + 1]
MayAnnounce(s, e) ==
    /\ s.ok /\ ~s.suffix
    /\ e.recovered \/ (s.epoch # NoOperation /\ e.op = s.epoch)
    /\ s.epoch # NoOperation
    /\ s.open = "none" /\ s.pending = "none"
    /\ s.ordinal < PlanLength /\ e.item = s.ordinal
    /\ e.call = s.call /\ e.attempt = s.attempt
    /\ e.attempt <= MaxTransientRetries + 1

(* The start together with the raw row that follows those consumed.            *)
Looked(s, e, rw) ==
    LET next == s.taken + 1
        t == Announced(s, e)
    IN  IF next > Len(rw) THEN t
        ELSE IF rw[next].call < s.call THEN [t EXCEPT !.ok = FALSE]
        ELSE IF rw[next].call = s.call THEN H!TakeRaw(t, e, rw[next])
        ELSE t

LEMMA RequestStep ==
    ASSUME NEW s, DOMAIN s = HFields, NEW e, NEW rw, e.kind = "request_started"
    PROVE  H!HistoryStep(s, e, rw) =
              IF ~s.ok \/ s.suffix THEN [s EXCEPT !.ok = FALSE]
              ELSE IF MayAnnounce(s, e) THEN Looked(s, e, rw)
              ELSE [Looked(s, e, rw) EXCEPT !.ok = FALSE]
<1>. DEFINE s1 == [s EXCEPT !.recovered = e.recovered]
<1>1. /\ DOMAIN s1 = HFields /\ s1.ok = s.ok /\ s1.epoch = s.epoch /\ s1.open = s.open
      /\ s1.pending = s.pending /\ s1.ordinal = s.ordinal /\ s1.call = s.call
      /\ s1.attempt = s.attempt /\ s1.taken = s.taken /\ s1.suffix = s.suffix
  BY FieldsAre
<1>2. s.ok /\ ~s.suffix => H!HistoryStep(s, e, rw) = H!Requested(s1, e, rw)
  BY DEF H!HistoryStep
<1>3. ~s.ok \/ s.suffix => H!HistoryStep(s, e, rw) = [s EXCEPT !.ok = FALSE]
  BY DEF H!HistoryStep, H!Reject
<1>4. Announced(s, e) = [s1 EXCEPT
                           !.request = TRUE, !.hadCall = TRUE, !.blocked = FALSE,
                           !.open = "rawless", !.start = e, !.startOp = e.op, !.call = s1.call + 1]
  BY <1>1 DEF Announced
<1>. HIDE DEF s1
<1>5. Looked(s, e, rw) =
         LET next == s1.taken + 1
             t == [s1 EXCEPT
                     !.request = TRUE, !.hadCall = TRUE, !.blocked = FALSE,
                     !.open = "rawless", !.start = e, !.startOp = e.op, !.call = s1.call + 1]
         IN  IF next > Len(rw) THEN t
             ELSE IF rw[next].call < s1.call THEN [t EXCEPT !.ok = FALSE]
             ELSE IF rw[next].call = s1.call THEN H!TakeRaw(t, e, rw[next])
             ELSE t
  BY <1>1, <1>4, Zenon DEF Looked
<1>6. ASSUME s.ok, ~s.suffix
      PROVE  H!Requested(s1, e, rw) = IF MayAnnounce(s, e) THEN Looked(s, e, rw)
                                      ELSE [Looked(s, e, rw) EXCEPT !.ok = FALSE]
  BY <1>1, <1>5, <1>6 DEF H!Requested, H!InEpoch, H!When, H!Reject, MayAnnounce
<1>. QED
  BY <1>2, <1>3, <1>6

LEMMA StepCounts ==
    ASSUME NEW s, Counted(s), NEW e, NEW rw \in Seq(RawRows)
    PROVE  LET t == H!HistoryStep(s, e, rw) IN Counted(t) /\ t.call \in {s.call, s.call + 1}
<1>. DEFINE t == H!HistoryStep(s, e, rw)
<1>1. CASE e.kind # "request_started"
  BY <1>1, OtherRowCounts
<1>2. CASE e.kind = "request_started"
  <2>1. Counted(Announced(s, e)) /\ Announced(s, e).call = s.call + 1
    BY FieldsAre DEF Counted, Announced
  <2>2. Counted(Looked(s, e, rw)) /\ Looked(s, e, rw).call = s.call + 1
    <3>. DEFINE next == s.taken + 1
                a == Announced(s, e)
    <3>1. ~(next > Len(rw)) => rw[next] \in RawRows
      BY DEF Counted
    <3>2. Counted(a) /\ a.call = s.call + 1
      BY <2>1
    <3>. HIDE DEF a, next
    <3>3. Counted([a EXCEPT !.ok = FALSE]) /\ [a EXCEPT !.ok = FALSE].call = a.call
      BY <3>2, FieldsAre DEF Counted
    <3>4. ~(next > Len(rw)) =>
             Counted(H!TakeRaw(a, e, rw[next])) /\ H!TakeRaw(a, e, rw[next]).call = a.call
      BY <3>1, <3>2, TakenRawCounts
    <3>. QED
      BY <3>2, <3>3, <3>4 DEF Looked, a, next
  <2>3. \A x : Counted(x) => Counted([x EXCEPT !.ok = FALSE]) /\ [x EXCEPT !.ok = FALSE].call = x.call
    BY FieldsAre DEF Counted
  <2>4. DOMAIN s = HFields
    BY DEF Counted
  <2>5. \/ t = [s EXCEPT !.ok = FALSE]
        \/ t = Looked(s, e, rw)
        \/ t = [Looked(s, e, rw) EXCEPT !.ok = FALSE]
    BY <1>2, <2>4, RequestStep
  <2>6. s.call \in Nat
    BY DEF Counted
  <2>. QED
    BY <2>2, <2>3, <2>5, <2>6
<1>. QED
  BY <1>1, <1>2

(* A raw row of a later call changes nothing.                                  *)
LEMMA SameStep ==
    ASSUME NEW s, Counted(s), NEW e, NEW rw \in Seq(RawRows), NEW row \in RawRows,
           H!HistoryStep(s, e, rw).call <= row.call
    PROVE  H!HistoryStep(s, e, Append(rw, row)) = H!HistoryStep(s, e, rw)
<1>. DEFINE new == Append(rw, row)
<1>1. CASE e.kind # "request_started"
  BY <1>1 DEF H!HistoryStep
<1>2. CASE ~s.ok \/ s.suffix
  BY <1>2 DEF H!HistoryStep
<1>3. CASE e.kind = "request_started" /\ s.ok /\ ~s.suffix
  <2>1. Announced(s, e).call = s.call + 1 /\ Counted(Announced(s, e))
    BY FieldsAre DEF Counted, Announced
  <2>2. /\ s.taken \in Nat /\ s.call \in Nat /\ row.call \in Nat /\ Len(rw) \in Nat
        /\ Len(new) = Len(rw) + 1 /\ new[Len(rw) + 1] = row
        /\ \A n \in 1 .. Len(rw) : new[n] = rw[n]
    BY DEF Counted, RawRows
  <2>. HIDE DEF new
  <2>3. s.taken + 1 = Len(rw) + 1 => s.call < row.call
    <3>1. ASSUME s.taken + 1 = Len(rw) + 1 PROVE s.call < row.call
      <4>1. Looked(s, e, rw) = Announced(s, e)
        BY <2>2, <3>1 DEF Looked
      <4>2. H!HistoryStep(s, e, rw).call = s.call + 1
        BY <1>3, <2>1, <4>1, RequestStep, FieldsAre DEF Counted
      <4>. QED
        BY <2>2, <4>2
    <3>. QED
      BY <3>1
  <2>4. Looked(s, e, new) = Looked(s, e, rw)
    <3>1. CASE s.taken + 1 > Len(rw) + 1
      BY <2>2, <3>1 DEF Looked
    <3>2. CASE s.taken + 1 = Len(rw) + 1
      BY <2>2, <2>3, <3>2 DEF Looked
    <3>3. CASE s.taken + 1 \in 1 .. Len(rw)
      BY <2>2, <3>3 DEF Looked
    <3>. QED
      BY <2>2, <3>1, <3>2, <3>3
  <2>5. DOMAIN s = HFields
    BY DEF Counted
  <2>6. /\ H!HistoryStep(s, e, new) =
              IF MayAnnounce(s, e) THEN Looked(s, e, new) ELSE [Looked(s, e, new) EXCEPT !.ok = FALSE]
        /\ H!HistoryStep(s, e, rw) =
              IF MayAnnounce(s, e) THEN Looked(s, e, rw) ELSE [Looked(s, e, rw) EXCEPT !.ok = FALSE]
    BY <1>3, <2>5, RequestStep
  <2>. QED
    BY <2>4, <2>6 DEF new
<1>. QED
  BY <1>1, <1>2, <1>3

(* The raw row of the call announced last is consumed with its start.          *)
LEMMA RawTaken ==
    ASSUME NEW ev \in Seq(Rows), ev # <<>>, ev[1].kind = "prepared",
           NEW rw \in Seq(RawRows), NEW row \in RawRows, row.call = Len(rw),
           ev[Len(ev)].kind = "request_started",
           HS(ev, rw).ok, HS(ev, rw).taken = Len(rw), HS(ev, rw).open = "rawless",
           HS(ev, rw).call = Len(rw) + 1
    PROVE  HS(ev, Append(rw, row)) = H!TakeRaw(HS(ev, rw), ev[Len(ev)], row)
<1>. DEFINE N == Len(ev)
            L == Len(rw)
            new == Append(rw, row)
            last == ev[N]
            e(n) == H!ReplayStates(ev, rw)[n]
            f(n) == H!ReplayStates(ev, new)[n]
<1>1. N \in Nat /\ N >= 2 /\ L \in Nat /\ N - 1 \in 1 .. N - 1
  <2>1. N \in Nat /\ N >= 1 /\ L \in Nat
    OBVIOUS
  <2>2. N # 1
    OBVIOUS
  <2>. QED
    BY <2>1, <2>2
<1>2. /\ Len(new) = L + 1 /\ new[L + 1] = row
  OBVIOUS
<1>3. /\ e(1) = H!HistoryInit /\ f(1) = H!HistoryInit
      /\ \A n \in 1 .. N - 1 : /\ e(n + 1) = H!HistoryStep(e(n), ev[n + 1], rw)
                               /\ f(n + 1) = H!HistoryStep(f(n), ev[n + 1], new)
  BY <1>1, ReplayStatesAre, StatesStep
<1>4. HS(ev, rw) = e(N) /\ HS(ev, new) = f(N)
  BY DEF HS
<1>. HIDE DEF e, f, new
<1>5. \A n \in 1 .. N : Counted(e(n))
  <2>. DEFINE T == { n \in 1 .. N : Counted(e(n)) }
  <2>1. 1 \in T
    <3>1. Counted(H!HistoryInit)
      BY DEF Counted, HFields, H!HistoryInit
    <3>. QED
      BY <1>1, <1>3, <3>1
  <2>2. ASSUME NEW n \in 1 .. N - 1, n \in T PROVE n + 1 \in T
    <3>1. Counted(e(n)) /\ e(n + 1) = H!HistoryStep(e(n), ev[n + 1], rw)
      BY <1>3, <2>2
    <3>2. Counted(e(n + 1))
      BY <3>1, StepCounts
    <3>. QED
      BY <1>1, <3>2
  <2>. HIDE DEF T, N
  <2>3. \A n \in 1 .. N : n \in T
    BY <1>1, <2>1, <2>2, UpTo
  <2>. QED
    BY <2>3 DEF T
<1>6. PICK p : p = e(N - 1)
  OBVIOUS
<1>7. Counted(p) /\ e(N) = H!HistoryStep(p, last, rw)
  <2>1. (N - 1) + 1 = N /\ N - 1 \in 1 .. N
    BY <1>1
  <2>. QED
    BY <1>1, <1>3, <1>5, <1>6, <2>1
<1>8. /\ p.ok /\ ~p.suffix /\ MayAnnounce(p, last)
      /\ e(N) = Looked(p, last, rw)
  <2>1. DOMAIN p = HFields
    BY <1>7 DEF Counted
  <2>2. \A x : Counted(x) => ~[x EXCEPT !.ok = FALSE].ok
    BY FieldsAre DEF Counted
  <2>3. Counted(Looked(p, last, rw))
    <3>1. Counted(Announced(p, last))
      BY <1>7, FieldsAre DEF Counted, Announced
    <3>2. ~(p.taken + 1 > L) => rw[p.taken + 1] \in RawRows
      BY <1>7 DEF Counted
    <3>3. ~(p.taken + 1 > L) => Counted(H!TakeRaw(Announced(p, last), last, rw[p.taken + 1]))
      BY <3>1, <3>2, TakenRawCounts
    <3>4. \A x : Counted(x) => Counted([x EXCEPT !.ok = FALSE])
      BY FieldsAre DEF Counted
    <3>5. Counted([Announced(p, last) EXCEPT !.ok = FALSE])
      BY <3>1, <3>4
    <3>. QED
      BY <3>1, <3>3, <3>5 DEF Looked
  <2>4. e(N).ok
    BY <1>4
  <2>5. e(N) = IF ~p.ok \/ p.suffix THEN [p EXCEPT !.ok = FALSE]
               ELSE IF MayAnnounce(p, last) THEN Looked(p, last, rw)
               ELSE [Looked(p, last, rw) EXCEPT !.ok = FALSE]
    <3>. HIDE DEF last
    <3>1. last.kind = "request_started"
      BY DEF last
    <3>. QED
      BY <1>7, <2>1, <3>1, RequestStep
  <2>6. ~[p EXCEPT !.ok = FALSE].ok /\ ~[Looked(p, last, rw) EXCEPT !.ok = FALSE].ok
    BY <1>7, <2>2, <2>3
  <2>. QED
    BY <2>4, <2>5, <2>6
<1>9. e(N) = Announced(p, last) /\ p.taken = L /\ p.call = L
  <2>1. Counted(Announced(p, last)) /\ Announced(p, last).taken = p.taken
        /\ Announced(p, last).call = p.call + 1
    BY <1>7, FieldsAre DEF Counted, Announced
  <2>2. ~[Announced(p, last) EXCEPT !.ok = FALSE].ok
    BY <2>1, FieldsAre DEF Counted
  <2>3. ~(p.taken + 1 > L) =>
           (H!TakeRaw(Announced(p, last), last, rw[p.taken + 1]).ok =>
            H!TakeRaw(Announced(p, last), last, rw[p.taken + 1]).open = "raw")
    <3>1. ~(p.taken + 1 > L) => rw[p.taken + 1] \in RawRows
      BY <1>7 DEF Counted
    <3>. QED
      BY <2>1, <3>1, TakenRawCounts
  <2>4. e(N) = Announced(p, last)
    BY <1>4, <1>8, <2>2, <2>3 DEF Looked
  <2>. QED
    BY <1>1, <1>4, <1>7, <2>1, <2>4 DEF Counted
<1>10. \A n \in 1 .. N - 1 : e(n).call <= L
  <2>. DEFINE M == N - 1
              T == { n \in 0 .. M - 1 : e(M - n).call <= L }
  <2>1. M \in Nat /\ M >= 1 /\ 0 \in T
    BY <1>1, <1>6, <1>9
  <2>2. ASSUME NEW n \in 0 .. M - 2, n \in T PROVE n + 1 \in T
    <3>1. PICK k : k = M - (n + 1)
      OBVIOUS
    <3>2. k \in 1 .. N - 1 /\ k + 1 = M - n /\ k + 1 \in 1 .. N /\ k \in 1 .. N /\ n + 1 \in 0 .. M - 1
      BY <1>1, <2>1, <3>1
    <3>3. /\ Counted(e(k)) /\ Counted(e(k + 1))
          /\ e(k + 1) = H!HistoryStep(e(k), ev[k + 1], rw) /\ e(k + 1).call <= L
      BY <1>3, <1>5, <2>2, <3>2
    <3>4. e(k + 1).call \in {e(k).call, e(k).call + 1}
      BY <3>3, StepCounts
    <3>5. e(k).call <= L
      BY <1>1, <3>3, <3>4 DEF Counted
    <3>. QED
      BY <3>1, <3>2, <3>5
  <2>3. M - 1 \in Nat
    BY <2>1
  <2>4. \A i \in 0 .. (M - 1) - 1 : i \in T => i + 1 \in T
    BY <2>1, <2>2
  <2>. HIDE DEF T
  <2>5. \A n \in 0 .. M - 1 : n \in T
    <3>. HIDE DEF M
    <3>. QED
      BY <2>1, <2>3, <2>4, UpTo
  <2>6. ASSUME NEW n \in 1 .. M PROVE e(n).call <= L
    <3>1. M - n \in 0 .. M - 1 /\ M - (M - n) = n
      BY <2>1
    <3>2. M - n \in T
      BY <2>5, <3>1
    <3>. QED
      BY <3>1, <3>2 DEF T
  <2>. QED
    BY <2>6
<1>11. f(N - 1) = e(N - 1)
  <2>. DEFINE M == N - 1
              T == { n \in 1 .. M : f(n) = e(n) }
  <2>1. 1 \in T /\ M \in Nat /\ M >= 1
    BY <1>1, <1>3
  <2>2. ASSUME NEW n \in 1 .. M - 1, n \in T PROVE n + 1 \in T
    <3>1. n \in 1 .. N - 1 /\ n + 1 \in 1 .. N - 1 /\ n \in 1 .. N
      BY <1>1
    <3>2. /\ Counted(e(n)) /\ f(n) = e(n) /\ e(n + 1).call <= row.call
          /\ e(n + 1) = H!HistoryStep(e(n), ev[n + 1], rw)
          /\ f(n + 1) = H!HistoryStep(e(n), ev[n + 1], new)
      BY <1>3, <1>5, <1>10, <2>2, <3>1
    <3>3. H!HistoryStep(e(n), ev[n + 1], new) = H!HistoryStep(e(n), ev[n + 1], rw)
      BY <3>2, SameStep DEF new
    <3>. QED
      BY <3>1, <3>2, <3>3
  <2>. HIDE DEF T, M
  <2>3. \A n \in 1 .. M : n \in T
    BY <2>1, <2>2, UpTo
  <2>. QED
    BY <2>1, <2>3 DEF T, M
<1>12. f(N) = H!HistoryStep(p, last, new)
  <2>1. (N - 1) + 1 = N
    BY <1>1
  <2>. QED
    BY <1>1, <1>3, <1>6, <1>11, <2>1
<1>13. H!HistoryStep(p, last, new) = Looked(p, last, new)
  <2>1. DOMAIN p = HFields
    BY <1>7 DEF Counted
  <2>. QED
    BY <1>8, <2>1, RequestStep
<1>14. Looked(p, last, new) = H!TakeRaw(Announced(p, last), last, row)
  BY <1>1, <1>2, <1>9 DEF Looked
<1>. QED
  BY <1>4, <1>9, <1>12, <1>13, <1>14 DEF new

(* The raw row of the open call moves the position as recovery computes it.    *)
TakesRow(ev, rw, row, s, t) ==
    /\ Open(ev) /\ Start(ev).call = Len(rw) /\ ~Marked(ev) /\ ~Completed(ev)
    /\ row.item = Start(ev).item /\ row.attempt = Start(ev).attempt
    /\ HistoryFacts(ev, rw, s) /\ EventFacts(ev, rw, s, t)
    /\ row.reason = "none" => row.attempt <= MaxTransientRetries
    /\ row.reason = "retry_exhausted" => row.attempt = MaxAttempts
RowTaken(ev, rw, s, t, s2) ==
    /\ HistoryFacts(ev, rw, s2) /\ EventFacts(ev, rw, s2, t)
    /\ s2.seen = s.seen /\ s2.hadCall = s.hadCall /\ s2.epoch = s.epoch

LEMMA RawRowSays ==
    ASSUME NEW ev \in Seq(Rows), NEW rw \in Seq(RawRows), NEW row \in RawRows,
           RequestHistory(ev), Start(ev).call = Len(rw)
    PROVE  LET new == Append(rw, row)
           IN  /\ ~HasRaw(ev, rw) /\ HasRaw(ev, new) /\ Len(new) = Len(rw) + 1
               /\ Reason(ev, rw) = "missing" /\ Reason(ev, new) = row.reason
               /\ NextOrdinal(ev, rw) = Start(ev).item /\ NextAttempt(ev, rw) = Start(ev).attempt
<1>1. Len(rw) \in Nat /\ Len(Append(rw, row)) = Len(rw) + 1
      /\ Append(rw, row)[Len(rw) + 1] = row
  OBVIOUS
<1>2. ~HasRaw(ev, rw) /\ HasRaw(ev, Append(rw, row))
  BY <1>1 DEF HasRaw
<1>3. Reason(ev, rw) = "missing" /\ Reason(ev, Append(rw, row)) = row.reason
  BY <1>1, <1>2 DEF Reason
<1>. QED
  BY <1>1, <1>2, <1>3 DEF NextOrdinal, NextAttempt, Resolved

LEMMA AcceptRawRow ==
    ASSUME NEW ev \in Seq(Rows), NEW rw \in Seq(RawRows), NEW row \in RawRows, NEW s, NEW t,
           TakesRow(ev, rw, row, s, t)
    PROVE  RowTaken(ev, Append(rw, row), s, t, H!TakeRaw(s, Start(ev), row))
<1>. DEFINE new == Append(rw, row)
            st == Start(ev)
            s2 == H!TakeRaw(s, st, row)
<1>1. /\ RequestHistory(ev) /\ Open(ev) /\ ~Marked(ev) /\ ~Completed(ev)
      /\ row.item = st.item /\ row.attempt = st.attempt /\ Start(ev).call = Len(rw)
      /\ HistoryFacts(ev, rw, s) /\ EventFacts(ev, rw, s, t)
      /\ row.reason = "none" => row.attempt <= MaxTransientRetries
      /\ row.reason = "retry_exhausted" => row.attempt = MaxTransientRetries + 1
  BY DEF TakesRow, Open, MaxAttempts
<1>2. /\ ~HasRaw(ev, rw) /\ HasRaw(ev, new) /\ Len(new) = Len(rw) + 1
      /\ Reason(ev, rw) = "missing" /\ Reason(ev, new) = row.reason
      /\ NextOrdinal(ev, rw) = st.item /\ NextAttempt(ev, rw) = st.attempt
  BY <1>1, RawRowSays
<1>3. row.reason \in Reasons /\ row.attempt \in Nat
  BY DEF RawRows, MaxAttempts
<1>4. row.reason = "none" => row.attempt # MaxTransientRetries + 1
  BY <1>1, <1>3, RetriesAreNatural
<1>5. /\ DOMAIN s = HFields /\ s.ok /\ s.taken = Len(rw) /\ s.open = "rawless"
      /\ s.ordinal = st.item /\ s.attempt = st.attempt /\ s.pending = "none"
      /\ ~s.auth /\ ~s.ambiguity
  BY <1>1, <1>2 DEF HistoryFacts, OpenAs, Pending, NeedsMarker, MarkerOf
<1>. HIDE DEF new, st
<1>6. /\ DOMAIN s2 = HFields /\ s2.ok /\ s2.taken = Len(rw) + 1 /\ s2.open = "raw"
      /\ s2.ordinal = IF row.reason \in Resolved THEN st.item + 1 ELSE st.item
      /\ s2.attempt = IF row.reason \in Resolved THEN 1
                      ELSE IF row.reason = "none" THEN st.attempt + 1 ELSE st.attempt
      /\ s2.pending = MarkerOf(row.reason)
      /\ (s2.auth <=> row.reason = "authentication_stopped")
      /\ (s2.ambiguity <=> row.reason = "ambiguous_delivery")
  <2>1. CASE row.reason = "none"
    <3>1. row.item = st.item /\ row.attempt = st.attempt /\ row.attempt # MaxTransientRetries + 1
      BY <1>1, <1>4, <2>1 DEF st
    <3>2. s2 = [[s EXCEPT !.open = "raw", !.taken = s.taken + 1, !.reason = row.reason]
                   EXCEPT !.attempt = s.attempt + 1]
      BY <2>1, <3>1 DEF H!TakeRaw, H!When, H!Resolved
    <3>. HIDE DEF s2
    <3>. QED
      BY <1>5, <2>1, <3>2, FieldsAre DEF Resolved, MarkerOf
  <2>2. CASE row.reason \in Resolved
    BY <1>1, <1>5, <2>2, FieldsAre DEF H!TakeRaw, H!When, H!Resolved, Resolved, MarkerOf
  <2>3. CASE row.reason = "authentication_stopped"
    BY <1>1, <1>5, <2>3, FieldsAre DEF H!TakeRaw, H!When, H!Resolved, Resolved, MarkerOf
  <2>4. CASE row.reason = "ambiguous_delivery"
    BY <1>1, <1>5, <2>4, FieldsAre DEF H!TakeRaw, H!When, H!Resolved, Resolved, MarkerOf
  <2>. QED
    BY <1>3, <2>1, <2>2, <2>3, <2>4 DEF Reasons
<1>7. /\ s2.request = s.request /\ s2.call = s.call /\ s2.start = s.start
      /\ s2.startOp = s.startOp /\ s2.execution = s.execution /\ s2.finished = s.finished
      /\ s2.completion = s.completion /\ s2.suffix = s.suffix /\ s2.epoch = s.epoch
      /\ s2.repair = s.repair /\ s2.seen = s.seen /\ s2.phase = s.phase
      /\ s2.hadCall = s.hadCall /\ s2.finishOp = s.finishOp /\ s2.blocked = s.blocked
  <2>1. row.item = st.item /\ row.attempt = st.attempt
    BY <1>1 DEF st
  <2>2. CASE row.reason = "none"
    BY <1>4, <1>5, <2>1, <2>2, FieldsAre DEF H!TakeRaw, H!When
  <2>3. CASE row.reason \in Resolved
    BY <1>1, <1>5, <2>1, <2>3, FieldsAre DEF H!TakeRaw, H!When, H!Resolved, Resolved
  <2>4. CASE row.reason = "authentication_stopped"
    BY <1>5, <2>1, <2>4, FieldsAre DEF H!TakeRaw, H!When, H!Resolved
  <2>5. CASE row.reason = "ambiguous_delivery"
    BY <1>5, <2>1, <2>5, FieldsAre DEF H!TakeRaw, H!When, H!Resolved
  <2>. QED
    BY <1>3, <2>2, <2>3, <2>4, <2>5 DEF Reasons
<1>. HIDE DEF s2
<1>8. /\ NextOrdinal(ev, new) = s2.ordinal /\ NextAttempt(ev, new) = s2.attempt
      /\ OpenAs(ev, new) = "raw" /\ Pending(ev, new) = MarkerOf(row.reason)
  BY <1>1, <1>2, <1>6 DEF NextOrdinal, NextAttempt, OpenAs, Pending, NeedsMarker, st
<1>9. HistoryFacts(ev, new, s2)
  BY <1>1, <1>2, <1>6, <1>7, <1>8 DEF HistoryFacts
<1>10. EventFacts(ev, new, s2, t)
  BY <1>1, <1>7 DEF EventFacts, SameRepair
<1>. QED
  BY <1>7, <1>9, <1>10 DEF RowTaken, new, s2, st

LEMMA RecordAttemptAccepted ==
    ASSUME IInv, RepairInv, HistoryInv, NEW op \in Operations, RecordAttempt(op)
    PROVE  HistoryInv'
<1>10. PICK row : row = RawRow(Start(events), mem.reason)
  OBVIOUS
<1>11. PICK s, t : s = HS(events, raw) /\ t = ES(events)
  OBVIOUS
<1>12. PICK s2 : s2 = H!TakeRaw(s, Start(events), row)
  OBVIOUS
<1>1. /\ pc[op] = "answered" /\ pc[op] \in Running /\ events' = events /\ mem \in Memories
      /\ StartIsMine /\ Open(events) /\ ~HasRaw(events, raw) /\ AnswerIsKept
      /\ TypeOK /\ LedgerInv
  BY HolderMemory DEF RecordAttempt, AppendRaw, Running, MemoryInv, IInv
<1>2. \/ raw' = Append(raw, row) /\ pc' = [pc EXCEPT ![op] = "recorded"]
      \/ raw' = Append(raw, row) /\ pc' = [pc EXCEPT ![op] = "failed"]
      \/ raw' = raw /\ pc' = [pc EXCEPT ![op] = "failed"]
  BY <1>10 DEF RecordAttempt, AppendRaw, Continue, Return, Goto
<1>3. /\ HistoryFacts(events, raw, s) /\ EventFacts(events, raw, s, t)
      /\ HistoryMemory(op, s, t) /\ events # <<>> /\ events[1].kind = "prepared"
  BY <1>11 DEF HistoryInv
<1>4. /\ s.epoch = op /\ s.hadCall /\ Start(events).op = op
      /\ events[Len(events)].kind = "request_started"
      /\ mem.reason = "retry_exhausted" => mem.attempt = MaxAttempts
  BY <1>1, <1>3 DEF HistoryMemory, Called, Asking
<1>5. /\ Start(events) \in Rows /\ Start(events).attempt \in 1 .. MaxAttempts
      /\ Start(events).call = Len(raw)
      /\ events \in Seq(Rows) /\ raw \in Seq(RawRows)
      /\ RequestHistory(events) /\ mem.attempt = Start(events).attempt
  BY <1>1, LastRow DEF StartIsMine, TypeOK
<1>6. /\ row \in RawRows /\ row.call = Len(raw) /\ row.reason = mem.reason
      /\ row.item = Start(events).item /\ row.attempt = Start(events).attempt
      /\ row.reason = "none" => row.attempt <= MaxTransientRetries
      /\ row.reason = "retry_exhausted" => row.attempt = MaxAttempts
  <2>1. mem.reason \in Reasons /\ (mem.reason = "none" => mem.attempt <= MaxTransientRetries)
    BY <1>1 DEF AnswerIsKept
  <2>. QED
    BY <1>4, <1>5, <1>10, <2>1 DEF RawRow, RawRows, Rows
<1>7. ~Marked(events) /\ ~Completed(events)
  BY <1>1 DEF RepairInv, TerminalRowsEnd
<1>8. RowTaken(events, Append(raw, row), s, t, s2)
  <2>1. TakesRow(events, raw, row, s, t)
    BY <1>1, <1>3, <1>5, <1>6, <1>7 DEF TakesRow
  <2>. QED
    BY <1>5, <1>6, <1>12, <2>1, AcceptRawRow
<1>9. HS(events, Append(raw, row)) = s2
  <2>1. Start(events) = events[Len(events)]
    <3>1. IsLast(events, {"request_started"}, Len(events)) /\ Len(events) \in Nat
      BY <1>3, <1>4, <1>5 DEF IsLast
    <3>2. LastStart(events) = Len(events)
      BY <1>5, <3>1, LastIsIt DEF LastStart
    <3>. QED
      BY <3>2 DEF Start
  <2>2. /\ s.ok /\ s.taken = Len(raw) /\ s.open = "rawless"
        /\ s.call = Len(raw) + 1
    BY <1>1, <1>3, <1>5 DEF HistoryFacts, OpenAs
  <2>. QED
    BY <1>3, <1>4, <1>5, <1>6, <1>11, <1>12, <2>1, <2>2, RawTaken
<1>13. CASE raw' = raw /\ pc' = [pc EXCEPT ![op] = "failed"]
  BY <1>1, <1>13, HistoryQuiet DEF Returned
<1>14. ASSUME raw' = Append(raw, row), NEW place \in {"recorded", "failed"},
              pc' = [pc EXCEPT ![op] = place]
       PROVE  HistoryInv'
  <2>1. s2 = HS(events', raw') /\ t = ES(events')
    BY <1>1, <1>9, <1>11, <1>14
  <2>2. /\ HistoryFacts(events', raw', s2) /\ EventFacts(events', raw', s2, t)
        /\ events' # <<>> /\ events'[1].kind = "prepared"
        /\ s2.seen \subseteq HS(events, raw).seen \cup {op}
    BY <1>1, <1>3, <1>8, <1>11, <1>14 DEF RowTaken
  <2>3. HistoryMemory(op, s2, t)'
    <3>1. pc'[op] = place
      BY <1>14, GoesTo
    <3>2. s2.epoch = op /\ s2.hadCall
      BY <1>4, <1>8 DEF RowTaken
    <3>3. Start(events').op = op
      BY <1>1, <1>4
    <3>. QED
      BY <1>14, <3>1, <3>2, <3>3 DEF HistoryMemory, Called, Asking
  <2>. QED
    BY <1>1, <1>14, <2>1, <2>2, <2>3, HistoryFrame
<1>. QED
  BY <1>2, <1>13, <1>14

(* The prepared row is accepted, and nothing has been seen.                    *)
LEMMA InitHistory == Init => HistoryInv
<1>. SUFFICES ASSUME Init PROVE HistoryInv
  OBVIOUS
<1>1. /\ events = <<Prepared>> /\ raw = <<>> /\ Prepared.kind = "prepared"
      /\ \A op \in Operations : pc[op] = "new"
      /\ events \in Seq(Rows) /\ Len(events) = 1 /\ Len(raw) = 0
  BY InitInv DEF Init, Prepared, Event, IInv, TypeOK
<1>2. HS(events, raw) = H!HistoryInit /\ ES(events) = H!EventInit
  <2>1. /\ H!ReplayStates(events, raw)[1] = H!HistoryInit
        /\ H!EventStates(events)[1] = H!EventInit
    <3>. PICK ev, rw : ev = events /\ rw = raw
      OBVIOUS
    <3>1. Len(ev) \in Nat /\ Len(ev) >= 1
      BY <1>1
    <3>2. H!ReplayStates(ev, rw)[1] = H!HistoryInit /\ H!EventStates(ev)[1] = H!EventInit
      BY <3>1, ReplayStatesAre, EventStatesAre
    <3>. QED
      BY <3>2
  <2>2. Len(events) = 1
    BY <1>1
  <2>. QED
    BY <2>1, <2>2 DEF HS, ES
<1>3. \A K : "prepared" \notin K => Last(events, K) = 0
  <2>1. \A K : "prepared" \notin K => IsLast(events, K, 0)
    BY <1>1 DEF IsLast
  <2>. QED
    BY <1>1, <2>1, LastIsIt
<1>4. /\ ~RequestHistory(events) /\ ~Open(events) /\ ~Marked(events) /\ ~Completed(events)
      /\ ~ExecutionHistory(events) /\ ~BlockedBeforeAnyCall(events)
  <2>1. "prepared" \notin Stops /\ "prepared" \notin {"generation_completed"}
        /\ "prepared" \notin {"request_started"} /\ "prepared" \notin {"execution_started"}
        /\ "prepared" \notin {"execution_blocked"}
    BY DEF Stops
  <2>. QED
    BY <1>3, <2>1 DEF RequestHistory, LastStart, Open, Marked, Completed, ExecutionHistory,
                      BlockedBeforeAnyCall
<1>5. /\ Reason(events, raw) = "missing" /\ ~NeedsMarker(events, raw)
      /\ NextOrdinal(events, raw) = 0 /\ NextAttempt(events, raw) = 1
      /\ ~NeedsCompletion(events, raw)
  BY <1>4, PlanIsNotEmpty DEF Reason, HasRaw, NeedsMarker, MarkerOf, NextOrdinal, NextAttempt,
                              NeedsCompletion
<1>6. HistoryFacts(events, raw, HS(events, raw))
  BY <1>1, <1>2, <1>4, <1>5 DEF HistoryFacts, H!HistoryInit, HFields, OpenAs, Pending
<1>7. EventFacts(events, raw, HS(events, raw), ES(events))
  BY <1>2, <1>4, <1>5 DEF EventFacts, H!HistoryInit, H!EventInit, EFields, SameRepair, H!None
<1>8. ASSUME NEW op \in Operations PROVE HistoryMemory(op, HS(events, raw), ES(events))
  BY <1>1, <1>2, NoOperationIsFresh DEF HistoryMemory, Called, Asking, H!HistoryInit
<1>. QED
  BY <1>1, <1>6, <1>7, <1>8 DEF HistoryInv

LEMMA StepAccepted ==
    ASSUME IInv, RepairInv, HistoryInv, NEW op \in Operations, Step(op) \/ Fail(op)
    PROVE  HistoryInv'
<1>1. CASE RefuseRuntime(op) \/ LeaveAmbiguous(op) \/ Fail(op)
  <2>1. /\ pc[op] \in Running /\ UNCHANGED ledgers
        /\ Return(op, "refused") \/ Return(op, "operational_stop") \/ Return(op, "failed")
    BY <1>1 DEF RefuseRuntime, LeaveAmbiguous, Fail, Running
  <2>. QED
    BY <2>1, ReturnAccepted DEF Returned
<1>. QED
  BY <1>1, AcquireLockAccepted, PlanRecoveryAccepted, BeginRepairAccepted, AppendRecoveredAccepted,
     FinishRepairAccepted, StartExecutionAccepted, StopAccepted, StartRequestAccepted, SilentAccepted,
     ProviderReturnsAccepted, RecordAttemptAccepted, FinishRequestAccepted, EndAccepted
     DEF Step, Advance, Recover, Execute, Stop

-----------------------------------------------------------------------------
(* History: theorems *)

HistoryWithoutLoss == losses = 0 => IInv /\ RepairInv /\ HistoryInv

LEMMA HistoryNext == HistoryWithoutLoss /\ losses \in Nat /\ [DNext]_dvars => HistoryWithoutLoss'
<1>. SUFFICES ASSUME HistoryWithoutLoss, losses \in Nat, [DNext]_dvars PROVE HistoryWithoutLoss'
  OBVIOUS
<1>1. (losses = 0 => IInv /\ RepairInv)'
  <2>1. LossFree
    BY DEF HistoryWithoutLoss, LossFree
  <2>. QED
    BY <2>1, LossFreeNext DEF LossFree
<1>2. CASE PowerLoss
  BY <1>2 DEF PowerLoss, HistoryWithoutLoss
<1>3. ASSUME NEW op \in Operations, DStep(op), losses' = 0 PROVE HistoryInv'
  <2>1. losses = 0 /\ (Step(op) \/ Fail(op))
    BY <1>3 DEF DStep
  <2>. QED
    BY <2>1, StepAccepted DEF HistoryWithoutLoss
<1>4. ASSUME UNCHANGED dvars, losses' = 0 PROVE HistoryInv'
  <2>1. losses = 0 /\ events' = events /\ raw' = raw /\ pc' = pc /\ mem' = mem
    BY <1>4 DEF dvars, vars
  <2>2. HistoryInv
    BY <2>1 DEF HistoryWithoutLoss
  <2>. QED
    BY <2>1, <2>2 DEF HistoryInv, HistoryMemory
<1>. QED
  BY <1>1, <1>2, <1>3, <1>4 DEF HistoryWithoutLoss, DNext

(* The facts the acceptors and recovery share are those readers take.          *)
LEMMA FactsAreReplayed ==
    ASSUME NEW ev \in Seq(Rows), ev # <<>>, ev[1].kind = "prepared", NEW rw,
           NEW s, s = HS(ev, rw), HistoryFacts(ev, rw, s)
    PROVE  H!Replay(ev, rw) = s
BY DEF HistoryFacts, H!Replay, H!When, HS

LEMMA RequirementsAre ==
    ASSUME NEW s
    PROVE  H!Requirements(s) # <<>> <=>
              \/ s.open = "raw" \/ s.pending # "none" \/ (s.ordinal = PlanLength /\ ~s.completion)
BY DEF H!Requirements

LEMMA LifecycleAgrees ==
    ASSUME NEW ev \in Seq(Rows), NEW rw, NEW s, HistoryFacts(ev, rw, s)
    PROVE  H!DeriveLifecycle(s) = Lifecycle(ev, rw)
<1>1. s.open = "rawless" <=> RawlessOpen(ev, rw)
  BY DEF HistoryFacts, OpenAs, RawlessOpen
<1>2. /\ s.auth <=> Reason(ev, rw) = "authentication_stopped"
      /\ s.ambiguity <=> Reason(ev, rw) = "ambiguous_delivery"
      /\ s.ordinal = NextOrdinal(ev, rw)
      /\ s.request <=> RequestHistory(ev)
      /\ s.execution <=> ~(Last(ev, {"execution_started"}) = 0)
      /\ RequestHistory(ev) => s.execution
      /\ ~RequestHistory(ev) => (s.blocked <=> BlockedBeforeAnyCall(ev))
      /\ RequestHistory(ev) => ~BlockedBeforeAnyCall(ev)
  BY DEF HistoryFacts, ExecutionHistory, BlockedBeforeAnyCall
<1>. QED
  BY <1>1, <1>2 DEF H!DeriveLifecycle, Lifecycle

(* Every ledger pair an operation leaves, interrupted wherever it is, is       *)
(* accepted by the event grammar and by the validation of both ledgers, and    *)
(* the validated state gives the position, the owed rows and the lifecycle     *)
(* that recovery works from.                                                   *)
THEOREM HistoryIsAccepted == DSpec => []HistoryAccepted
<1>1. DInit => HistoryWithoutLoss
  BY InitInv, InitRepairs, InitHistory DEF DInit, HistoryWithoutLoss
<1>2. HistoryWithoutLoss => HistoryAccepted
  <2>. SUFFICES ASSUME IInv, HistoryInv
                PROVE  H!EventGrammar(events) /\ H!Replay(events, raw).ok /\ ReplayAgrees
    BY DEF HistoryWithoutLoss, HistoryAccepted
  <2>1. PICK s, t : s = HS(events, raw) /\ t = ES(events)
    OBVIOUS
  <2>2. /\ events \in Seq(Rows) /\ events # <<>> /\ events[1].kind = "prepared"
        /\ HistoryFacts(events, raw, s) /\ EventFacts(events, raw, s, t)
    BY <2>1 DEF IInv, TypeOK, HistoryInv
  <2>3. H!Replay(events, raw) = s /\ s.ok
    BY <2>1, <2>2, FactsAreReplayed DEF HistoryFacts
  <2>4. H!EventGrammar(events)
    BY <2>1, <2>2 DEF EventFacts, ES, H!EventGrammar
  <2>5. ReplayAgrees
    <3>1. H!DeriveLifecycle(s) = Lifecycle(events, raw)
      BY <2>2, LifecycleAgrees
    <3>2. (H!Requirements(s) # <<>>) = NeedsRepair(events, raw)
      BY <2>2, RequirementsAre DEF HistoryFacts, OpenAs, Pending, NeedsRepair, NeedsFinish,
                                   NeedsMarker, NeedsCompletion
    <3>3. /\ s.ordinal = NextOrdinal(events, raw) /\ s.attempt = NextAttempt(events, raw)
          /\ s.open = "rawless" <=> RawlessOpen(events, raw)
      BY <2>2 DEF HistoryFacts, OpenAs, RawlessOpen
    <3>. QED
      BY <2>3, <3>1, <3>2, <3>3 DEF ReplayAgrees
  <2>. QED
    BY <2>3, <2>4, <2>5
<1>. QED
  BY <1>1, <1>2, HistoryNext, JournalWithoutLoss, PTL DEF DSpec

-----------------------------------------------------------------------------
(* Power loss: what an accepted pair of ledgers says *)

(* Every item before ordinal is resolved by one of the first taken raw rows.   *)
Earned(rw, ordinal, taken) ==
    \A item \in Nat : item < ordinal =>
        \E k \in 1 .. taken : rw[k].item = item /\ rw[k].reason \in Resolved

(* The raw row taken last moved the position past its item.                    *)
Moved(rw, s) == s.open # "rawless" /\ rw[s.taken].reason \in Resolved

(* The state of the acceptor after the rows of ev, as long as it accepts them. *)
SoundFacts(ev, rw, s) ==
    /\ s.call \in Nat /\ s.taken \in 0 .. Len(rw) /\ s.ordinal \in Nat
    /\ s.open \in {"none", "raw", "rawless"}
    /\ s.open = "rawless" => s.taken + 1 = s.call
    /\ s.open # "rawless" => s.taken = s.call
    /\ Earned(rw, s.ordinal, s.taken)
    /\ ~RequestHistory(ev) => s.call = 0 /\ s.ordinal = 0
    /\ RequestHistory(ev) =>
          /\ Start(ev).call + 1 = s.call
          /\ ~Open(ev) => s.open # "rawless"
          /\ Moved(rw, s) => s.ordinal = Start(ev).item + 1
          /\ ~Moved(rw, s) => s.ordinal = Start(ev).item
    /\ Completed(ev) => s.suffix /\ s.ordinal = PlanLength
Sound(ev, rw, s) == DOMAIN s = HFields /\ (s.ok => SoundFacts(ev, rw, s))

(* A row that is no start neither counts nor moves; a finish closes a start    *)
(* whose raw row was read, and a completion comes at the end of the plan.      *)
OtherRead(s, t, e) ==
    /\ DOMAIN t = HFields
    /\ t.ok => /\ s.ok /\ ~s.suffix
               /\ t.call = s.call /\ t.taken = s.taken /\ t.ordinal = s.ordinal
               /\ e.kind # "request_finished" => t.open = s.open
               /\ e.kind = "request_finished" => s.open = "raw" /\ t.open = "none"
               /\ e.kind = "generation_completed" => t.suffix /\ t.ordinal = PlanLength

LEMMA OtherRowReads ==
    ASSUME NEW s, DOMAIN s = HFields, NEW e, NEW rw, e.kind # "request_started"
    PROVE  OtherRead(s, H!HistoryStep(s, e, rw), e)
<1>. DEFINE t == H!HistoryStep(s, e, rw)
<1>1. CASE ~s.ok \/ s.suffix
  BY <1>1, FieldsAre DEF OtherRead, H!HistoryStep, H!Reject
<1>2. CASE s.ok /\ ~s.suffix /\ e.kind = "execution_started"
  BY <1>2, FieldsAre DEF OtherRead, H!HistoryStep, H!Started, H!When, H!Reject
<1>3. CASE s.ok /\ ~s.suffix /\ e.kind \in {"tail_recovered_events", "tail_recovered_raw"}
  BY <1>3, FieldsAre
     DEF OtherRead, H!HistoryStep, H!TailRecovered, H!AdvanceRepair, H!When, H!Reject
<1>4. CASE s.ok /\ ~s.suffix /\ e.kind = "execution_blocked"
  BY <1>4, FieldsAre DEF OtherRead, H!HistoryStep, H!Blocked, H!When, H!Reject
<1>5. CASE s.ok /\ ~s.suffix /\ e.kind = "execution_interrupted"
  BY <1>5, FieldsAre DEF OtherRead, H!HistoryStep, H!Interrupted, H!When, H!Reject
<1>6. CASE s.ok /\ ~s.suffix /\ e.kind = "request_finished"
  BY <1>6, FieldsAre DEF OtherRead, H!HistoryStep, H!Finished, H!Repairing, H!EndEpochIfRecovered,
                         H!AdvanceRepair, H!When, H!Reject
<1>7. CASE s.ok /\ ~s.suffix /\ e.kind \in {"authentication_stopped", "delivery_ambiguous"}
  BY <1>7, FieldsAre DEF OtherRead, H!HistoryStep, H!MarkedStop, H!Repairing, H!AdvanceRepair,
                         H!When, H!Reject
<1>8. CASE s.ok /\ ~s.suffix /\ e.kind = "generation_completed"
  BY <1>8, FieldsAre DEF OtherRead, H!HistoryStep, H!CompletedGeneration, H!Repairing,
                         H!AdvanceRepair, H!When, H!Reject
<1>9. CASE /\ s.ok /\ ~s.suffix
           /\ e.kind \notin {"execution_started", "tail_recovered_events", "tail_recovered_raw",
                             "execution_blocked", "execution_interrupted", "request_finished",
                             "authentication_stopped", "delivery_ambiguous",
                             "generation_completed"}
  BY <1>9, FieldsAre DEF OtherRead, H!HistoryStep, H!Reject
<1>. QED
  BY <1>1, <1>2, <1>3, <1>4, <1>5, <1>6, <1>7, <1>8, <1>9

LEMMA OtherRowSound ==
    ASSUME NEW ev \in Seq(Rows), NEW rw \in Seq(RawRows), NEW row \in Rows,
           row.kind # "request_started", NEW s, Sound(ev, rw, s)
    PROVE  Sound(Append(ev, row), rw, H!HistoryStep(s, row, rw))
<1>10. PICK new, t : new = Append(ev, row) /\ t = H!HistoryStep(s, row, rw)
  OBVIOUS
<1>1. OtherRead(s, t, row)
  BY <1>10, OtherRowReads DEF Sound
<1>. SUFFICES ASSUME t.ok PROVE SoundFacts(new, rw, t)
  BY <1>1, <1>10 DEF Sound, OtherRead
<1>2. /\ s.ok /\ ~s.suffix /\ SoundFacts(ev, rw, s)
      /\ t.call = s.call /\ t.taken = s.taken /\ t.ordinal = s.ordinal
      /\ t.open = s.open \/ (s.open = "raw" /\ t.open = "none")
      /\ row.kind = "request_finished" => s.open = "raw" /\ t.open = "none"
      /\ row.kind = "generation_completed" => t.suffix /\ t.ordinal = PlanLength
  BY <1>1 DEF OtherRead, Sound
<1>3. /\ RequestHistory(new) = RequestHistory(ev)
      /\ RequestHistory(ev) => Start(new) = Start(ev)
      /\ Open(new) = (Open(ev) /\ row.kind # "request_finished")
      /\ Completed(new) = (Completed(ev) \/ row.kind = "generation_completed")
  BY <1>10, RowSays
<1>4. ~Completed(ev)
  BY <1>2 DEF SoundFacts
<1>5. Moved(rw, t) <=> Moved(rw, s)
  BY <1>2 DEF Moved
<1>. QED
  BY <1>2, <1>3, <1>4, <1>5 DEF SoundFacts

(* What the raw row of a start leaves of a state, if it is accepted.           *)
RowRead(s, t, e, row) ==
    t.ok => /\ row.item = e.item /\ t.open = "raw" /\ t.taken = s.taken + 1
            /\ t.call = s.call /\ t.suffix = s.suffix
            /\ row.reason \in Resolved => t.ordinal = s.ordinal + 1
            /\ row.reason \notin Resolved => t.ordinal = s.ordinal

LEMMA TakenRowReads ==
    ASSUME NEW s, DOMAIN s = HFields, NEW e, NEW row \in RawRows
    PROVE  DOMAIN H!TakeRaw(s, e, row) = HFields /\ RowRead(s, H!TakeRaw(s, e, row), e, row)
<1>1. row.reason \in Reasons
  BY DEF RawRows
<1>2. CASE row.reason = "none"
  BY <1>2, FieldsAre DEF RowRead, H!TakeRaw, H!Resolved, H!When, H!Reject, Resolved
<1>3. CASE row.reason \in Resolved
  BY <1>3, FieldsAre DEF RowRead, H!TakeRaw, H!Resolved, H!When, H!Reject, Resolved
<1>4. CASE row.reason = "authentication_stopped"
  BY <1>4, FieldsAre DEF RowRead, H!TakeRaw, H!Resolved, H!When, H!Reject, Resolved
<1>5. CASE row.reason = "ambiguous_delivery"
  BY <1>5, FieldsAre DEF RowRead, H!TakeRaw, H!Resolved, H!When, H!Reject, Resolved
<1>. QED
  BY <1>1, <1>2, <1>3, <1>4, <1>5 DEF Reasons

(* An accepted start is the next call of the next item, and its raw row is the *)
(* next one or still to come.                                                  *)
StartRead(s, t, e, rw) ==
    /\ DOMAIN t = HFields
    /\ t.ok =>
          /\ s.ok /\ ~s.suffix /\ s.open = "none" /\ e.item = s.ordinal /\ e.call = s.call
          /\ t.call = s.call + 1 /\ ~t.suffix
          /\ \/ t.open = "rawless" /\ t.taken = s.taken /\ t.ordinal = s.ordinal
             \/ /\ s.taken + 1 <= Len(rw) /\ t.open = "raw" /\ t.taken = s.taken + 1
                /\ rw[t.taken].item = e.item
                /\ rw[t.taken].reason \in Resolved => t.ordinal = s.ordinal + 1
                /\ rw[t.taken].reason \notin Resolved => t.ordinal = s.ordinal

LEMMA StartRowReads ==
    ASSUME NEW s, DOMAIN s = HFields, s.ok => s.call \in Nat /\ s.taken \in Nat,
           NEW e, NEW rw \in Seq(RawRows), e.kind = "request_started"
    PROVE  StartRead(s, H!HistoryStep(s, e, rw), e, rw)
<1>10. PICK t, a, l : /\ t = H!HistoryStep(s, e, rw) /\ a = Announced(s, e)
                      /\ l = Looked(s, e, rw)
  OBVIOUS
<1>1. t = IF ~s.ok \/ s.suffix THEN [s EXCEPT !.ok = FALSE]
          ELSE IF MayAnnounce(s, e) THEN l ELSE [l EXCEPT !.ok = FALSE]
  BY <1>10, RequestStep
<1>2. CASE ~s.ok \/ s.suffix
  <2>1. DOMAIN t = HFields /\ ~t.ok
    BY <1>1, <1>2, FieldsAre
  <2>. QED
    BY <1>10, <2>1 DEF StartRead
<1>3. CASE s.ok /\ ~s.suffix
  <2>1. /\ DOMAIN a = HFields /\ a.ok = s.ok /\ a.suffix = s.suffix /\ a.call = s.call + 1
        /\ a.taken = s.taken /\ a.ordinal = s.ordinal /\ a.open = "rawless"
    BY <1>10, FieldsAre DEF Announced
  <2>2. s.taken \in Nat /\ Len(rw) \in Nat /\ s.call \in Nat
    BY <1>3
  <2>3. PICK next : next = s.taken + 1
    OBVIOUS
  <2>4. ~(next > Len(rw)) => next \in 1 .. Len(rw) /\ rw[next] \in RawRows
    BY <2>2, <2>3
  <2>5. l = IF next > Len(rw) THEN a
            ELSE IF rw[next].call < s.call THEN [a EXCEPT !.ok = FALSE]
            ELSE IF rw[next].call = s.call THEN H!TakeRaw(a, e, rw[next])
            ELSE a
    BY <1>10, <2>3 DEF Looked
  <2>6. ~(next > Len(rw)) => /\ DOMAIN H!TakeRaw(a, e, rw[next]) = HFields
                             /\ RowRead(a, H!TakeRaw(a, e, rw[next]), e, rw[next])
    BY <2>1, <2>4, TakenRowReads
  <2>7. /\ DOMAIN l = HFields
        /\ l.ok => \/ l = a
                   \/ next \in 1 .. Len(rw) /\ l = H!TakeRaw(a, e, rw[next])
    BY <2>1, <2>4, <2>5, <2>6, FieldsAre
  <2>8. DOMAIN t = HFields /\ (t.ok => t = l /\ MayAnnounce(s, e))
    BY <1>1, <1>3, <2>7, FieldsAre
  <2>9. ASSUME t.ok
        PROVE  /\ t.call = s.call + 1 /\ ~t.suffix
               /\ \/ t.open = "rawless" /\ t.taken = s.taken /\ t.ordinal = s.ordinal
                  \/ /\ s.taken + 1 <= Len(rw) /\ t.open = "raw" /\ t.taken = s.taken + 1
                     /\ rw[t.taken].item = e.item
                     /\ rw[t.taken].reason \in Resolved => t.ordinal = s.ordinal + 1
                     /\ rw[t.taken].reason \notin Resolved => t.ordinal = s.ordinal
    <3>1. CASE t = a
      BY <1>3, <2>1, <3>1
    <3>2. CASE next \in 1 .. Len(rw) /\ t = H!TakeRaw(a, e, rw[next])
      <4>1. RowRead(a, t, e, rw[next])
        BY <2>2, <2>6, <3>2
      <4>. QED
        BY <1>3, <2>1, <2>2, <2>3, <2>9, <3>2, <4>1 DEF RowRead
    <3>. QED
      BY <2>7, <2>8, <2>9, <3>1, <3>2
  <2>10. MayAnnounce(s, e) => s.open = "none" /\ e.item = s.ordinal /\ e.call = s.call
    BY DEF MayAnnounce
  <2>. QED
    BY <1>3, <1>10, <2>8, <2>9, <2>10 DEF StartRead
<1>. QED
  BY <1>2, <1>3

LEMMA StartRowSound ==
    ASSUME NEW ev \in Seq(Rows), NEW rw \in Seq(RawRows), NEW row \in Rows,
           row.kind = "request_started", NEW s, Sound(ev, rw, s)
    PROVE  Sound(Append(ev, row), rw, H!HistoryStep(s, row, rw))
<1>10. PICK new, t : new = Append(ev, row) /\ t = H!HistoryStep(s, row, rw)
  OBVIOUS
<1>0. DOMAIN s = HFields /\ (s.ok => s.call \in Nat /\ s.taken \in Nat)
  BY DEF Sound, SoundFacts
<1>1. StartRead(s, t, row, rw)
  BY <1>0, <1>10, StartRowReads
<1>. SUFFICES ASSUME t.ok PROVE SoundFacts(new, rw, t)
  BY <1>1, <1>10 DEF Sound, StartRead
<1>2. /\ s.ok /\ ~s.suffix /\ s.open = "none" /\ row.item = s.ordinal /\ row.call = s.call
      /\ t.call = s.call + 1 /\ ~t.suffix
      /\ \/ t.open = "rawless" /\ t.taken = s.taken /\ t.ordinal = s.ordinal
         \/ /\ s.taken + 1 <= Len(rw) /\ t.open = "raw" /\ t.taken = s.taken + 1
            /\ rw[t.taken].item = row.item
            /\ rw[t.taken].reason \in Resolved => t.ordinal = s.ordinal + 1
            /\ rw[t.taken].reason \notin Resolved => t.ordinal = s.ordinal
  BY <1>1 DEF StartRead
<1>3. /\ s.call \in Nat /\ s.taken \in 0 .. Len(rw) /\ s.ordinal \in Nat /\ s.taken = s.call
      /\ Earned(rw, s.ordinal, s.taken) /\ ~Completed(ev)
  BY <1>2 DEF SoundFacts, Sound
<1>4. RequestHistory(new) /\ Start(new) = row /\ Open(new) /\ ~Completed(new)
  BY <1>3, <1>10, StartSays
<1>5. Earned(rw, t.ordinal, t.taken)
  <2>. SUFFICES ASSUME NEW item \in Nat, item < t.ordinal
                PROVE  \E k \in 1 .. t.taken : rw[k].item = item /\ rw[k].reason \in Resolved
    BY DEF Earned
  <2>1. CASE item < s.ordinal
    <3>1. PICK k \in 1 .. s.taken : rw[k].item = item /\ rw[k].reason \in Resolved
      BY <1>3, <2>1 DEF Earned
    <3>2. k \in 1 .. t.taken
      BY <1>2, <1>3
    <3>. QED
      BY <3>1, <3>2
  <2>2. CASE ~(item < s.ordinal)
    <3>1. /\ t.taken = s.taken + 1 /\ rw[t.taken].item = row.item
          /\ rw[t.taken].reason \in Resolved /\ item = s.ordinal
      BY <1>2, <1>3, <2>2
    <3>2. t.taken \in 1 .. t.taken
      BY <1>3, <3>1
    <3>. QED
      BY <1>2, <3>1, <3>2
  <2>. QED
    BY <2>1, <2>2
<1>6. /\ t.ordinal \in Nat /\ t.taken \in 0 .. Len(rw) /\ t.call \in Nat
      /\ t.open \in {"none", "raw", "rawless"}
      /\ t.open = "rawless" => t.taken + 1 = t.call
      /\ t.open # "rawless" => t.taken = t.call
  BY <1>2, <1>3
<1>7. /\ Moved(rw, t) => t.ordinal = Start(new).item + 1
      /\ ~Moved(rw, t) => t.ordinal = Start(new).item
  BY <1>2, <1>4 DEF Moved
<1>. QED
  BY <1>2, <1>4, <1>5, <1>6, <1>7 DEF SoundFacts

LEMMA PrefixOf ==
    ASSUME NEW ev \in Seq(Rows), NEW n \in 1 .. Len(ev)
    PROVE  /\ SubSeq(ev, 1, n) \in Seq(Rows) /\ Len(SubSeq(ev, 1, n)) = n
           /\ \A i \in 1 .. n : SubSeq(ev, 1, n)[i] = ev[i]
           /\ n < Len(ev) => SubSeq(ev, 1, n + 1) = Append(SubSeq(ev, 1, n), ev[n + 1])
           /\ SubSeq(ev, 1, Len(ev)) = ev
OBVIOUS

(* By induction over the rows read.                                            *)
LEMMA ReplayIsSound ==
    ASSUME NEW ev \in Seq(Rows), NEW rw \in Seq(RawRows), ev # <<>>, ev[1].kind = "prepared"
    PROVE  Sound(ev, rw, HS(ev, rw))
<1>. DEFINE p(n) == SubSeq(ev, 1, n)
            T == { n \in 1 .. Len(ev) : Sound(p(n), rw, HS(p(n), rw)) }
<1>1. Len(ev) \in Nat /\ Len(ev) >= 1
  OBVIOUS
<1>2. 1 \in T
  <2>1. PICK one : one = p(1)
    OBVIOUS
  <2>2. /\ one \in Seq(Rows) /\ Len(one) = 1 /\ one[1].kind = "prepared"
    BY <1>1, <2>1, PrefixOf
  <2>3. HS(one, rw) = H!HistoryInit
    <3>1. Len(one) \in Nat /\ Len(one) >= 1
      BY <2>2
    <3>. QED
      BY <2>2, <3>1, ReplayStatesAre DEF HS
  <2>4. \A K : "prepared" \notin K => Last(one, K) = 0
    <3>1. \A K : "prepared" \notin K => IsLast(one, K, 0)
      BY <2>2 DEF IsLast
    <3>. QED
      BY <2>2, <3>1, LastIsIt
  <2>5. ~RequestHistory(one) /\ ~Completed(one)
    <3>1. "prepared" \notin {"request_started"} /\ "prepared" \notin {"generation_completed"}
      OBVIOUS
    <3>. QED
      BY <2>4, <3>1 DEF RequestHistory, LastStart, Completed
  <2>6. Sound(one, rw, H!HistoryInit)
    <3>1. Len(rw) \in Nat
      OBVIOUS
    <3>. QED
      BY <2>5, <3>1 DEF Sound, SoundFacts, H!HistoryInit, HFields, Earned
  <2>. QED
    BY <1>1, <2>1, <2>3, <2>6
<1>3. ASSUME NEW n \in 1 .. Len(ev) - 1, n \in T PROVE n + 1 \in T
  <2>1. PICK q, row : q = p(n) /\ row = ev[n + 1]
    OBVIOUS
  <2>2. /\ q \in Seq(Rows) /\ q # <<>> /\ row \in Rows /\ p(n + 1) = Append(q, row)
    <3>1. n \in 1 .. Len(ev) /\ n < Len(ev) /\ n + 1 \in 1 .. Len(ev)
      BY <1>1
    <3>2. q \in Seq(Rows) /\ Len(q) = n /\ p(n + 1) = Append(q, row)
      BY <2>1, <3>1, PrefixOf
    <3>. QED
      BY <2>1, <3>1, <3>2
  <2>3. Sound(q, rw, HS(q, rw))
    BY <1>3, <2>1
  <2>4. HS(Append(q, row), rw) = H!HistoryStep(HS(q, rw), row, rw)
    BY <2>2, StatesOfAppend
  <2>5. Sound(Append(q, row), rw, H!HistoryStep(HS(q, rw), row, rw))
    BY <2>2, <2>3, OtherRowSound, StartRowSound
  <2>6. Sound(p(n + 1), rw, HS(p(n + 1), rw))
    BY <2>2, <2>4, <2>5
  <2>7. n + 1 \in 1 .. Len(ev)
    BY <1>1
  <2>. QED
    BY <2>6, <2>7
<1>. HIDE DEF T
<1>4. \A n \in 1 .. Len(ev) : n \in T
  BY <1>1, <1>2, <1>3, UpTo
<1>5. Len(ev) \in T
  BY <1>1, <1>4
<1>. QED
  BY <1>1, <1>5, PrefixOf DEF T

(* The position of an accepted pair of ledgers: the last start is that of the  *)
(* last raw row or the next, and every item before the position is resolved.   *)
Validated(ev, rw) ==
    /\ RequestHistory(ev) => /\ Start(ev).call \in {Len(rw), Len(rw) - 1}
                             /\ ~Open(ev) => HasRaw(ev, rw)
    /\ ~RequestHistory(ev) => rw = <<>>
    /\ Earned(rw, NextOrdinal(ev, rw), Len(rw))
    /\ Completed(ev) => NextOrdinal(ev, rw) = PlanLength

LEMMA AcceptedIsValid ==
    ASSUME NEW ev \in Seq(Rows), NEW rw \in Seq(RawRows), ev # <<>>, ev[1].kind = "prepared",
           H!Replay(ev, rw).ok
    PROVE  Validated(ev, rw)
<1>10. PICK s : s = HS(ev, rw)
  OBVIOUS
<1>1. H!Replay(ev, rw) = IF ev[1].kind = "prepared" /\ s.taken = Len(rw)
                         THEN s ELSE [s EXCEPT !.ok = FALSE]
  BY <1>10 DEF H!Replay, H!When, H!Reject, HS
<1>2. RequestHistory(ev) => Start(ev).call \in Nat
  BY EveryLastExists, StartIsStart DEF Rows
<1>3. DOMAIN s = HFields
  BY <1>10, ReplayIsSound DEF Sound
<1>4. s.ok /\ s.taken = Len(rw)
  BY <1>1, <1>3, FieldsAre
<1>5. SoundFacts(ev, rw, s)
  BY <1>4, <1>10, ReplayIsSound DEF Sound
<1>6. Len(rw) \in Nat
  OBVIOUS
<1>7. RequestHistory(ev) =>
         /\ Start(ev).call \in {Len(rw), Len(rw) - 1}
         /\ ~Open(ev) => HasRaw(ev, rw)
         /\ HasRaw(ev, rw) <=> s.open # "rawless"
  BY <1>2, <1>4, <1>5, <1>6 DEF SoundFacts, HasRaw
<1>8. ~RequestHistory(ev) => rw = <<>>
  BY <1>4, <1>5, <1>6 DEF SoundFacts
<1>9. NextOrdinal(ev, rw) = s.ordinal
  <2>1. CASE ~RequestHistory(ev)
    BY <1>5, <2>1 DEF NextOrdinal, SoundFacts
  <2>2. CASE RequestHistory(ev) /\ s.open = "rawless"
    BY <1>5, <1>7, <2>2 DEF NextOrdinal, Reason, Resolved, SoundFacts, Moved
  <2>3. CASE RequestHistory(ev) /\ s.open # "rawless"
    <3>1. Start(ev).call + 1 = s.taken
      BY <1>5, <2>3 DEF SoundFacts
    <3>2. Reason(ev, rw) = rw[s.taken].reason
      BY <1>7, <2>3, <3>1 DEF Reason
    <3>. QED
      BY <1>5, <2>3, <3>2 DEF NextOrdinal, SoundFacts, Moved
  <2>. QED
    BY <2>1, <2>2, <2>3
<1>. QED
  BY <1>4, <1>5, <1>7, <1>8, <1>9 DEF Validated, SoundFacts

-----------------------------------------------------------------------------
(* Power loss: what holds of the ledgers and calls whatever is lost *)

(* Starts are numbered upwards, and each announces a call that was made or the *)
(* next one.                                                                   *)
StartsAscend ==
    \A i, j \in 1 .. Len(events) :
        i < j /\ events[i].kind = "request_started" /\ events[j].kind = "request_started" =>
            events[i].call < events[j].call
StartsAnnounce ==
    \A i \in 1 .. Len(events) : events[i].kind = "request_started" =>
        /\ events[i].call <= Len(calls)
        /\ events[i].call < Len(calls) =>
              /\ calls[events[i].call + 1].item = events[i].item
              /\ calls[events[i].call + 1].attempt = events[i].attempt

(* Stable storage holds a prefix of each ledger.                               *)
PrefixIsStable ==
    /\ eventsSynced \in 1 .. Len(events) /\ rawSynced \in 0 .. Len(raw)
    /\ events[1].kind = "prepared"

(* The part of LedgerInv that a power loss leaves alone.                       *)
EvidenceInv ==
    /\ StartsAreAttempts /\ RawIsLearnt /\ CallsAscend /\ RawRowsAreCalls
    /\ CallsFollowThePlan /\ NoCallAfterPossibleDelivery
Surviving ==
    PrefixIsStable /\ StartsAscend /\ StartsAnnounce /\ CallsStayAnnounced /\ EvidenceInv

(* The rest of it follows for ledgers that the acceptor takes.                 *)
LEMMA AcceptedLedgers ==
    ASSUME TypeOK, Surviving, H!Replay(events, raw).ok
    PROVE  LedgerInv
<1>1. /\ events \in Seq(Rows) /\ raw \in Seq(RawRows) /\ calls \in Seq(Calls)
      /\ Len(events) \in Nat /\ Len(raw) \in Nat /\ Len(calls) \in Nat
  BY DEF TypeOK
<1>2. events # <<>> /\ events[1].kind = "prepared" /\ eventsSynced \in 1 .. Len(events)
  BY <1>1 DEF Surviving, PrefixIsStable
<1>3. Validated(events, raw)
  <2>. PICK ev, rw : ev = events /\ rw = raw
    OBVIOUS
  <2>1. /\ ev \in Seq(Rows) /\ rw \in Seq(RawRows) /\ ev # <<>> /\ ev[1].kind = "prepared"
        /\ H!Replay(ev, rw).ok
    BY <1>1, <1>2
  <2>2. Validated(ev, rw)
    BY <2>1, AcceptedIsValid
  <2>. QED
    BY <2>2
<1>4. LastsExist
  BY <1>1, EveryLastExists DEF LastsExist
<1>5. CallsAreAnnounced
  BY <1>1, <1>2 DEF Surviving, CallsStayAnnounced, CallsAreAnnounced
<1>6. PICK l : l = LastStart(events)
  OBVIOUS
<1>7. IsLast(events, Starts, l)
  BY <1>1, <1>4, <1>6, LastIsLast DEF LastsExist, LastStart, Starts
<1>8. \A i \in 1 .. Len(events) : events[i].kind = "request_started" => i <= l /\ l # 0
  BY <1>1, <1>7 DEF IsLast, Starts
<1>9. ASSUME RequestHistory(events)
      PROVE  /\ Start(events).call \in Nat /\ Len(calls) \in {Start(events).call, Start(events).call + 1}
             /\ Len(calls) = Start(events).call + 1 =>
                   /\ calls[Len(calls)].item = Start(events).item
                   /\ calls[Len(calls)].attempt = Start(events).attempt
  <2>1. l \in 1 .. Len(events) /\ events[l].kind = "request_started" /\ Start(events) = events[l]
    BY <1>1, <1>6, <1>7, <1>9 DEF IsLast, Starts, RequestHistory, Start
  <2>2. PICK c : c = events[l].call
    OBVIOUS
  <2>3. c \in Nat
    <3>1. events[l] \in Rows
      BY <1>1, <2>1
    <3>. QED
      BY <2>2, <3>1 DEF Rows
  <2>4. /\ c <= Len(calls)
        /\ c < Len(calls) => /\ calls[c + 1].item = events[l].item
                             /\ calls[c + 1].attempt = events[l].attempt
    BY <2>1, <2>2 DEF Surviving, StartsAnnounce
  <2>5. Len(calls) <= c + 1
    <3>1. CASE Len(calls) = 0
      BY <2>3, <3>1
    <3>2. CASE Len(calls) # 0
      <4>1. PICK i \in 1 .. eventsSynced :
               events[i].kind = "request_started" /\ events[i].call = Len(calls) - 1
        BY <1>1, <3>2 DEF Surviving, CallsStayAnnounced
      <4>2. i \in 1 .. Len(events) /\ i <= l
        BY <1>1, <1>2, <1>8, <4>1
      <4>3. i < l => events[i].call < c
        BY <2>1, <2>2, <4>1, <4>2 DEF Surviving, StartsAscend
      <4>4. Len(calls) - 1 <= c
        BY <1>1, <2>1, <2>2, <2>3, <4>1, <4>2, <4>3
      <4>. QED
        BY <1>1, <2>3, <4>4
    <3>. QED
      BY <3>1, <3>2
  <2>. QED
    BY <1>1, <2>1, <2>2, <2>3, <2>4, <2>5
<1>10. ASSUME ~RequestHistory(events) PROVE calls = <<>>
  <2>1. l = 0
    BY <1>6, <1>10 DEF RequestHistory
  <2>2. \A i \in 1 .. Len(events) : events[i].kind # "request_started"
    BY <1>8, <2>1
  <2>3. Len(calls) = 0
    <3>. SUFFICES ASSUME Len(calls) # 0 PROVE FALSE
      OBVIOUS
    <3>1. PICK i \in 1 .. eventsSynced : events[i].kind = "request_started"
      BY <1>1 DEF Surviving, CallsStayAnnounced
    <3>. QED
      BY <1>1, <1>2, <2>2, <3>1
  <2>. QED
    BY <1>1, <2>3
<1>11. StartIsCurrent
  BY <1>3, <1>9, <1>10 DEF StartIsCurrent, Validated
<1>12. ItemsBeforeAreResolved /\ CompletionIsEarned
  <2>1. \A item \in Ordinals : item \in Nat /\ item < PlanLength
    BY PlanIsNotEmpty DEF Ordinals
  <2>. QED
    BY <1>3, <2>1 DEF Validated, Earned, ItemsBeforeAreResolved, CompletionIsEarned
<1>. QED
  BY <1>4, <1>5, <1>11, <1>12 DEF LedgerInv, Surviving, EvidenceInv

-----------------------------------------------------------------------------
(* Power loss: the invariant *)

(* An operation past planning works on validated ledgers, and one that is      *)
(* about to call has synced its start.                                         *)
Resumed(op) == pc[op] \in Running \ {"locked"}
PowerLossInv ==
    /\ TypeOK /\ SingleMutator /\ Surviving
    /\ \A op \in Operations : Resumed(op) => IInv
    /\ \A op \in Operations : pc[op] = "started" => eventsSynced = Len(events)

LEMMA PrefixOfSeq ==
    ASSUME NEW S, NEW q \in Seq(S), NEW n \in 0 .. Len(q)
    PROVE  /\ SubSeq(q, 1, n) \in Seq(S) /\ Len(SubSeq(q, 1, n)) = n
           /\ \A i \in 1 .. n : SubSeq(q, 1, n)[i] = q[i]
OBVIOUS

(* What a power loss keeps of the ledgers.                                     *)
LEMMA PowerLossKeeps ==
    ASSUME TypeOK, Surviving, PowerLoss
    PROVE  PowerLossInv'
<1>1. /\ events \in Seq(Rows) /\ raw \in Seq(RawRows) /\ calls \in Seq(Calls)
      /\ Len(events) \in Nat /\ Len(raw) \in Nat /\ Len(calls) \in Nat
      /\ eventTail \in BOOLEAN /\ rawTail \in BOOLEAN /\ pc \in [Operations -> Places]
      /\ eventsSynced \in 1 .. Len(events) /\ rawSynced \in 0 .. Len(raw)
  BY DEF TypeOK, Surviving, PrefixIsStable
<1>2. PICK n \in eventsSynced .. Len(events), m \in rawSynced .. Len(raw) :
         /\ events' = SubSeq(events, 1, n) /\ raw' = SubSeq(raw, 1, m)
         /\ eventTail' \in {FALSE, eventTail \/ n < Len(events)}
         /\ rawTail' \in {FALSE, rawTail \/ m < Len(raw)}
         /\ eventsSynced' = n /\ rawSynced' = m
  BY DEF PowerLoss
<1>3. /\ pc' = [op \in Operations |-> IF pc[op] \in Running THEN "failed" ELSE pc[op]]
      /\ lock' = NoOperation /\ mem' = NoMemory /\ calls' = calls
  BY DEF PowerLoss
<1>4. n \in 0 .. Len(events) /\ n \in 1 .. Len(events) /\ m \in 0 .. Len(raw)
  BY <1>1, <1>2
<1>5. /\ events' \in Seq(Rows) /\ Len(events') = n
      /\ \A i \in 1 .. n : events'[i] = events[i] /\ i \in 1 .. Len(events)
  BY <1>1, <1>2, <1>4, PrefixOfSeq
<1>6. /\ raw' \in Seq(RawRows) /\ Len(raw') = m
      /\ \A i \in 1 .. m : raw'[i] = raw[i] /\ i \in 1 .. Len(raw)
  BY <1>1, <1>2, <1>4, PrefixOfSeq
<1>7. \A op \in Operations : pc'[op] \in Places \ Running
  BY <1>1, <1>3 DEF Places, Running, Returned
<1>8. TypeOK'
  <2>1. pc' \in [Operations -> Places]
    BY <1>3, <1>7
  <2>2. eventTail' \in BOOLEAN /\ rawTail' \in BOOLEAN
    BY <1>1, <1>2
  <2>. QED
    BY <1>1, <1>3, <1>5, <1>6, <2>1, <2>2, NoMemoryTyped DEF TypeOK
<1>9. SingleMutator' /\ \A op \in Operations : ~Resumed(op)' /\ pc'[op] # "started"
  BY <1>7 DEF SingleMutator, Resumed, Running
<1>10. PrefixIsStable' /\ StartsAscend' /\ StartsAnnounce'
  <2>1. PrefixIsStable'
    BY <1>2, <1>4, <1>5, <1>6 DEF PrefixIsStable, Surviving
  <2>2. StartsAscend'
    BY <1>5 DEF Surviving, StartsAscend
  <2>3. StartsAnnounce'
    BY <1>3, <1>5 DEF Surviving, StartsAnnounce
  <2>. QED
    BY <2>1, <2>2, <2>3
<1>11. CallsStayAnnounced'
  <2>. SUFFICES ASSUME NEW c \in 1 .. Len(calls)
                PROVE  \E i \in 1 .. eventsSynced' :
                          /\ events'[i].kind = "request_started" /\ events'[i].call = c - 1
                          /\ events'[i].item = calls[c].item /\ events'[i].attempt = calls[c].attempt
    BY <1>3 DEF CallsStayAnnounced
  <2>1. PICK i \in 1 .. eventsSynced :
           /\ events[i].kind = "request_started" /\ events[i].call = c - 1
           /\ events[i].item = calls[c].item /\ events[i].attempt = calls[c].attempt
    BY DEF Surviving, CallsStayAnnounced
  <2>2. i \in 1 .. n /\ i \in 1 .. eventsSynced'
    BY <1>1, <1>2
  <2>. QED
    BY <1>5, <2>1, <2>2
<1>12. EvidenceInv'
  <2>1. StartsAreAttempts'
    BY <1>5 DEF Surviving, EvidenceInv, StartsAreAttempts
  <2>2. RawIsLearnt'
    BY <1>3, <1>6 DEF Surviving, EvidenceInv, RawIsLearnt
  <2>3. RawRowsAreCalls'
    <3>1. m <= Len(calls)
      BY <1>1, <1>4 DEF Surviving, EvidenceInv, RawRowsAreCalls
    <3>. QED
      BY <1>3, <1>6, <3>1 DEF Surviving, EvidenceInv, RawRowsAreCalls
  <2>4. CallsAscend' /\ CallsFollowThePlan' /\ NoCallAfterPossibleDelivery'
    BY <1>3 DEF Surviving, EvidenceInv, CallsAscend, CallsFollowThePlan,
                NoCallAfterPossibleDelivery
  <2>. QED
    BY <2>1, <2>2, <2>3, <2>4 DEF EvidenceInv
<1>. QED
  BY <1>8, <1>9, <1>10, <1>11, <1>12 DEF PowerLossInv, Surviving

-----------------------------------------------------------------------------
(* Power loss: the steps *)

LEMMA SyncedSays ==
    ASSUME NEW op \in Operations, DStep(op)
    PROVE  /\ eventsSynced' \in {eventsSynced, Len(events')}
           /\ rawSynced' \in {rawSynced, Len(raw')}
           /\ events' # events /\ pc'[op] # "failed" => eventsSynced' = Len(events')
           /\ events' = events /\ eventTail' = eventTail => eventsSynced' = eventsSynced
           /\ raw' = raw /\ rawTail' = rawTail => rawSynced' = rawSynced
  BY DEF DStep, Synced

LEMMA AppendSays ==
    ASSUME NEW S, NEW q \in Seq(S), NEW e
    PROVE  /\ Len(Append(q, e)) = Len(q) + 1 /\ Append(q, e)[Len(q) + 1] = e
           /\ \A i \in 1 .. Len(q) : Append(q, e)[i] = q[i]
OBVIOUS

(* Rows are only added, and none of them a start.                              *)
NoStartWritten ==
    events' = events \/ \E row : row.kind # "request_started" /\ events' = Append(events, row)
RawGrows == raw' = raw \/ \E row : raw' = Append(raw, row)

(* The calls ask for what they asked for.                                      *)
SameCallsMade ==
    /\ Len(calls') = Len(calls)
    /\ \A n \in 1 .. Len(calls) :
          calls'[n].item = calls[n].item /\ calls'[n].attempt = calls[n].attempt

StableStep ==
    /\ eventsSynced' \in {eventsSynced, Len(events')}
    /\ rawSynced' \in {rawSynced, Len(raw')}

LEMMA StablePrefix ==
    ASSUME TypeOK, PrefixIsStable, StableStep, RawGrows,
           events' = events \/ \E row : events' = Append(events, row)
    PROVE  /\ PrefixIsStable' /\ eventsSynced \in 1 .. Len(events)
           /\ eventsSynced <= eventsSynced' /\ eventsSynced' <= Len(events')
           /\ Len(events) <= Len(events')
           /\ \A i \in 1 .. Len(events) : events'[i] = events[i]
<1>1. /\ events \in Seq(Rows) /\ raw \in Seq(RawRows) /\ Len(events) \in Nat /\ Len(raw) \in Nat
      /\ eventsSynced \in 1 .. Len(events) /\ rawSynced \in 0 .. Len(raw)
  BY DEF TypeOK, PrefixIsStable
<1>2. /\ Len(events') \in {Len(events), Len(events) + 1}
      /\ \A i \in 1 .. Len(events) : events'[i] = events[i]
  <2>1. CASE events' = events
    BY <1>1, <2>1
  <2>2. CASE \E row : events' = Append(events, row)
    <3>. PICK row : events' = Append(events, row)
      BY <2>2
    <3>. QED
      BY <1>1, AppendSays
  <2>. QED
    BY <2>1, <2>2
<1>3. Len(raw') \in {Len(raw), Len(raw) + 1}
  BY <1>1, AppendSays DEF RawGrows
<1>4. eventsSynced' \in 1 .. Len(events') /\ rawSynced' \in 0 .. Len(raw')
  BY <1>1, <1>2, <1>3 DEF StableStep
<1>. QED
  BY <1>1, <1>2, <1>4 DEF PrefixIsStable, StableStep

(* The starts that announce the calls stay where they were.                    *)
LEMMA StillAnnounced ==
    ASSUME TypeOK, CallsStayAnnounced, PrefixIsStable, StableStep, RawGrows,
           events' = events \/ \E row : events' = Append(events, row), SameCallsMade
    PROVE  CallsStayAnnounced'
<1>1. /\ eventsSynced \in 1 .. Len(events) /\ eventsSynced <= eventsSynced'
      /\ eventsSynced' \in 1 .. Len(events') /\ Len(events) \in Nat
      /\ \A i \in 1 .. Len(events) : events'[i] = events[i]
  BY StablePrefix DEF PrefixIsStable, TypeOK
<1>2. Len(calls') = Len(calls)
  BY DEF SameCallsMade
<1>. SUFFICES ASSUME NEW c \in 1 .. Len(calls)
              PROVE  \E i \in 1 .. eventsSynced' :
                        /\ events'[i].kind = "request_started" /\ events'[i].call = c - 1
                        /\ events'[i].item = calls'[c].item
                        /\ events'[i].attempt = calls'[c].attempt
  BY <1>2 DEF CallsStayAnnounced
<1>3. PICK i \in 1 .. eventsSynced :
         /\ events[i].kind = "request_started" /\ events[i].call = c - 1
         /\ events[i].item = calls[c].item /\ events[i].attempt = calls[c].attempt
  BY DEF CallsStayAnnounced
<1>4. i \in 1 .. eventsSynced' /\ events'[i] = events[i]
  BY <1>1, <1>3
<1>. QED
  BY <1>3, <1>4 DEF SameCallsMade

LEMMA NoStartSurvives ==
    ASSUME TypeOK, Surviving, StableStep, RawGrows, NoStartWritten, SameCallsMade, EvidenceInv'
    PROVE  Surviving'
<1>1. /\ events \in Seq(Rows) /\ Len(events) \in Nat /\ Len(calls) \in Nat
      /\ calls \in Seq(Calls)
  BY DEF TypeOK
<1>2. events' = events \/ \E row : events' = Append(events, row)
  BY DEF NoStartWritten
<1>3. PrefixIsStable' /\ CallsStayAnnounced'
  BY <1>2, StablePrefix, StillAnnounced DEF Surviving
<1>4. \A i \in 1 .. Len(events') : events'[i].kind = "request_started" =>
         i \in 1 .. Len(events) /\ events'[i] = events[i]
  BY <1>1, AppendSays DEF NoStartWritten
<1>5. StartsAscend'
  BY <1>4 DEF Surviving, StartsAscend
<1>6. StartsAnnounce'
  <2>. SUFFICES ASSUME NEW i \in 1 .. Len(events'), events'[i].kind = "request_started"
                PROVE  /\ events'[i].call <= Len(calls')
                       /\ events'[i].call < Len(calls') =>
                             /\ calls'[events'[i].call + 1].item = events'[i].item
                             /\ calls'[events'[i].call + 1].attempt = events'[i].attempt
    BY DEF StartsAnnounce
  <2>1. i \in 1 .. Len(events) /\ events'[i] = events[i] /\ events[i].call \in Nat
    <3>1. i \in 1 .. Len(events) /\ events'[i] = events[i] /\ events[i] \in Rows
      BY <1>1, <1>4
    <3>. QED
      BY <3>1 DEF Rows
  <2>2. /\ events[i].call <= Len(calls)
        /\ events[i].call < Len(calls) =>
              /\ calls[events[i].call + 1].item = events[i].item
              /\ calls[events[i].call + 1].attempt = events[i].attempt
    BY <2>1 DEF Surviving, StartsAnnounce
  <2>. QED
    BY <1>1, <2>1, <2>2 DEF SameCallsMade
<1>. QED
  BY <1>3, <1>5, <1>6 DEF Surviving

(* A start is numbered past all others, and announces the next call.           *)
LEMMA StartSurvives ==
    ASSUME IInv, Surviving, NEW op \in Operations, pc[op] = "item", StableStep, EvidenceInv',
           raw' = raw, calls' = calls,
           events' = Append(events, RequestStarted(op, mem.ordinal, mem.attempt, Len(raw)))
    PROVE  Surviving'
<1>. DEFINE row == RequestStarted(op, mem.ordinal, mem.attempt, Len(raw))
<1>1. /\ events \in Seq(Rows) /\ Len(events) \in Nat /\ Len(raw) \in Nat /\ Len(calls) \in Nat
      /\ calls \in Seq(Calls) /\ TypeOK /\ LedgerInv
  BY DEF IInv, TypeOK
<1>2. row.kind = "request_started" /\ row.call = Len(raw)
  BY DEF RequestStarted, Event
<1>3. Len(raw) = Len(calls)
  BY PositionMayBeAsked, HolderMemory DEF IInv, MemoryInv
<1>. HIDE DEF row
<1>4. PrefixIsStable' /\ CallsStayAnnounced'
  <2>1. RawGrows /\ SameCallsMade
    BY DEF RawGrows, SameCallsMade
  <2>. QED
    BY <1>1, <2>1, StablePrefix, StillAnnounced DEF Surviving
<1>5. /\ Len(events') = Len(events) + 1 /\ events'[Len(events) + 1] = row
      /\ \A i \in 1 .. Len(events) : events'[i] = events[i]
  BY <1>1, AppendSays DEF row
<1>6. ASSUME NEW i \in 1 .. Len(events), events[i].kind = "request_started"
      PROVE  events[i].call \in Nat /\ events[i].call < row.call
  <2>1. PICK l : l = LastStart(events)
    OBVIOUS
  <2>2. IsLast(events, Starts, l)
    BY <1>1, <2>1, EveryLastExists, LastIsLast DEF LastStart, Starts
  <2>3. /\ l \in 1 .. Len(events) /\ i <= l /\ events[l].kind = "request_started"
        /\ RequestHistory(events) /\ Start(events) = events[l]
    BY <1>1, <1>6, <2>1, <2>2 DEF IsLast, Starts, RequestHistory, Start
  <2>4. events[l].call < Len(raw)
    <3>1. PositionIsNext
      BY HolderMemory DEF MemoryInv
    <3>2. HasRaw(events, raw)
      BY <1>1, <2>3, <3>1 DEF PositionIsNext, LedgerInv, StartIsCurrent
    <3>. QED
      BY <2>3, <3>2 DEF HasRaw
  <2>5. events[i] \in Rows /\ events[l] \in Rows
    BY <1>1, <2>3
  <2>6. events[i].call \in Nat /\ events[l].call \in Nat
    BY <2>5 DEF Rows
  <2>7. i < l => events[i].call < events[l].call
    BY <1>6, <2>3 DEF Surviving, StartsAscend
  <2>. QED
    BY <1>1, <1>2, <2>3, <2>4, <2>6, <2>7
<1>7. StartsAscend'
  <2>. SUFFICES ASSUME NEW i \in 1 .. Len(events'), NEW j \in 1 .. Len(events'), i < j,
                       events'[i].kind = "request_started", events'[j].kind = "request_started"
                PROVE  events'[i].call < events'[j].call
    BY DEF StartsAscend
  <2>1. i \in 1 .. Len(events) /\ events'[i] = events[i]
    BY <1>1, <1>5
  <2>2. CASE j = Len(events) + 1
    BY <1>5, <1>6, <2>1, <2>2
  <2>3. CASE j \in 1 .. Len(events)
    BY <1>5, <2>1, <2>3 DEF Surviving, StartsAscend
  <2>4. j = Len(events) + 1 \/ j \in 1 .. Len(events)
    BY <1>1, <1>5
  <2>. QED
    BY <2>2, <2>3, <2>4
<1>8. StartsAnnounce'
  <2>. SUFFICES ASSUME NEW i \in 1 .. Len(events'), events'[i].kind = "request_started"
                PROVE  /\ events'[i].call <= Len(calls)
                       /\ events'[i].call < Len(calls) =>
                             /\ calls[events'[i].call + 1].item = events'[i].item
                             /\ calls[events'[i].call + 1].attempt = events'[i].attempt
    BY DEF StartsAnnounce
  <2>1. CASE i = Len(events) + 1
    BY <1>1, <1>2, <1>3, <1>5, <2>1
  <2>2. CASE i \in 1 .. Len(events)
    BY <1>5, <2>2 DEF Surviving, StartsAnnounce
  <2>. QED
    BY <1>1, <1>5, <2>1, <2>2
<1>. QED
  BY <1>4, <1>7, <1>8 DEF Surviving

(* A call is made once its start is stable.                                    *)
LEMMA CallSurvives ==
    ASSUME IInv, Surviving, NEW op \in Operations, pc[op] = "started", StableStep, EvidenceInv',
           eventsSynced = Len(events), eventsSynced' = eventsSynced,
           raw' = raw, events' = events, NEW call,
           call.item = mem.ordinal, call.attempt = mem.attempt, calls' = Append(calls, call)
    PROVE  Surviving'
<1>1. /\ events \in Seq(Rows) /\ Len(events) \in Nat /\ Len(raw) \in Nat /\ Len(calls) \in Nat
      /\ calls \in Seq(Calls) /\ TypeOK /\ LedgerInv
  BY DEF IInv, TypeOK
<1>2. /\ Len(calls') = Len(calls) + 1 /\ calls'[Len(calls) + 1] = call
      /\ \A n \in 1 .. Len(calls) : calls'[n] = calls[n]
  BY <1>1, AppendSays
<1>3. StartIsMine /\ Len(calls) = Len(raw) /\ ~HasRaw(events, raw)
  BY HolderMemory DEF MemoryInv
<1>4. Start(events).call = Len(calls)
  BY <1>1, <1>3, LastRow DEF StartIsMine
<1>5. PICK l : l = LastStart(events)
  OBVIOUS
<1>6. /\ l \in 1 .. Len(events) /\ events[l].kind = "request_started"
      /\ Start(events) = events[l]
      /\ \A i \in 1 .. Len(events) : events[i].kind = "request_started" => i <= l
  <2>1. IsLast(events, Starts, l)
    BY <1>1, <1>5, EveryLastExists, LastIsLast DEF LastStart, Starts
  <2>2. l # 0
    BY <1>3, <1>5 DEF StartIsMine, RequestHistory
  <2>. QED
    BY <1>1, <1>5, <2>1, <2>2 DEF IsLast, Starts, Start
<1>7. PrefixIsStable' /\ StartsAscend'
  BY DEF Surviving, PrefixIsStable, StartsAscend, StableStep
<1>8. StartsAnnounce'
  <2>. SUFFICES ASSUME NEW i \in 1 .. Len(events), events[i].kind = "request_started"
                PROVE  /\ events[i].call <= Len(calls')
                       /\ events[i].call < Len(calls') =>
                             /\ calls'[events[i].call + 1].item = events[i].item
                             /\ calls'[events[i].call + 1].attempt = events[i].attempt
    BY DEF StartsAnnounce
  <2>1. events[i].call \in Nat
    <3>1. events[i] \in Rows
      BY <1>1
    <3>. QED
      BY <3>1 DEF Rows
  <2>2. CASE i = l
    BY <1>1, <1>2, <1>3, <1>4, <1>6, <2>2 DEF StartIsMine
  <2>3. CASE i # l
    <3>1. events[i].call < Len(calls)
      BY <1>4, <1>6, <2>3 DEF Surviving, StartsAscend
    <3>2. /\ calls[events[i].call + 1].item = events[i].item
          /\ calls[events[i].call + 1].attempt = events[i].attempt
      BY <3>1 DEF Surviving, StartsAnnounce
    <3>3. events[i].call + 1 \in 1 .. Len(calls)
      BY <1>1, <2>1, <3>1
    <3>. QED
      BY <1>1, <1>2, <2>1, <3>1, <3>2, <3>3
  <2>. QED
    BY <2>2, <2>3
<1>9. CallsStayAnnounced'
  <2>. SUFFICES ASSUME NEW c \in 1 .. Len(calls')
                PROVE  \E i \in 1 .. Len(events) :
                          /\ events[i].kind = "request_started" /\ events[i].call = c - 1
                          /\ events[i].item = calls'[c].item
                          /\ events[i].attempt = calls'[c].attempt
    BY DEF CallsStayAnnounced
  <2>1. CASE c = Len(calls) + 1
    BY <1>1, <1>2, <1>3, <1>4, <1>6, <2>1 DEF StartIsMine
  <2>2. CASE c \in 1 .. Len(calls)
    <3>1. calls'[c] = calls[c]
      BY <1>2, <2>2
    <3>. QED
      BY <2>2, <3>1 DEF Surviving, CallsStayAnnounced
  <2>. QED
    BY <1>1, <1>2, <2>1, <2>2
<1>. QED
  BY <1>7, <1>8, <1>9 DEF Surviving

(* A step that neither announces nor makes a call, and moves op alone.         *)
QuietStep(op) ==
    /\ NoStartWritten /\ RawGrows /\ SameCallsMade
    /\ pc'[op] # "started"
    /\ \A p \in Operations \ {op} : pc'[p] = pc[p]

LEMMA QuietWrite ==
    ASSUME TypeOK, NEW op \in Operations, NEW row, row.kind # "request_started",
           events' = Append(events, row) \/ events' = events,
           RawGrows, calls' = calls, NEW place, place # "started",
           pc' = [pc EXCEPT ![op] = place] \/ (pc' = pc /\ pc[op] = place)
    PROVE  QuietStep(op)
<1>1. pc \in [Operations -> Places]
  BY DEF TypeOK
<1>2. pc'[op] # "started" /\ \A p \in Operations \ {op} : pc'[p] = pc[p]
  BY <1>1
<1>. QED
  BY <1>2 DEF QuietStep, NoStartWritten, SameCallsMade

LEMMA QuietReads ==
    ASSUME TypeOK, NEW op \in Operations, events' = events, raw' = raw, calls' = calls,
           NEW place, place # "started",
           pc' = [pc EXCEPT ![op] = place] \/ (pc' = pc /\ pc[op] = place)
    PROVE  QuietStep(op)
<1>1. pc \in [Operations -> Places]
  BY DEF TypeOK
<1>2. pc'[op] # "started" /\ \A p \in Operations \ {op} : pc'[p] = pc[p]
  BY <1>1
<1>. QED
  BY <1>2 DEF QuietStep, NoStartWritten, RawGrows, SameCallsMade

(* Nothing is written, synced or called.                                       *)
LEMMA SurvivingUnchanged ==
    ASSUME Surviving, events' = events, raw' = raw, calls' = calls,
           eventsSynced' = eventsSynced, rawSynced' = rawSynced
    PROVE  Surviving'
<1>1. PrefixIsStable' /\ StartsAscend' /\ StartsAnnounce' /\ CallsStayAnnounced'
  BY DEF Surviving, PrefixIsStable, StartsAscend, StartsAnnounce, CallsStayAnnounced
<1>2. EvidenceInv'
  BY DEF Surviving, EvidenceInv, StartsAreAttempts, RawIsLearnt, CallsAscend, RawRowsAreCalls,
         CallsFollowThePlan, NoCallAfterPossibleDelivery
<1>. QED
  BY <1>1, <1>2 DEF Surviving

(* What each recovery step writes.                                             *)
LEMMA RecoveryStepIsQuiet ==
    ASSUME IInv, NEW op \in Operations, Recover(op)
    PROVE  QuietStep(op)
<1>1. TypeOK
  BY DEF IInv
<1>2. CASE AppendRecovered(op)
  <2>1. Head(mem.todo).kind # "request_started"
    <3>1. pc[op] = "recovering" /\ mem.todo # <<>> /\ mem.todo \in Seq(OwedRows)
      BY <1>2 DEF AppendRecovered, IInv, MemoryInv, TodoIsOwed
    <3>2. Head(mem.todo) \in OwedRows
      BY <3>1, HeadTailProperties
    <3>. QED
      BY <3>2 DEF OwedRows
  <2>2. /\ events' = Append(events, Head(mem.todo)) \/ events' = events
        /\ raw' = raw /\ calls' = calls
        /\ pc' = [pc EXCEPT ![op] = "failed"] \/ (pc' = pc /\ pc[op] = "recovering")
    BY <1>2 DEF AppendRecovered, AppendEvent, Return, Goto
  <2>3. PICK place : /\ place # "started"
                     /\ pc' = [pc EXCEPT ![op] = place] \/ (pc' = pc /\ pc[op] = place)
    BY <2>2
  <2>4. RawGrows
    BY <2>2 DEF RawGrows
  <2>. QED
    BY <1>1, <2>1, <2>2, <2>3, <2>4, QuietWrite
<1>3. CASE ~AppendRecovered(op)
  <2>1. events' = events /\ raw' = raw /\ calls' = calls
    BY <1>3 DEF Recover, PlanRecovery, RefuseRuntime, BeginRepair, TruncateEvents, TruncateRaw,
                FinishRepair, ledgers
  <2>2. PlanRecovery(op) => pc' = [pc EXCEPT ![op] = "planned"]
    BY DEF PlanRecovery, Goto
  <2>3. RefuseRuntime(op) => pc' = [pc EXCEPT ![op] = "refused"]
    BY DEF RefuseRuntime, Return, Goto
  <2>4. BeginRepair(op) => pc' = [pc EXCEPT ![op] = "recovering"]
    BY DEF BeginRepair, Continue, Goto
  <2>5. TruncateEvents(op) \/ TruncateRaw(op) => pc' = pc /\ pc[op] = "recovering"
    BY DEF TruncateEvents, TruncateRaw
  <2>6. FinishRepair(op) => \E place \in {"complete", "operational_stop", "ready"} :
                               pc' = [pc EXCEPT ![op] = place]
    BY DEF FinishRepair, Return, Goto
  <2>7. PICK place : /\ place # "started"
                     /\ pc' = [pc EXCEPT ![op] = place] \/ (pc' = pc /\ pc[op] = place)
    BY <1>3, <2>2, <2>3, <2>4, <2>5, <2>6 DEF Recover
  <2>. QED
    BY <1>1, <2>1, <2>7, QuietReads
<1>. QED
  BY <1>2, <1>3

LEMMA EpochStepIsQuiet ==
    ASSUME IInv, NEW op \in Operations, Execute(op) \/ Stop(op) \/ Fail(op),
           ~StartRequest(op), ~CallProvider(op)
    PROVE  QuietStep(op)
<1>1. TypeOK
  BY DEF IInv
<1>2. CASE BindProvider(op) \/ NextItem(op) \/ Backoff(op) \/ LeaveAmbiguous(op) \/ Fail(op)
  <2>1. events' = events /\ raw' = raw /\ calls' = calls
    BY <1>2 DEF BindProvider, NextItem, Backoff, LeaveAmbiguous, Fail, ledgers
  <2>2. PICK place \in {"item", "completing", "operational_stop", "failed"} :
           pc' = [pc EXCEPT ![op] = place]
    BY <1>2 DEF BindProvider, NextItem, Backoff, LeaveAmbiguous, Fail, Continue, Return, Goto
  <2>. QED
    BY <1>1, <2>1, <2>2, QuietReads
<1>3. CASE ProviderReturns(op)
  <2>1. /\ pc' = [pc EXCEPT ![op] = "answered"] /\ events' = events /\ raw' = raw
        /\ \E learnt : calls' = [calls EXCEPT ![Len(calls)].learnt = learnt]
    BY <1>3 DEF ProviderReturns, Goto, ledgers
  <2>2. pc'[op] # "started" /\ \A p \in Operations \ {op} : pc'[p] = pc[p]
    BY <1>1, <2>1 DEF TypeOK
  <2>3. SameCallsMade
    <3>1. calls \in Seq(Calls)
      BY <1>1 DEF TypeOK
    <3>2. \A n \in 1 .. Len(calls) : calls[n] \in Calls
      BY <3>1
    <3>. QED
      BY <2>1, <3>1, <3>2 DEF SameCallsMade, Calls
  <2>. QED
    BY <2>1, <2>2, <2>3 DEF QuietStep, NoStartWritten, RawGrows
<1>4. CASE RecordAttempt(op)
  <2>1. events' = events /\ RawGrows /\ calls' = calls
    BY <1>4 DEF RecordAttempt, AppendRaw, RawGrows
  <2>2. PICK place \in {"recorded", "failed"} : pc' = [pc EXCEPT ![op] = place]
    BY <1>4 DEF RecordAttempt, AppendRaw, Continue, Return, Goto
  <2>3. [kind |-> "prepared"].kind # "request_started"
    OBVIOUS
  <2>. QED
    BY <1>1, <2>1, <2>2, <2>3, QuietWrite
<1>5. CASE \/ StartExecution(op) \/ Interrupt(op) \/ Block(op) \/ FinishRequest(op)
           \/ CompleteGeneration(op) \/ MarkStop(op)
  <2>1. RawGrows /\ calls' = calls
    BY <1>5 DEF StartExecution, Interrupt, Block, FinishRequest, CompleteGeneration, MarkStop,
                AppendEvent, RawGrows
  <2>3. PICK place \in {"epoch", "operational_stop", "finished", "complete", "failed"} :
           pc' = [pc EXCEPT ![op] = place]
    BY <1>5 DEF StartExecution, Interrupt, Block, FinishRequest, CompleteGeneration, MarkStop,
                AppendEvent, Continue, Return, Goto
  <2>2. PICK row : /\ row.kind # "request_started"
                   /\ events' = Append(events, row) \/ events' = events
    <3>. DEFINE Wrote(row) == /\ row.kind # "request_started"
                              /\ events' = Append(events, row) \/ events' = events
    <3>1. StartExecution(op) => Wrote(Event("execution_started", op, FALSE, mem.ordinal, 0, 0))
      BY DEF StartExecution, AppendEvent, Event
    <3>2. Interrupt(op) => Wrote(Event("execution_interrupted", op, FALSE, mem.ordinal, 0, 0))
      BY DEF Interrupt, AppendEvent, Event
    <3>3. Block(op) => Wrote(Event("execution_blocked", op, FALSE, 0, 0, 0))
      BY DEF Block, AppendEvent, Event
    <3>4. FinishRequest(op) => Wrote(RequestFinished(op, FALSE, Start(events)))
      BY DEF FinishRequest, AppendEvent, RequestFinished, Event
    <3>5. CompleteGeneration(op) => Wrote(GenerationCompleted(op, FALSE))
      BY DEF CompleteGeneration, AppendEvent, GenerationCompleted, Event
    <3>6. MarkStop(op) => Wrote(Marker(MarkerOf(mem.reason), op, FALSE, Start(events)))
      BY DEF MarkStop, AppendEvent, Marker, MarkerOf, Event
    <3>. HIDE DEF Wrote
    <3>7. \E row : Wrote(row)
      BY <1>5, <3>1, <3>2, <3>3, <3>4, <3>5, <3>6
    <3>. QED
      BY <3>7 DEF Wrote
  <2>. QED
    BY <1>1, <2>1, <2>2, <2>3, QuietWrite
<1>. QED
  BY <1>2, <1>3, <1>4, <1>5 DEF Execute, Stop

LEMMA StepKinds ==
    ASSUME IInv, NEW op \in Operations, pc[op] \in Running, Step(op) \/ Fail(op)
    PROVE  QuietStep(op) \/ StartRequest(op) \/ CallProvider(op)
BY RecoveryStepIsQuiet, EpochStepIsQuiet DEF Step, Advance, AcquireLock, Running

(* A step of an operation that has planned.                                    *)
LEMMA ResumedStep ==
    ASSUME IInv, Surviving, NEW op \in Operations, pc[op] \in Running,
           pc[op] = "started" => eventsSynced = Len(events), DStep(op)
    PROVE  PowerLossInv'
<1>1. Step(op) \/ Fail(op)
  BY DEF DStep
<1>2. IInv'
  BY <1>1, NextInv DEF Next
<1>3. /\ TypeOK' /\ SingleMutator' /\ LedgerInv' /\ EvidenceInv'
      /\ TypeOK /\ events \in Seq(Rows) /\ Len(events) \in Nat
  BY <1>2 DEF IInv, LedgerInv, EvidenceInv, TypeOK
<1>4. /\ StableStep
      /\ events' # events /\ pc'[op] # "failed" => eventsSynced' = Len(events')
      /\ events' = events /\ eventTail' = eventTail => eventsSynced' = eventsSynced
  BY SyncedSays DEF StableStep
<1>5. \A p \in Operations \ {op} : pc[p] \notin Running
  BY NoOperationIsFresh DEF IInv, SingleMutator
<1>6. CASE QuietStep(op)
  <2>1. Surviving'
    BY <1>3, <1>4, <1>6, NoStartSurvives DEF QuietStep
  <2>2. \A p \in Operations : pc'[p] # "started"
    BY <1>5, <1>6 DEF QuietStep, Running
  <2>. QED
    BY <1>2, <1>3, <2>1, <2>2 DEF PowerLossInv
<1>7. CASE StartRequest(op)
  <2>1. /\ pc[op] = "item" /\ raw' = raw /\ calls' = calls
        /\ \E place \in {"started", "failed"} : pc' = [pc EXCEPT ![op] = place]
        /\ \/ events' = Append(events, RequestStarted(op, mem.ordinal, mem.attempt, Len(raw)))
           \/ events' = events /\ pc' = [pc EXCEPT ![op] = "failed"]
    BY <1>7 DEF StartRequest, AppendEvent, Continue, Return, Goto
  <2>2. \A p \in Operations \ {op} : pc'[p] = pc[p] /\ pc'[p] # "started"
    BY <1>3, <1>5, <2>1 DEF TypeOK, Running
  <2>3. CASE events' = Append(events, RequestStarted(op, mem.ordinal, mem.attempt, Len(raw)))
    <3>1. Surviving'
      BY <1>3, <1>4, <2>1, <2>3, StartSurvives
    <3>2. events' # events
      BY <1>3, <2>3, AppendSays
    <3>3. pc'[op] = "started" => eventsSynced' = Len(events')
      BY <1>4, <3>2
    <3>. QED
      BY <1>2, <1>3, <2>2, <3>1, <3>3 DEF PowerLossInv
  <2>4. CASE events' = events /\ pc' = [pc EXCEPT ![op] = "failed"]
    <3>1. NoStartWritten /\ RawGrows /\ SameCallsMade
      BY <2>1, <2>4 DEF NoStartWritten, RawGrows, SameCallsMade
    <3>2. Surviving'
      BY <1>3, <1>4, <3>1, NoStartSurvives
    <3>3. pc'[op] # "started"
      BY <1>3, <2>4 DEF TypeOK
    <3>. QED
      BY <1>2, <1>3, <2>2, <3>2, <3>3 DEF PowerLossInv
  <2>. QED
    BY <2>1, <2>3, <2>4
<1>8. CASE CallProvider(op)
  <2>1. /\ pc[op] = "started" /\ raw' = raw /\ events' = events /\ eventTail' = eventTail
        /\ calls' = Append(calls, [item |-> mem.ordinal, attempt |-> mem.attempt,
                                   learnt |-> "in_flight"])
        /\ pc' = [pc EXCEPT ![op] = "calling"]
    BY <1>8 DEF CallProvider, Continue, Goto, ledgers
  <2>2. \A p \in Operations : pc'[p] # "started"
    BY <1>3, <1>5, <2>1 DEF TypeOK, Running
  <2>3. eventsSynced = Len(events) /\ eventsSynced' = eventsSynced
    BY <1>4, <2>1
  <2>4. PICK call : /\ call.item = mem.ordinal /\ call.attempt = mem.attempt
                    /\ calls' = Append(calls, call)
    BY <2>1
  <2>5. Surviving'
    BY <1>3, <1>4, <2>1, <2>3, <2>4, CallSurvives
  <2>. QED
    BY <1>2, <1>3, <2>2, <2>5 DEF PowerLossInv
<1>. QED
  BY <1>1, <1>6, <1>7, <1>8, StepKinds

(* Before an operation plans, nothing is known of the ledgers beyond what      *)
(* survives; planning requires that the acceptor takes them.                   *)
LEMMA LockedStep ==
    ASSUME PowerLossInv, NEW op \in Operations, pc[op] = "locked", DStep(op)
    PROVE  PowerLossInv'
<1>1. TypeOK /\ SingleMutator /\ Surviving /\ (Step(op) \/ Fail(op))
  BY DEF PowerLossInv, DStep
<1>2. \A p \in Operations \ {op} : pc[p] \notin Running
  BY <1>1, NoOperationIsFresh DEF SingleMutator, Running
<1>3. CASE PlanRecovery(op)
  <2>1. H!Replay(events, raw).ok
    BY <1>1, <1>3 DEF DStep, PlanRecovery, Goto, TypeOK
  <2>2. LedgerInv
    BY <1>1, <2>1, AcceptedLedgers
  <2>3. \A p \in Operations : MemoryInv(p)
    BY <1>2, IdleMemory DEF MemoryInv
  <2>4. IInv
    BY <1>1, <2>2, <2>3 DEF IInv
  <2>. QED
    BY <1>1, <2>4, ResumedStep DEF Running
<1>4. CASE Fail(op)
  <2>1. /\ events' = events /\ eventTail' = eventTail /\ raw' = raw /\ rawTail' = rawTail
        /\ calls' = calls
        /\ pc' = [pc EXCEPT ![op] = "failed"] /\ lock' = NoOperation /\ mem' = NoMemory
    BY <1>4 DEF Fail, Return, Goto, ledgers
  <2>2. \A p \in Operations : pc'[p] \notin Running
    BY <1>1, <1>2, <2>1 DEF TypeOK, Running
  <2>3. TypeOK' /\ SingleMutator'
    BY <1>1, <2>1, <2>2, NoMemoryTyped DEF TypeOK, SingleMutator, Places, Returned
  <2>4. eventsSynced' = eventsSynced /\ rawSynced' = rawSynced
    BY <2>1, SyncedSays
  <2>5. Surviving'
    BY <1>1, <2>1, <2>4, SurvivingUnchanged
  <2>. QED
    BY <2>2, <2>3, <2>5 DEF PowerLossInv, Resumed, Running
<1>. QED
  BY <1>1, <1>3, <1>4 DEF Step, Advance, Stop, Recover, Execute, AcquireLock, RefuseRuntime,
        BeginRepair, TruncateEvents, TruncateRaw, AppendRecovered, FinishRepair, StartExecution,
        Interrupt, Block, BindProvider, StartRequest, LeaveAmbiguous, CallProvider,
        ProviderReturns, RecordAttempt, FinishRequest, MarkStop, NextItem, Backoff,
        CompleteGeneration

(* Taking the lock, or finding it taken.                                       *)
LEMMA LockStep ==
    ASSUME PowerLossInv, NEW op \in Operations, AcquireLock(op), DStep(op)
    PROVE  PowerLossInv'
<1>1. /\ TypeOK /\ SingleMutator /\ Surviving /\ pc \in [Operations -> Places]
      /\ events' = events /\ eventTail' = eventTail /\ raw' = raw /\ rawTail' = rawTail
      /\ mem' = mem /\ calls' = calls /\ pc[op] = "new"
  BY DEF PowerLossInv, TypeOK, AcquireLock, ledgers
<1>2. eventsSynced' = eventsSynced /\ rawSynced' = rawSynced
  BY <1>1, SyncedSays
<1>3. Surviving'
  BY <1>1, <1>2, SurvivingUnchanged
<1>4. PICK place \in {"locked", "busy"} :
        /\ pc' = [pc EXCEPT ![op] = place]
        /\ place = "locked" => lock = NoOperation /\ lock' = op
        /\ place = "busy" => lock' = lock
  BY DEF AcquireLock, Goto
<1>5. pc'[op] = place /\ \A p \in Operations \ {op} : pc'[p] = pc[p]
  BY <1>1, <1>4
<1>6. TypeOK' /\ SingleMutator'
  BY <1>1, <1>4, <1>5, NoOperationIsFresh
     DEF TypeOK, SingleMutator, Places, Running, Returned
<1>7. ASSUME NEW p \in Operations, Resumed(p)' PROVE IInv'
  <2>1. p # op /\ Resumed(p)
    BY <1>4, <1>5, <1>7 DEF Resumed, Running
  <2>. QED
    BY <2>1, AcquireLockStep DEF PowerLossInv
<1>8. \A p \in Operations : pc'[p] = "started" => eventsSynced' = Len(events')
  BY <1>1, <1>2, <1>4, <1>5 DEF PowerLossInv
<1>. QED
  BY <1>3, <1>6, <1>7, <1>8 DEF PowerLossInv

LEMMA PowerLossNext == PowerLossInv /\ [DNext]_dvars => PowerLossInv'
<1>. SUFFICES ASSUME PowerLossInv, [DNext]_dvars PROVE PowerLossInv'
  OBVIOUS
<1>1. CASE PowerLoss
  BY <1>1, PowerLossKeeps DEF PowerLossInv
<1>2. ASSUME NEW op \in Operations, DStep(op) PROVE PowerLossInv'
  <2>1. Resumed(op) => IInv /\ Surviving /\ (pc[op] = "started" => eventsSynced = Len(events))
    BY DEF PowerLossInv
  <2>2. Resumed(op) => PowerLossInv'
    BY <1>2, <2>1, ResumedStep DEF Resumed
  <2>3. pc[op] = "locked" => PowerLossInv'
    BY <1>2, LockedStep
  <2>4. pc[op] \notin Running => AcquireLock(op)
    BY <1>2 DEF DStep, Step, Advance, Stop, Recover, Execute, PlanRecovery, RefuseRuntime,
        BeginRepair, TruncateEvents, TruncateRaw, AppendRecovered, FinishRepair, StartExecution,
        Interrupt, Block, BindProvider, StartRequest, LeaveAmbiguous, CallProvider,
        ProviderReturns, RecordAttempt, FinishRequest, MarkStop, NextItem, Backoff,
        CompleteGeneration, Fail, Running
  <2>. QED
    BY <1>2, <2>2, <2>3, <2>4, LockStep DEF Resumed
<1>3. CASE UNCHANGED dvars
  <2>1. /\ UNCHANGED vars /\ eventsSynced' = eventsSynced /\ rawSynced' = rawSynced
        /\ events' = events /\ eventTail' = eventTail /\ raw' = raw /\ rawTail' = rawTail
        /\ mem' = mem /\ calls' = calls /\ pc' = pc /\ lock' = lock
    BY <1>3 DEF dvars, vars
  <2>2. Surviving'
    BY <2>1, SurvivingUnchanged DEF PowerLossInv
  <2>3. TypeOK' /\ SingleMutator'
    BY <2>1 DEF PowerLossInv, TypeOK, SingleMutator
  <2>4. \A op \in Operations : Resumed(op)' => IInv'
    BY <2>1, StutterStep DEF PowerLossInv, Resumed
  <2>5. \A op \in Operations : pc'[op] = "started" => eventsSynced' = Len(events')
    BY <2>1 DEF PowerLossInv
  <2>. QED
    BY <2>2, <2>3, <2>4, <2>5 DEF PowerLossInv
<1>. QED
  BY <1>1, <1>2, <1>3 DEF DNext

LEMMA PowerLossInit == DInit => PowerLossInv
<1>. SUFFICES ASSUME DInit PROVE PowerLossInv
  OBVIOUS
<1>1. IInv /\ Init /\ eventsSynced = 1 /\ rawSynced = 0
  BY InitInv DEF DInit
<1>2. /\ events = <<Prepared>> /\ raw = <<>> /\ calls = <<>> /\ Prepared.kind = "prepared"
      /\ Len(events) = 1 /\ events[1].kind = "prepared"
      /\ \A op \in Operations : pc[op] = "new"
  BY <1>1 DEF Init, Prepared, Event
<1>3. PrefixIsStable /\ StartsAscend /\ StartsAnnounce /\ CallsStayAnnounced
  BY <1>1, <1>2 DEF PrefixIsStable, StartsAscend, StartsAnnounce, CallsStayAnnounced
<1>. QED
  BY <1>1, <1>2, <1>3 DEF PowerLossInv, Surviving, EvidenceInv, IInv, LedgerInv

(* What survives every power loss: the starts of the calls made, the order of  *)
(* the rows and what they tell of the calls.                                   *)
THEOREM PowerLossSafe == DSpec => []PowerLossInv
BY PowerLossInit, PowerLossNext, PTL DEF DSpec

(* Power may fail any number of times, taking whatever was not synced: every   *)
(* call the provider saw stays announced on stable storage, and no call that   *)
(* may have had an effect is followed by another one for its item.             *)
THEOREM SafeThroughPowerLoss == DSpec => []SafeAfterPowerLoss
<1>1. PowerLossInv => SafeAfterPowerLoss
  BY DEF PowerLossInv, Surviving, EvidenceInv, SafeAfterPowerLoss, NoRepeatAfterPowerLoss,
         NoCallAfterPossibleDelivery
<1>. QED
  BY <1>1, PowerLossSafe, PTL
=============================================================================
