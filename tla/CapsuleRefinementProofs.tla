
----------------------- MODULE CapsuleRefinementProofs ----------------------
(* What the journal refines and what refines it, for every number of           *)
(* operations, plan items and retries.  A settled capsule stays as it is, and  *)
(* every behaviour is one of GenerationContract: both rest on the invariant of *)
(* CapsuleJournalProofs, and the refinement on the number of starts as well.   *)
(* CapsuleCapacity, for any limit, reserves, row sizes and room left by        *)
(* preparation, allows only behaviours of the journal, so that only the holder *)
(* of the lock writes; its budget is then an invariant of its own, and so is   *)
(* the room for whatever repair a crash may call for.                          *)
EXTENDS MCCapsuleContract, CapsuleCapacity, CapsuleDurabilityProofs, FiniteSetTheorems

-----------------------------------------------------------------------------
(* What a step may do to the ledgers *)

(* An event row other than a start, which the ledgers call for if it finishes  *)
(* a request or completes generation.                                          *)
Harmless(row) ==
    /\ row \in Rows
    /\ row.kind # "request_started"
    /\ row.kind = "request_finished" => HasRaw(events, raw)
    /\ row.kind = "generation_completed" => NextOrdinal(events, raw) = PlanLength

Grows == \E row \in Rows : Harmless(row) /\ events' = Append(events, row)

(* The ledgers and calls stay, or one harmless row is added.                   *)
Quiet == UNCHANGED <<raw, calls>> /\ (events' = events \/ Grows)

LEMMA RecoverIsQuiet ==
    ASSUME IInv, NEW op \in Operations, Recover(op)
    PROVE  Quiet
<1>1. CASE AppendRecovered(op)
  <2>. DEFINE row == Head(mem.todo)
  <2>1. /\ pc[op] = "recovering" /\ mem.todo # <<>>
        /\ UNCHANGED <<raw, calls>>
        /\ events' = events \/ events' = Append(events, row)
    BY <1>1 DEF AppendRecovered, AppendEvent
  <2>2. mem.todo \in Seq(OwedRows)
    BY <2>1, HolderMemory DEF MemoryInv, TodoIsOwed
  <2>3. row \in OwedRows
    BY <2>1, <2>2, HeadTailProperties
  <2>4. Harmless(row)
    BY <2>3 DEF OwedRows, Harmless
  <2>. QED
    BY <2>1, <2>4 DEF Quiet, Grows, Harmless
<1>2. CASE ~AppendRecovered(op)
  BY <1>2 DEF Recover, PlanRecovery, RefuseRuntime, BeginRepair, TruncateEvents, TruncateRaw,
              FinishRepair, ledgers, Quiet
<1>. QED
  BY <1>1, <1>2

(* Rows that start, interrupt or block an epoch.                               *)
LEMMA EpochIsQuiet ==
    ASSUME IInv, NEW op \in Operations,
           StartExecution(op) \/ Interrupt(op) \/ Block(op)
    PROVE  Quiet
<1>. DEFINE started == Event("execution_started", op, FALSE, mem.ordinal, 0, 0)
            interrupted == Event("execution_interrupted", op, FALSE, mem.ordinal, 0, 0)
            blocked == Event("execution_blocked", op, FALSE, 0, 0, 0)
<1>1. Harmless(started) /\ Harmless(interrupted) /\ Harmless(blocked)
  BY HolderMemory DEF Event, Rows, Harmless
<1>. HIDE DEF started, interrupted, blocked
<1>2. /\ UNCHANGED <<raw, calls>>
      /\ \/ events' = events
         \/ \E row \in {started, interrupted, blocked} : events' = Append(events, row)
  BY DEF StartExecution, Interrupt, Block, AppendEvent, started, interrupted, blocked
<1>. QED
  BY <1>1, <1>2 DEF Quiet, Grows, Harmless

(* Rows that finish a request, mark a stop or complete generation.             *)
LEMMA EndIsQuiet ==
    ASSUME IInv, NEW op \in Operations,
           FinishRequest(op) \/ MarkStop(op) \/ CompleteGeneration(op)
    PROVE  Quiet
<1>. DEFINE s == Start(events)
            finished == RequestFinished(op, FALSE, s)
            marker == Marker(MarkerOf(mem.reason), op, FALSE, s)
            completed == GenerationCompleted(op, FALSE)
<1>1. pc[op] \in {"recorded", "finished", "completing"}
  BY DEF FinishRequest, MarkStop, CompleteGeneration
<1>2. StartIsMine /\ HasRaw(events, raw)
  BY <1>1, HolderMemory DEF MemoryInv
<1>3. s \in Rows
  BY <1>2, LastRow DEF IInv, StartIsMine
<1>4. Harmless(finished)
  BY <1>2, <1>3 DEF RequestFinished, Event, Rows, Harmless
<1>5. MarkStop(op) => Harmless(marker)
  <2>1. MarkStop(op) => MarkerOf(mem.reason) \in {"authentication_stopped", "delivery_ambiguous"}
    BY DEF MarkStop, MarkerOf
  <2>. QED
    BY <1>3, <2>1, HolderMemory DEF Marker, Event, Rows, Harmless
<1>6. CompleteGeneration(op) => Harmless(completed)
  <2>1. CompleteGeneration(op) => NextOrdinal(events, raw) = PlanLength
    BY FinishedPosition DEF CompleteGeneration
  <2>. QED
    BY <2>1, HolderMemory DEF GenerationCompleted, Event, Rows, Harmless
<1>. HIDE DEF finished, marker, completed
<1>7. CASE FinishRequest(op)
  <2>1. UNCHANGED <<raw, calls>> /\ (events' = events \/ events' = Append(events, finished))
    BY <1>7 DEF FinishRequest, AppendEvent, finished
  <2>. QED
    BY <1>4, <2>1 DEF Quiet, Grows, Harmless
<1>8. CASE MarkStop(op)
  <2>1. UNCHANGED <<raw, calls>> /\ (events' = events \/ events' = Append(events, marker))
    BY <1>8 DEF MarkStop, AppendEvent, marker
  <2>. QED
    BY <1>5, <1>8, <2>1 DEF Quiet, Grows, Harmless
<1>9. CASE CompleteGeneration(op)
  <2>1. UNCHANGED <<raw, calls>> /\ (events' = events \/ events' = Append(events, completed))
    BY <1>9 DEF CompleteGeneration, AppendEvent, completed
  <2>. QED
    BY <1>6, <1>9, <2>1 DEF Quiet, Grows, Harmless
<1>. QED
  BY <1>7, <1>8, <1>9

(* Every step adds a harmless row at most, announces a call, makes it, learns  *)
(* its outcome or records it.                                                  *)
LEMMA StepsOfTheLedgers ==
    ASSUME IInv, [Next]_vars
    PROVE  \/ Quiet
           \/ \E op \in Operations : \/ StartRequest(op) \/ CallProvider(op)
                                     \/ ProviderReturns(op) \/ RecordAttempt(op)
<1>1. CASE UNCHANGED vars
  BY <1>1 DEF vars, Quiet
<1>2. CASE Next
  <2>1. PICK op \in Operations : Step(op) \/ Fail(op)
    BY <1>2 DEF Next
  <2>2. CASE Fail(op) \/ AcquireLock(op) \/ LeaveAmbiguous(op)
    BY <2>2 DEF Fail, AcquireLock, LeaveAmbiguous, ledgers, Quiet
  <2>3. CASE BindProvider(op) \/ NextItem(op) \/ Backoff(op)
    BY <2>3 DEF BindProvider, NextItem, Backoff, ledgers, Quiet
  <2>4. CASE Recover(op)
    BY <2>4, RecoverIsQuiet
  <2>. QED
    BY <2>1, <2>2, <2>3, <2>4, EpochIsQuiet, EndIsQuiet DEF Step, Advance, Execute, Stop
<1>. QED
  BY <1>1, <1>2

(* What a quiet step leaves as it was.                                         *)
LEMMA QuietKeeps ==
    ASSUME IInv, Quiet
    PROVE  /\ RequestHistory(events') <=> RequestHistory(events)
           /\ RequestHistory(events) => Start(events') = Start(events)
           /\ HasRaw(events', raw') <=> HasRaw(events, raw)
           /\ Reason(events', raw') = Reason(events, raw)
           /\ NextOrdinal(events', raw') = NextOrdinal(events, raw)
           /\ RawlessOpen(events', raw') <=> RawlessOpen(events, raw)
<1>1. CASE events' = events
  BY <1>1 DEF Quiet
<1>2. CASE Grows
  <2>1. PICK row \in Rows : Harmless(row) /\ events' = Append(events, row)
    BY <1>2 DEF Grows
  <2>2. /\ RequestHistory(events') <=> RequestHistory(events)
        /\ RequestHistory(events) => Start(events') = Start(events)
        /\ HasRaw(events', raw') <=> HasRaw(events, raw)
        /\ Reason(events', raw') = Reason(events, raw)
        /\ NextOrdinal(events', raw') = NextOrdinal(events, raw)
        /\ Open(events') <=> Open(events) /\ row.kind # "request_finished"
    BY <2>1, EventAppended DEF Harmless, IInv, Quiet
  <2>. QED
    BY <2>1, <2>2 DEF RawlessOpen, Harmless
<1>. QED
  BY <1>1, <1>2 DEF Quiet

-----------------------------------------------------------------------------
(* A settled capsule *)

(* Once delivery is ambiguous, authentication stopped the run or generation is *)
(* complete, no step of any resume, repair or dying process calls the provider *)
(* again, adds an attempt or changes what the ledgers say the capsule is.      *)
THEOREM StaysSettled == Spec => SettledIsForever
<1>. DEFINE Same == Settled => /\ UNCHANGED <<raw, calls>>
                               /\ Lifecycle(events', raw') = Lifecycle(events, raw)
<1>1. IInv /\ [Next]_vars => Same
  <2>. SUFFICES ASSUME IInv, [Next]_vars, Settled
                PROVE  /\ UNCHANGED <<raw, calls>>
                       /\ Lifecycle(events', raw') = Lifecycle(events, raw)
    OBVIOUS
  <2>1. Lifecycle(events, raw) \in
           {"AMBIGUOUS_INFLIGHT", "AUTHENTICATION_STOPPED", "GENERATION_COMPLETE"}
    BY DEF Settled
  <2>2. \A op \in Operations : ~(CallProvider(op) \/ ProviderReturns(op) \/ RecordAttempt(op))
    BY DEF Settled, CallProvider, ProviderReturns, RecordAttempt
  <2>3. ASSUME NEW op \in Operations, StartRequest(op) PROVE FALSE
    <3>1. PositionIsNext /\ mem.ordinal \in Ordinals
      BY <2>3, HolderMemory DEF StartRequest, MemoryInv
    <3>2. ~RawlessOpen(events, raw) /\ NextOrdinal(events, raw) # PlanLength
      BY <3>1, PlanIsNotEmpty DEF PositionIsNext, RawlessOpen, Ordinals
    <3>3. Reason(events, raw) \in Resolved \cup {"none", "missing"}
      BY <3>1 DEF PositionIsNext, Reason, HasRaw
    <3>. QED
      BY <2>1, <3>2, <3>3 DEF Lifecycle, Resolved
  <2>4. Quiet
    BY <2>2, <2>3, StepsOfTheLedgers
  <2>5. /\ Reason(events', raw') = Reason(events, raw)
        /\ NextOrdinal(events', raw') = NextOrdinal(events, raw)
        /\ RawlessOpen(events', raw') <=> RawlessOpen(events, raw)
    BY <2>4, QuietKeeps
  <2>. QED
    BY <2>1, <2>4, <2>5 DEF Lifecycle, Quiet
<1>2. IInv /\ [Next]_vars => [Same]_vars
  BY <1>1
<1>. QED
  BY <1>2, Inductive, PTL DEF Spec, SettledIsForever

-----------------------------------------------------------------------------
(* Counting starts *)

(* Items before the last one asked for were started, those after it were not,  *)
(* and it was started as often as its attempt says.                            *)
StartsAreCounted ==
    IF RequestHistory(events)
    THEN /\ \A i \in Ordinals : i < Start(events).item => StartsOf(events, i) # {}
         /\ \A i \in Ordinals : i > Start(events).item => StartsOf(events, i) = {}
         /\ Cardinality(StartsOf(events, Start(events).item)) = Start(events).attempt
    ELSE \A i \in Ordinals : StartsOf(events, i) = {}

CInv == IInv /\ StartsAreCounted

LEMMA StartsAreFinite ==
    ASSUME TypeOK, NEW i
    PROVE  IsFiniteSet(StartsOf(events, i)) /\ Cardinality(StartsOf(events, i)) \in Nat
<1>1. Len(events) \in Nat
  BY DEF TypeOK
<1>2. IsFiniteSet(1 .. Len(events))
  BY <1>1, FS_Interval
<1>3. StartsOf(events, i) \subseteq 1 .. Len(events)
  BY DEF StartsOf
<1>. QED
  BY <1>2, <1>3, FS_Subset, FS_CardinalityType

(* An append of another row adds no start; one of a start adds one.            *)
LEMMA StartsOfAppend ==
    ASSUME TypeOK, NEW row \in Rows, events' = Append(events, row), NEW i
    PROVE  StartsOf(events', i) = IF row.kind = "request_started" /\ row.item = i
                          THEN StartsOf(events, i) \cup {Len(events) + 1} ELSE StartsOf(events, i)
<1>1. /\ events \in Seq(Rows) /\ Len(events) \in Nat /\ Len(events') = Len(events) + 1
      /\ events'[Len(events) + 1] = row
      /\ \A k \in 1 .. Len(events) : events'[k] = events[k]
  BY DEF TypeOK
<1>2. StartsOf(events', i) = { k \in 1 .. Len(events') : events'[k].kind = "request_started"
                                                        /\ events'[k].item = i }
  BY DEF StartsOf
<1>3. \A k : k \in 1 .. Len(events') <=> k \in 1 .. Len(events) \/ k = Len(events) + 1
  BY <1>1
<1>4. Len(events) + 1 \notin 1 .. Len(events)
  BY <1>1
<1>5. \A k : k \in StartsOf(events', i) <=>
          \/ k \in StartsOf(events, i)
          \/ k = Len(events) + 1 /\ row.kind = "request_started" /\ row.item = i
  BY <1>1, <1>2, <1>3, <1>4 DEF StartsOf
<1>6. CASE row.kind = "request_started" /\ row.item = i
  BY <1>5, <1>6
<1>7. CASE ~(row.kind = "request_started" /\ row.item = i)
  BY <1>5, <1>7
<1>. QED
  BY <1>6, <1>7

LEMMA QuietAddsNoStart ==
    ASSUME IInv, Quiet, NEW i
    PROVE  StartsOf(events', i) = StartsOf(events, i)
<1>1. CASE events' = events
  BY <1>1 DEF StartsOf
<1>2. CASE Grows
  BY <1>2, StartsOfAppend DEF Grows, Harmless, IInv
<1>. QED
  BY <1>1, <1>2 DEF Quiet

(* A start that is written asks for the next attempt: the starts so far are    *)
(* one fewer than the attempt, and the items before are resolved.              *)
LEMMA StartIsNext ==
    ASSUME CInv, NEW op \in Operations, StartRequest(op), events' # events
    PROVE  /\ mem.ordinal \in Ordinals /\ mem.attempt \in 1 .. MaxAttempts
           /\ UNCHANGED <<raw, calls>>
           /\ \E row \in Rows :
                 /\ row.kind = "request_started" /\ row.item = mem.ordinal
                 /\ row.attempt = mem.attempt
                 /\ events' = Append(events, row)
           /\ RequestHistory(events') /\ ~HasRaw(events', raw')
           /\ Start(events').item = mem.ordinal /\ Start(events').attempt = mem.attempt
           /\ Cardinality(StartsOf(events, mem.ordinal)) = mem.attempt - 1
           /\ \A i \in Ordinals : i < mem.ordinal => StartsOf(events, i) # {}
           /\ \A i \in Ordinals : i > mem.ordinal => StartsOf(events, i) = {}
           /\ \A i \in Ordinals : i < mem.ordinal => StatusOf(i) = "resolved"
           /\ StatusOf(mem.ordinal) = "pending"
<1>. DEFINE row == RequestStarted(op, mem.ordinal, mem.attempt, Len(raw))
            s == Start(events)
<1>1. /\ IInv /\ TypeOK /\ LedgerInv
      /\ mem.ordinal \in Ordinals /\ mem.attempt \in 1 .. MaxAttempts
      /\ PositionIsNext
  BY HolderMemory DEF CInv, IInv, StartRequest, MemoryInv
<1>2. /\ row \in Rows /\ row.kind = "request_started"
      /\ row.item = mem.ordinal /\ row.attempt = mem.attempt /\ row.call = Len(raw)
  BY <1>1, HolderMemory DEF RequestStarted, Event, Rows, TypeOK
<1>3. events' = Append(events, row) /\ UNCHANGED <<raw, calls>>
  BY DEF StartRequest, AppendEvent
<1>. HIDE DEF row
<1>4. RequestHistory(events') /\ Start(events') = row /\ ~HasRaw(events', raw')
  BY <1>1, <1>2, <1>3, StartAppended
<1>5. /\ Cardinality(StartsOf(events, mem.ordinal)) = mem.attempt - 1
      /\ \A i \in Ordinals : i < mem.ordinal => StartsOf(events, i) # {}
      /\ \A i \in Ordinals : i > mem.ordinal => StartsOf(events, i) = {}
      /\ \A i \in Ordinals : i < mem.ordinal => StatusOf(i) = "resolved"
      /\ StatusOf(mem.ordinal) = "pending"
  <2>1. CASE ~RequestHistory(events)
    <3>1. mem.ordinal = 0 /\ mem.attempt = 1
      BY <1>1, <2>1 DEF PositionIsNext, NextOrdinal, NextAttempt
    <3>2. \A i \in Ordinals : StartsOf(events, i) = {}
      BY <2>1 DEF CInv, StartsAreCounted
    <3>. QED
      BY <1>1, <2>1, <3>1, <3>2, FS_EmptySet, PlanIsNotEmpty DEF StatusOf, Ordinals
  <2>2. CASE RequestHistory(events)
    <3>1. HasRaw(events, raw) /\ Reason(events, raw) \in Resolved \cup {"none"}
      BY <1>1, <2>2 DEF LedgerInv, StartIsCurrent, PositionIsNext
    <3>2. s \in Rows /\ s.item \in Ordinals /\ s.attempt \in 1 .. MaxAttempts
      BY <1>1, <2>2, LastRow DEF Rows
    <3>3. /\ \A i \in Ordinals : i < s.item => StartsOf(events, i) # {}
          /\ \A i \in Ordinals : i > s.item => StartsOf(events, i) = {}
          /\ Cardinality(StartsOf(events, s.item)) = s.attempt
      BY <2>2 DEF CInv, StartsAreCounted
    <3>4. StartsOf(events, s.item) # {}
      <4>. SUFFICES ASSUME StartsOf(events, s.item) = {} PROVE FALSE
        OBVIOUS
      <4>1. s.attempt = 0
        BY <3>3, FS_EmptySet
      <4>. QED
        BY <3>2, <4>1
    <3>5. \A i \in Ordinals : i < s.item => StatusOf(i) = "resolved"
      BY <3>2, <3>3, PlanIsNotEmpty DEF StatusOf, Ordinals
    <3>6. CASE Reason(events, raw) = "none"
      <4>1. mem.ordinal = s.item /\ mem.attempt = s.attempt + 1
        BY <1>1, <2>2, <3>6 DEF PositionIsNext, NextOrdinal, NextAttempt, Resolved
      <4>2. StatusOf(mem.ordinal) = "pending"
        BY <2>2, <3>6, <4>1 DEF StatusOf, Resolved
      <4>. QED
        BY <3>2, <3>3, <3>5, <4>1, <4>2, RetriesAreNatural DEF MaxAttempts
    <3>7. CASE Reason(events, raw) \in Resolved
      <4>1. mem.ordinal = s.item + 1 /\ mem.attempt = 1
        BY <1>1, <2>2, <3>7 DEF PositionIsNext, NextOrdinal, NextAttempt
      <4>2. s.item < mem.ordinal /\ mem.ordinal > s.item /\ s.item # mem.ordinal
        BY <3>2, <4>1, PlanIsNotEmpty DEF Ordinals
      <4>3. StartsOf(events, mem.ordinal) = {}
        BY <1>1, <3>3, <4>2
      <4>4. StatusOf(mem.ordinal) = "pending" /\ Cardinality(StartsOf(events, mem.ordinal)) = 0
        BY <4>2, <4>3, FS_EmptySet DEF StatusOf
      <4>5. StatusOf(s.item) = "resolved"
        BY <2>2, <3>7 DEF StatusOf, Resolved
      <4>6. \A i \in Ordinals : i < mem.ordinal => i < s.item \/ i = s.item
        BY <3>2, <4>1, PlanIsNotEmpty DEF Ordinals
      <4>7. \A i \in Ordinals : i > mem.ordinal => i > s.item
        BY <3>2, <4>1, PlanIsNotEmpty DEF Ordinals
      <4>. QED
        BY <3>3, <3>4, <3>5, <4>1, <4>4, <4>5, <4>6, <4>7
    <3>. QED
      BY <3>1, <3>6, <3>7
  <2>. QED
    BY <2>1, <2>2
<1>. QED
  BY <1>1, <1>2, <1>3, <1>4, <1>5

LEMMA CountsAreKept ==
    ASSUME CInv, [Next]_vars, IInv'
    PROVE  StartsAreCounted'
<1>1. IInv /\ TypeOK
  BY DEF CInv, IInv
<1>2. ASSUME NEW op \in Operations, StartRequest(op), events' # events
      PROVE  StartsAreCounted'
  <2>1. /\ mem.ordinal \in Ordinals /\ mem.attempt \in 1 .. MaxAttempts
        /\ RequestHistory(events')
        /\ Start(events').item = mem.ordinal /\ Start(events').attempt = mem.attempt
        /\ Cardinality(StartsOf(events, mem.ordinal)) = mem.attempt - 1
        /\ \A i \in Ordinals : i < mem.ordinal => StartsOf(events, i) # {}
        /\ \A i \in Ordinals : i > mem.ordinal => StartsOf(events, i) = {}
    BY <1>2, StartIsNext
  <2>2. \A i : StartsOf(events', i) = IF mem.ordinal = i THEN StartsOf(events, i) \cup {Len(events) + 1}
                              ELSE StartsOf(events, i)
    BY <1>1, <1>2, StartIsNext, StartsOfAppend
  <2>3. Cardinality(StartsOf(events', mem.ordinal)) = mem.attempt
    <3>1. Len(events) + 1 \notin StartsOf(events, mem.ordinal)
      BY <1>1 DEF StartsOf, TypeOK
    <3>2. Cardinality(StartsOf(events, mem.ordinal) \cup {Len(events) + 1})
             = Cardinality(StartsOf(events, mem.ordinal)) + 1
      BY <1>1, <3>1, StartsAreFinite, FS_AddElement
    <3>3. StartsOf(events', mem.ordinal) = StartsOf(events, mem.ordinal) \cup {Len(events) + 1}
      BY <2>2
    <3>. QED
      BY <2>1, <3>2, <3>3, RetriesAreNatural DEF MaxAttempts
  <2>4. \A i \in Ordinals : i < mem.ordinal => StartsOf(events', i) # {}
    BY <2>1, <2>2
  <2>5. \A i \in Ordinals : i > mem.ordinal => i # mem.ordinal
    BY <2>1, PlanIsNotEmpty DEF Ordinals
  <2>6. \A i \in Ordinals : i > mem.ordinal => StartsOf(events', i) = {}
    BY <2>1, <2>2, <2>5
  <2>. QED
    BY <2>1, <2>3, <2>4, <2>6 DEF StartsAreCounted
<1>3. CASE events' = events
  BY <1>3 DEF CInv, StartsAreCounted, StartsOf
<1>4. CASE Quiet
  <2>1. /\ RequestHistory(events') <=> RequestHistory(events)
        /\ RequestHistory(events) => Start(events') = Start(events)
    BY <1>1, <1>4, QuietKeeps
  <2>2. \A i : StartsOf(events', i) = StartsOf(events, i)
    BY <1>1, <1>4, QuietAddsNoStart
  <2>. QED
    BY <2>1, <2>2 DEF CInv, StartsAreCounted
<1>5. ASSUME NEW op \in Operations,
             CallProvider(op) \/ ProviderReturns(op) \/ RecordAttempt(op)
      PROVE  events' = events
  BY <1>5 DEF CallProvider, ProviderReturns, RecordAttempt, AppendRaw, ledgers
<1>. QED
  BY <1>1, <1>2, <1>3, <1>4, <1>5, StepsOfTheLedgers

-----------------------------------------------------------------------------
(* The mapped steps *)

Status == [i \in Ordinals |-> StatusOf(i)]
Asks == [i \in Ordinals |-> Cardinality(StartsOf(events, i))]

(* Writing a start asks for an item.                                           *)
LEMMA StartAsks ==
    ASSUME CInv, NEW op \in Operations, StartRequest(op), events' # events
    PROVE  \E i \in Ordinals : Contract!Ask(i)
<1>. PICK i : i = mem.ordinal
  OBVIOUS
<1>1. /\ i \in Ordinals /\ mem.attempt \in 1 .. MaxAttempts
      /\ RequestHistory(events') /\ ~HasRaw(events', raw') /\ Start(events').item = i
      /\ Cardinality(StartsOf(events, i)) = mem.attempt - 1
      /\ \A j \in Ordinals : j < i => StatusOf(j) = "resolved"
      /\ StatusOf(i) = "pending"
      /\ \A j \in Ordinals : j < i => StartsOf(events, j) # {}
      /\ \A j \in Ordinals : j > i => StartsOf(events, j) = {}
  BY StartIsNext
<1>2. PICK row \in Rows : /\ row.kind = "request_started" /\ row.item = i
                          /\ events' = Append(events, row)
  BY StartIsNext
<1>3. \A j : StartsOf(events', j) = IF i = j THEN StartsOf(events, j) \cup {Len(events) + 1} ELSE StartsOf(events, j)
  BY <1>2, StartsOfAppend DEF CInv, IInv
<1>4. Cardinality(StartsOf(events', i)) = Cardinality(StartsOf(events, i)) + 1
  <2>1. Len(events) + 1 \notin StartsOf(events, i)
    BY DEF StartsOf, CInv, IInv, TypeOK
  <2>. QED
    BY <1>3, <2>1, StartsAreFinite, FS_AddElement DEF CInv, IInv
<1>5. Asks' = [Asks EXCEPT ![i] = @ + 1]
  BY <1>1, <1>3, <1>4 DEF Asks
<1>6. Status' = [Status EXCEPT ![i] = "asked"]
  <2>1. StatusOf(i)' = "asked"
    BY <1>1 DEF StatusOf, Reason, Resolved
  <2>2. ASSUME NEW j \in Ordinals, j # i PROVE StatusOf(j)' = StatusOf(j)
    <3>1. StatusOf(j)' = IF StartsOf(events, j) = {} THEN "pending" ELSE "resolved"
      BY <1>1, <1>3, <2>2 DEF StatusOf
    <3>2. CASE j < i
      BY <1>1, <3>1, <3>2
    <3>3. CASE j > i
      <4>1. StartsOf(events, j) = {}
        BY <1>1, <3>3
      <4>2. ~(RequestHistory(events) /\ Start(events).item = j)
        <5>. SUFFICES ASSUME RequestHistory(events), Start(events).item = j PROVE FALSE
          OBVIOUS
        <5>1. Start(events).attempt \in 1 .. MaxAttempts
          BY LastRow DEF CInv, IInv
        <5>2. Start(events).attempt = 0
          BY <4>1, FS_EmptySet DEF CInv, StartsAreCounted
        <5>. QED
          BY <5>1, <5>2
      <4>. QED
        BY <3>1, <4>1, <4>2 DEF StatusOf
    <3>. QED
      BY <1>1, <2>2, <3>2, <3>3, PlanIsNotEmpty DEF Ordinals
  <2>. QED
    BY <1>1, <2>1, <2>2 DEF Status
<1>7. Completed(events') = Completed(events)
  BY <1>2, LastOfAppend DEF CInv, IInv, TypeOK, LedgerInv, LastsExist, Completed, Completions
<1>8. Asks[i] <= MaxTransientRetries /\ Status[i] = "pending"
      /\ \A j \in Ordinals : j < i => Status[j] = "resolved"
  BY <1>1, RetriesAreNatural DEF Asks, Status, MaxAttempts
<1>9. Contract!Ordinals = Ordinals
  BY DEF Contract!Ordinals, Ordinals
<1>10. Contract!Ask(i)
  BY <1>5, <1>6, <1>7, <1>8, <1>9 DEF Contract!Ask, Status, Asks
<1>. QED
  BY <1>1, <1>10

(* Committing a raw row answers for the item that was asked for.               *)
LEMMA RowAnswers ==
    ASSUME CInv, NEW op \in Operations, RecordAttempt(op), raw' # raw
    PROVE  \E i \in Ordinals : Contract!Answer(i)
<1>. DEFINE s == Start(events)
<1>1. /\ pc[op] = "answered" /\ events' = events /\ calls' = calls
      /\ raw' = Append(raw, RawRow(s, mem.reason))
  BY DEF RecordAttempt, AppendRaw
<1>2. /\ IInv /\ StartIsMine /\ ~HasRaw(events, raw) /\ RequestHistory(events)
      /\ Len(calls) = Len(raw) + 1 /\ AnswerIsKept /\ mem.reason \in Reasons
      /\ mem.reason = "none" => mem.attempt <= MaxTransientRetries
  BY <1>1, HolderMemory DEF CInv, MemoryInv, StartIsMine, AnswerIsKept
<1>3. HasRaw(events', raw') /\ Reason(events', raw') = mem.reason
  BY <1>1, <1>2, RowRecorded DEF IInv
<1>4. PICK i : i = s.item
  OBVIOUS
<1>5. /\ i \in Ordinals /\ s.attempt = mem.attempt
      /\ Cardinality(StartsOf(events, i)) = s.attempt
  <2>1. s \in Rows
    BY <1>2, LastRow DEF IInv
  <2>2. Cardinality(StartsOf(events, s.item)) = s.attempt
    BY <1>2 DEF CInv, StartsAreCounted
  <2>. QED
    BY <1>2, <1>4, <2>1, <2>2 DEF Rows, StartIsMine
<1>6. Status[i] = "asked"
  <2>1. Reason(events, raw) = "missing"
    BY <1>2 DEF Reason
  <2>. QED
    BY <1>2, <1>4, <1>5, <2>1 DEF Status, StatusOf, Resolved
<1>7. \A j \in Ordinals : j # i => StatusOf(j)' = StatusOf(j)
  BY <1>1, <1>4 DEF StatusOf
<1>8. PICK new : new = StatusOf(i)'
  OBVIOUS
<1>9. /\ new \in {"pending", "resolved", "uncertain", "unauthorized"}
      /\ new = "pending" => mem.reason = "none"
  <2>1. /\ RequestHistory(events') /\ Start(events').item = i
        /\ Reason(events', raw') = mem.reason
    BY <1>1, <1>2, <1>3, <1>4
  <2>2. new = CASE mem.reason = "missing" -> "asked"
                [] mem.reason = "none"    -> "pending"
                [] mem.reason \in Resolved -> "resolved"
                [] mem.reason = "ambiguous_delivery" -> "uncertain"
                [] OTHER                  -> "unauthorized"
    BY <1>8, <2>1 DEF StatusOf
  <2>. QED
    BY <1>2, <2>2 DEF Reasons, Resolved
<1>10. Status' = [Status EXCEPT ![i] = new]
  BY <1>5, <1>7, <1>8 DEF Status
<1>11. UNCHANGED <<Asks, Completed(events)>>
  BY <1>1 DEF Asks
<1>12. new = "pending" => Asks[i] <= MaxTransientRetries
  BY <1>2, <1>5, <1>9 DEF Asks
<1>13. new \in Contract!Statuses \ {"asked"}
  BY <1>9 DEF Contract!Statuses
<1>14. Contract!Answer(i)
  BY <1>6, <1>10, <1>11, <1>12, <1>13 DEF Contract!Answer, Status, Asks
<1>. QED
  BY <1>5, <1>14

(* A harmless row closes the run or leaves the contract alone.                 *)
LEMMA QuietCloses ==
    ASSUME CInv, Quiet
    PROVE  Contract!Close \/ UNCHANGED Contract!cvars
<1>1. IInv /\ TypeOK /\ LedgerInv
  BY DEF CInv, IInv
<1>2. \A i : StatusOf(i)' = StatusOf(i)
  <2>1. \A i : StartsOf(events', i) = StartsOf(events, i)
    BY <1>1, QuietAddsNoStart
  <2>. QED
    BY <1>1, <2>1, QuietKeeps DEF StatusOf
<1>3. UNCHANGED <<Status, Asks>>
  BY <1>1, <1>2, QuietAddsNoStart DEF Status, Asks
<1>4. CASE Completed(events') = Completed(events)
  BY <1>3, <1>4 DEF Contract!cvars, Status, Asks
<1>5. CASE Completed(events') # Completed(events)
  <2>1. PICK row \in Rows : Harmless(row) /\ events' = Append(events, row)
    BY <1>5 DEF Quiet, Grows
  <2>2. HasLast(events, Completions) /\ events \in Seq(Rows) /\ Len(events) \in Nat
    BY <1>1 DEF TypeOK, LedgerInv, LastsExist
  <2>3. row.kind = "generation_completed"
    <3>1. row.kind \notin Completions => Last(events', Completions) = Last(events, Completions)
      BY <2>1, <2>2, LastOfAppend
    <3>. QED
      BY <1>5, <3>1 DEF Completed, Completions
  <2>4. Completed(events')
    <3>1. Last(events', Completions) = Len(events) + 1
      BY <2>1, <2>2, <2>3, LastOfAppend DEF Completions
    <3>. QED
      BY <2>2, <3>1 DEF Completed, Completions
  <2>5. NextOrdinal(events, raw) = PlanLength
    BY <2>1, <2>3 DEF Harmless
  <2>6. /\ RequestHistory(events) /\ Reason(events, raw) \in Resolved
        /\ Start(events).item = PlanLength - 1
    <3>1. RequestHistory(events)
      BY <2>5, PlanIsNotEmpty DEF NextOrdinal
    <3>2. Start(events).item \in Ordinals
      BY <1>1, <3>1, LastRow DEF Rows
    <3>. QED
      BY <2>5, <3>1, <3>2, PlanIsNotEmpty DEF NextOrdinal, Ordinals
  <2>7. ASSUME NEW i \in Ordinals PROVE StatusOf(i) = "resolved"
    <3>1. CASE i = PlanLength - 1
      BY <2>6, <3>1 DEF StatusOf, Resolved
    <3>2. CASE i # PlanLength - 1
      <4>1. i < PlanLength - 1
        BY <3>2, PlanIsNotEmpty DEF Ordinals
      <4>2. StartsOf(events, i) # {}
        BY <2>6, <4>1 DEF CInv, StartsAreCounted
      <4>. QED
        BY <2>6, <3>2, <4>2 DEF StatusOf
    <3>. QED
      BY <3>1, <3>2
  <2>8. Contract!Ordinals = Ordinals
    BY DEF Contract!Ordinals, Ordinals
  <2>9. Completed(events') = TRUE
    BY <2>4 DEF Completed
  <2>. QED
    BY <1>3, <2>7, <2>8, <2>9 DEF Contract!Close, Status, Asks
<1>. QED
  BY <1>4, <1>5

LEMMA StepImplements ==
    ASSUME CInv, [Next]_vars
    PROVE  [Contract!Next]_(Contract!cvars)
<1>1. Contract!Ordinals = Ordinals
  BY DEF Contract!Ordinals, Ordinals
<1>2. CASE Quiet
  BY <1>2, QuietCloses DEF Contract!Next
<1>3. CASE events' = events /\ raw' = raw
  BY <1>3 DEF Contract!cvars, StatusOf
<1>4. ASSUME NEW op \in Operations, StartRequest(op)
      PROVE  [Contract!Next]_(Contract!cvars)
  <2>1. raw' = raw
    BY <1>4 DEF StartRequest, AppendEvent
  <2>2. CASE events' # events
    BY <1>1, <1>4, <2>2, StartAsks DEF Contract!Next
  <2>. QED
    BY <1>3, <2>1, <2>2
<1>5. ASSUME NEW op \in Operations, RecordAttempt(op)
      PROVE  [Contract!Next]_(Contract!cvars)
  <2>1. events' = events
    BY <1>5 DEF RecordAttempt, AppendRaw
  <2>2. CASE raw' # raw
    BY <1>1, <1>5, <2>2, RowAnswers DEF Contract!Next
  <2>. QED
    BY <1>3, <2>1, <2>2
<1>6. ASSUME NEW op \in Operations, CallProvider(op) \/ ProviderReturns(op)
      PROVE  events' = events /\ raw' = raw
  BY <1>6 DEF CallProvider, ProviderReturns, ledgers
<1>. QED
  BY <1>2, <1>3, <1>4, <1>5, <1>6, StepsOfTheLedgers DEF CInv

LEMMA InitImplements ==
    ASSUME Init
    PROVE  StartsAreCounted /\ Contract!Init
<1>1. /\ events = <<Prepared>> /\ Len(events) = 1 /\ events[1].kind = "prepared"
  BY DEF Init, Prepared, Event
<1>2. \A K : "prepared" \notin K => IsLast(events, K, 0)
  BY <1>1 DEF IsLast
<1>3. events \in Seq(Rows)
  BY InitInv DEF IInv, TypeOK
<1>4. ~RequestHistory(events) /\ ~Completed(events)
  BY <1>2, <1>3, LastIsIt DEF RequestHistory, LastStart, Completed
<1>5. \A i : StartsOf(events, i) = {}
  BY <1>1 DEF StartsOf
<1>6. \A i : StatusOf(i) = "pending" /\ Cardinality(StartsOf(events, i)) = 0
  BY <1>4, <1>5, FS_EmptySet DEF StatusOf
<1>7. Completed(events) = FALSE
  BY <1>4 DEF Completed
<1>. QED
  BY <1>4, <1>5, <1>6, <1>7
     DEF StartsAreCounted, Contract!Init, Contract!Ordinals, Ordinals

(* Every behaviour of the journal, its operations, crashes and repairs         *)
(* included, is one that the contract allows.                                  *)
THEOREM Implements == Spec => ImplementsContract
<1>1. Init => CInv /\ Contract!Init
  BY InitInv, InitImplements DEF CInv
<1>2. CInv /\ [Next]_vars => CInv'
  BY NextInv, CountsAreKept DEF CInv
<1>3. CInv /\ [Next]_vars => [Contract!Next]_(Contract!cvars)
  BY StepImplements
<1>. QED
  BY <1>1, <1>2, <1>3, PTL DEF Spec, ImplementsContract, Contract!Spec

-----------------------------------------------------------------------------
(* The journal under it *)

LEMMA CapacityStepIsAStep == [CNext]_cvars => [Next]_vars
<1>1. ASSUME NEW op \in Operations, CStep(op) PROVE Next
  BY <1>1 DEF CStep, AppendAttempt, Release, Next, Step, Advance, Recover, Execute
<1>. QED
  BY <1>1 DEF CNext, cvars

(* The limit forbids steps and adds none (CSpec of the sizes, Spec of rows).   *)
THEOREM CapacityRefines == CSpec => Spec
<1>1. CInit => Init
  BY DEF CInit
<1>. QED
  BY <1>1, CapacityStepIsAStep, PTL DEF CSpec, Spec

-----------------------------------------------------------------------------
(* Sizes *)

Budgeted == {"epoch", "item", "started", "calling", "answered", "recorded", "finished",
             "completing"}

SizesInv ==
    /\ eventSize \in 1 .. EventReserve
    /\ base \in Int /\ rawBytes \in Nat /\ reserved \in Int

CapacityInv == SizesInv /\ EpochCanEnd

LEMMA BytesTyped ==
    ASSUME TypeOK, SizesInv
    PROVE  Len(events) \in Nat /\ eventSize * Len(events) \in Nat /\ Bytes \in Int
<1>1. Len(events) \in Nat /\ eventSize \in Nat
  BY SizesArePositive DEF TypeOK, SizesInv
<1>. QED
  BY <1>1 DEF Bytes, SizesInv

LEMMA OneRowMore ==
    ASSUME TypeOK, SizesInv, NEW row, events' = Append(events, row),
           UNCHANGED <<eventSize, base, rawBytes>>
    PROVE  Bytes' = Bytes + eventSize
<1>1. events \in Seq(Rows \cup {row})
  BY DEF TypeOK
<1>2. Len(events') = Len(events) + 1
  BY <1>1
<1>3. PICK n \in Nat, e \in Nat : n = Len(events) /\ e = eventSize
  BY SizesArePositive DEF TypeOK, SizesInv
<1>4. e * (n + 1) = e * n + e
  OBVIOUS
<1>. QED
  BY <1>2, <1>3, <1>4 DEF Bytes, SizesInv

LEMMA SameBytes ==
    ASSUME UNCHANGED <<events, eventSize, base, rawBytes>>
    PROVE  Bytes' = Bytes
BY DEF Bytes

(* Only the holder of the lock has a budget.                                   *)
LEMMA HolderBudget ==
    ASSUME TypeOK, SingleMutator, NEW op \in Operations, pc[op] \in Running,
           NEW place, pc' = [pc EXCEPT ![op] = place],
           place \in Budgeted => reserved' >= Owed(place) /\ Bytes' + reserved' <= Limit
    PROVE  EpochCanEnd'
<1>. SUFFICES ASSUME NEW q \in Operations, pc'[q] \in Budgeted
              PROVE  reserved' >= Owed(pc'[q]) /\ Bytes' + reserved' <= Limit
  BY DEF EpochCanEnd, Budgeted, Owed
<1>1. q = op
  BY DEF TypeOK, SingleMutator, Running, Budgeted
<1>. QED
  BY <1>1 DEF TypeOK

(* A step that leaves rows and budget alone.                                   *)
LEMMA IdleStep ==
    ASSUME TypeOK, SingleMutator, CapacityInv, NEW op \in Operations, NEW place,
           pc' = [pc EXCEPT ![op] = place],
           place \in Budgeted => pc[op] \in Budgeted /\ Owed(place) = Owed(pc[op]),
           UNCHANGED <<events, eventSize, base, rawBytes, reserved>>
    PROVE  CapacityInv'
<1>1. Bytes' = Bytes
  BY SameBytes
<1>2. ASSUME NEW q \in Operations, pc'[q] \in Budgeted
      PROVE  reserved' >= Owed(pc'[q]) /\ Bytes' + reserved' <= Limit
  <2>1. CASE q = op
    <3>1. pc'[q] = place /\ pc[op] \in Budgeted
      BY <1>2, <2>1 DEF TypeOK
    <3>2. reserved >= Owed(pc[op]) /\ Bytes + reserved <= Limit
      BY <3>1 DEF CapacityInv, EpochCanEnd, Budgeted
    <3>. QED
      BY <1>1, <1>2, <3>1, <3>2 DEF CapacityInv, SizesInv
  <2>2. CASE q # op
    <3>1. pc'[q] = pc[q]
      BY <2>2 DEF TypeOK
    <3>2. reserved >= Owed(pc[q]) /\ Bytes + reserved <= Limit
      BY <1>2, <3>1 DEF CapacityInv, EpochCanEnd, Budgeted
    <3>. QED
      BY <1>1, <3>1, <3>2
  <2>. QED
    BY <2>1, <2>2
<1>3. EpochCanEnd'
  BY <1>2 DEF EpochCanEnd, Budgeted, Owed
<1>. QED
  BY <1>3 DEF CapacityInv, SizesInv

LEMMA OwedTyped == \A place : Owed(place) \in Nat
BY SizesArePositive DEF Owed

(* What leaves the operation, or writes nothing more for it, owes nothing.     *)
LEMMA ReturningStep ==
    ASSUME TypeOK, SingleMutator, CapacityInv, NEW op \in Operations, pc[op] \in Running,
           NEW place \in Returned, pc' = [pc EXCEPT ![op] = place],
           reserved' \in Int, UNCHANGED <<eventSize, base, rawBytes>>
    PROVE  CapacityInv'
<1>1. place \notin Budgeted
  BY DEF Returned, Budgeted
<1>2. EpochCanEnd'
  BY <1>1, HolderBudget
<1>. QED
  BY <1>2 DEF CapacityInv, SizesInv

(* One framed append of an event row that its budget covers.                   *)
Writes(op, place, budget) ==
    /\ pc[op] \in Running
    /\ \/ (\E row : events' = Append(events, row)) /\ pc' = [pc EXCEPT ![op] = place]
       \/ pc' = [pc EXCEPT ![op] = "failed"]
    /\ reserved' = IF pc'[op] \in Returned THEN 0 ELSE budget - eventSize
    /\ UNCHANGED <<eventSize, base, rawBytes>>
    /\ budget \in Int /\ budget - eventSize >= Owed(place) /\ Bytes + budget <= Limit

LEMMA WritingStep ==
    ASSUME TypeOK, SingleMutator, CapacityInv, NEW op \in Operations,
           NEW place \in Budgeted, NEW budget \in Int, Writes(op, place, budget)
    PROVE  CapacityInv'
<1>0. /\ pc[op] \in Running /\ budget \in Int
      /\ budget - eventSize >= Owed(place) /\ Bytes + budget <= Limit
      /\ UNCHANGED <<eventSize, base, rawBytes>>
      /\ reserved' = IF pc'[op] \in Returned THEN 0 ELSE budget - eventSize
  BY DEF Writes
<1>1. eventSize \in Int /\ reserved' \in Int
  BY <1>0, SizesArePositive DEF CapacityInv, SizesInv
<1>2. CASE (\E row : events' = Append(events, row)) /\ pc' = [pc EXCEPT ![op] = place]
  <2>1. pc'[op] = place /\ place \notin Returned
    BY <1>2 DEF TypeOK, Budgeted, Returned
  <2>2. reserved' = budget - eventSize
    BY <1>0, <2>1
  <2>3. Bytes' = Bytes + eventSize /\ Bytes \in Int
    BY <1>0, <1>2, OneRowMore, BytesTyped DEF CapacityInv
  <2>4. reserved' >= Owed(place) /\ Bytes' + reserved' <= Limit
    <3>1. Bytes' + reserved' = Bytes + budget
      BY <1>0, <1>1, <2>2, <2>3
    <3>. QED
      BY <1>0, <2>2, <3>1
  <2>5. EpochCanEnd'
    BY <1>0, <1>2, <2>4, HolderBudget
  <2>. QED
    BY <1>0, <1>1, <2>5 DEF CapacityInv, SizesInv
<1>3. CASE pc' = [pc EXCEPT ![op] = "failed"]
  BY <1>0, <1>1, <1>3, ReturningStep DEF Returned
<1>. QED
  BY <1>2, <1>3 DEF Writes

-----------------------------------------------------------------------------
(* Steps *)

LEMMA BudgetOf ==
    ASSUME CapacityInv, NEW op \in Operations, pc[op] \in Budgeted
    PROVE  reserved >= Owed(pc[op]) /\ Bytes + reserved <= Limit
BY DEF CapacityInv, EpochCanEnd, Budgeted

LEMMA EpochBudget ==
    ASSUME TypeOK, SingleMutator, CapacityInv, NEW op \in Operations, StartExecution(op),
           Bytes + EpochNeed <= Limit, Consume(op, EpochNeed, eventSize),
           UNCHANGED <<eventSize, base, rawBytes>>
    PROVE  CapacityInv'
<1>2. /\ pc[op] \in Running
      /\ \/ /\ \E row : events' = Append(events, row)
            /\ pc' = [pc EXCEPT ![op] = "epoch"]
         \/ pc' = [pc EXCEPT ![op] = "failed"]
  BY DEF StartExecution, AppendEvent, Continue, Return, Goto, Running
<1>3. EpochNeed \in Int /\ EpochNeed - eventSize >= Owed("epoch")
  BY SizesArePositive DEF CapacityInv, SizesInv, EpochNeed, AttemptNeed, Owed
<1>4. "epoch" \in Budgeted /\ Writes(op, "epoch", EpochNeed)
  BY <1>2, <1>3 DEF Writes, Consume, Budgeted
<1>. QED
  BY <1>3, <1>4, WritingStep

LEMMA AttemptBudget ==
    ASSUME TypeOK, SingleMutator, CapacityInv, NEW op \in Operations, StartRequest(op),
           Bytes + Larger(reserved, AttemptNeed) <= Limit,
           Consume(op, Larger(reserved, AttemptNeed), eventSize),
           UNCHANGED <<eventSize, base, rawBytes>>
    PROVE  CapacityInv'
<1>2. /\ pc[op] \in Running
      /\ \/ /\ \E row : events' = Append(events, row)
            /\ pc' = [pc EXCEPT ![op] = "started"]
         \/ pc' = [pc EXCEPT ![op] = "failed"]
  BY DEF StartRequest, AppendEvent, Continue, Return, Goto, Running
<1>3. PICK budget \in Int : budget = Larger(reserved, AttemptNeed)
  BY SizesArePositive DEF CapacityInv, SizesInv, Larger, AttemptNeed
<1>4. budget >= AttemptNeed
  BY <1>3, SizesArePositive DEF CapacityInv, SizesInv, Larger, AttemptNeed
<1>5. budget - eventSize >= Owed("started")
  BY <1>4, SizesArePositive DEF CapacityInv, SizesInv, AttemptNeed, Owed
<1>6. "started" \in Budgeted /\ Writes(op, "started", budget)
  BY <1>2, <1>3, <1>5 DEF Writes, Consume, Budgeted
<1>. QED
  BY <1>6, WritingStep

LEMMA RawRowBudget ==
    ASSUME TypeOK, SingleMutator, CapacityInv, NEW op \in Operations, AppendAttempt(op),
           UNCHANGED eventSize
    PROVE  CapacityInv'
<1>1. PICK size \in RawSizes :
         /\ rawBytes' = IF raw' = raw THEN rawBytes ELSE rawBytes + size
         /\ Consume(op, reserved, size)
  BY DEF AppendAttempt
<1>2. /\ pc[op] = "answered" /\ UNCHANGED <<events, eventSize, base>>
      /\ pc' = [pc EXCEPT ![op] = "recorded"] \/ pc' = [pc EXCEPT ![op] = "failed"]
  BY DEF AppendAttempt, RecordAttempt, AppendRaw, Continue, Return, Goto
<1>3. size \in 1 .. RawReserve
  BY RowsAreLegal
<1>4. rawBytes' \in Nat /\ rawBytes' <= rawBytes + size /\ reserved' \in Int
  BY <1>1, <1>3, SizesArePositive DEF CapacityInv, SizesInv, Consume
<1>5. Bytes \in Int /\ Bytes' \in Int /\ Bytes' <= Bytes + size
  <2>1. Bytes \in Int /\ eventSize * Len(events) \in Nat
    BY BytesTyped DEF CapacityInv
  <2>2. PICK m \in Nat : m = eventSize * Len(events)
    BY <2>1
  <2>3. Bytes' = base + m + rawBytes' /\ Bytes = base + m + rawBytes
    BY <1>2, <2>2 DEF Bytes
  <2>4. base' = base /\ base \in Int /\ rawBytes \in Int /\ rawBytes' \in Int /\ size \in Int
    BY <1>2, <1>3, <1>4 DEF CapacityInv, SizesInv
  <2>5. PICK r \in Int : r = base + m
    BY <2>4
  <2>6. Bytes' = r + rawBytes' /\ Bytes = r + rawBytes
    BY <2>3, <2>5
  <2>7. \A i, j, k, n \in Int : j <= k + n => i + j <= (i + k) + n
    OBVIOUS
  <2>8. r \in Int /\ rawBytes' <= rawBytes + size
    BY <1>4, <2>5
  <2>9. r + rawBytes' <= (r + rawBytes) + size
    BY <2>4, <2>7, <2>8
  <2>10. r + rawBytes \in Int /\ r + rawBytes' \in Int
    BY <2>4, <2>8
  <2>. QED
    BY <2>6, <2>9, <2>10
<1>6. pc[op] \in Running /\ pc[op] \in Budgeted
  BY <1>2 DEF Running, Budgeted
<1>7. EpochCanEnd'
  <2>1. CASE pc' = [pc EXCEPT ![op] = "recorded"]
    <3>1. reserved' = reserved - size
      BY <1>1, <2>1 DEF Consume, TypeOK, Returned
    <3>2. reserved >= Owed("answered") /\ Bytes + reserved <= Limit
      BY <1>2, <1>6, BudgetOf
    <3>3. Owed("answered") = 3 * EventReserve + RawReserve /\ Owed("recorded") = 3 * EventReserve
      BY DEF Owed
    <3>4. reserved' >= Owed("recorded")
      BY <1>3, <3>1, <3>2, <3>3, SizesArePositive DEF CapacityInv, SizesInv
    <3>5. Bytes' + reserved' <= Limit
      BY <1>3, <1>5, <3>1, <3>2, SizesArePositive DEF CapacityInv, SizesInv
    <3>. QED
      BY <1>6, <2>1, <3>4, <3>5, HolderBudget
  <2>2. CASE pc' = [pc EXCEPT ![op] = "failed"]
    BY <1>6, <2>2, HolderBudget DEF Budgeted
  <2>. QED
    BY <1>2, <2>1, <2>2
<1>. QED
  BY <1>2, <1>4, <1>7 DEF CapacityInv, SizesInv

LEMMA FinishBudget ==
    ASSUME TypeOK, SingleMutator, CapacityInv, NEW op \in Operations, FinishRequest(op),
           Consume(op, reserved, eventSize), UNCHANGED <<eventSize, base, rawBytes>>
    PROVE  CapacityInv'
<1>2. /\ pc[op] = "recorded"
      /\ \/ /\ \E row : events' = Append(events, row)
            /\ pc' = [pc EXCEPT ![op] = "finished"]
         \/ pc' = [pc EXCEPT ![op] = "failed"]
  BY DEF FinishRequest, AppendEvent, Continue, Return, Goto
<1>3. reserved >= Owed("recorded") /\ Bytes + reserved <= Limit
  BY <1>2, BudgetOf DEF Budgeted
<1>4. reserved \in Int /\ reserved - eventSize >= Owed("finished")
  BY <1>3, SizesArePositive DEF CapacityInv, SizesInv, Owed
<1>5. pc[op] \in Running /\ "finished" \in Budgeted
  BY <1>2 DEF Running, Budgeted
<1>6. Writes(op, "finished", reserved)
  BY <1>2, <1>3, <1>4, <1>5 DEF Writes, Consume
<1>. QED
  BY <1>4, <1>5, <1>6, WritingStep

LEMMA EndingStep ==
    ASSUME TypeOK, SingleMutator, CapacityInv, NEW op \in Operations,
           MarkStop(op) \/ CompleteGeneration(op) \/ Stop(op) \/ Fail(op),
           Consume(op, reserved, eventSize), UNCHANGED <<eventSize, base, rawBytes>>
    PROVE  CapacityInv'
<1>1. pc[op] \in Running
      /\ \E place \in {"failed", "operational_stop", "complete"} : pc' = [pc EXCEPT ![op] = place]
  BY DEF MarkStop, CompleteGeneration, Stop, Interrupt, Block, LeaveAmbiguous, Fail, AppendEvent,
         Return, Goto, Running
<1>2. reserved' \in Int
  BY SizesArePositive DEF CapacityInv, SizesInv, Consume
<1>. QED
  BY <1>1, <1>2, ReturningStep DEF Returned

LEMMA ReleaseStep ==
    ASSUME TypeOK, SingleMutator, CapacityInv, NEW op \in Operations, Release(op),
           UNCHANGED eventSize
    PROVE  CapacityInv'
<1>1. /\ pc[op] = "finished" /\ UNCHANGED <<events, base, rawBytes>>
      /\ \E place \in {"completing", "item"} : pc' = [pc EXCEPT ![op] = place]
      /\ reserved' = IF pc'[op] = "item" THEN Smaller(reserved, 2 * EventReserve) ELSE reserved
  BY DEF Release, NextItem, Continue, Goto, ledgers
<1>2. reserved >= 2 * EventReserve /\ Bytes + reserved <= Limit
  BY <1>1, BudgetOf DEF Budgeted, Owed
<1>3. reserved' \in Int /\ reserved' >= 2 * EventReserve /\ reserved' <= reserved
  BY <1>1, <1>2, SizesArePositive DEF CapacityInv, SizesInv, Smaller
<1>4. Bytes' = Bytes /\ Bytes \in Int
  BY <1>1, SameBytes, BytesTyped DEF CapacityInv
<1>5. Bytes' + reserved' <= Limit
  BY <1>2, <1>3, <1>4, SizesArePositive DEF CapacityInv, SizesInv
<1>6. PICK place \in {"completing", "item"} : pc' = [pc EXCEPT ![op] = place]
  BY <1>1
<1>7. Owed(place) = 2 * EventReserve /\ pc[op] \in Running
  BY <1>1 DEF Owed, Running
<1>8. EpochCanEnd'
  BY <1>3, <1>5, <1>6, <1>7, HolderBudget
<1>. QED
  BY <1>1, <1>3, <1>8 DEF CapacityInv, SizesInv

(* Steps that write no event row of an epoch and keep its budget.              *)
LEMMA KeepingStep ==
    ASSUME TypeOK, SingleMutator, CapacityInv, NEW op \in Operations,
           \/ AcquireLock(op) \/ RefuseRuntime(op) \/ BeginRepair(op) \/ TruncateEvents(op)
           \/ TruncateRaw(op) \/ AppendRecovered(op) \/ FinishRepair(op) \/ BindProvider(op)
           \/ CallProvider(op) \/ ProviderReturns(op) \/ Backoff(op) \/ PlanRecovery(op),
           Keep, UNCHANGED eventSize
    PROVE  CapacityInv'
<1>1. UNCHANGED <<eventSize, base, rawBytes, reserved>>
  BY DEF Keep
<1>2. CASE BindProvider(op) \/ CallProvider(op) \/ ProviderReturns(op) \/ Backoff(op)
  <2>1. /\ UNCHANGED events
        /\ \/ pc[op] = "epoch" /\ pc' = [pc EXCEPT ![op] = "item"]
           \/ pc[op] = "started" /\ pc' = [pc EXCEPT ![op] = "calling"]
           \/ pc[op] = "calling" /\ pc' = [pc EXCEPT ![op] = "answered"]
           \/ pc[op] = "finished" /\ pc' = [pc EXCEPT ![op] = "item"]
    BY <1>2 DEF BindProvider, CallProvider, ProviderReturns, Backoff, Continue, Goto, ledgers
  <2>2. PICK place \in {"item", "calling", "answered"} :
           /\ pc' = [pc EXCEPT ![op] = place] /\ pc[op] \in Budgeted
           /\ Owed(place) = Owed(pc[op])
    BY <2>1 DEF Budgeted, Owed
  <2>. QED
    BY <1>1, <2>1, <2>2, IdleStep
<1>3. CASE \/ AcquireLock(op) \/ RefuseRuntime(op) \/ BeginRepair(op) \/ FinishRepair(op)
           \/ PlanRecovery(op)
  <2>1. /\ UNCHANGED events
        /\ \E place \in {"locked", "busy", "refused", "recovering", "complete",
                         "operational_stop", "ready", "planned"} : pc' = [pc EXCEPT ![op] = place]
    BY <1>3 DEF AcquireLock, RefuseRuntime, BeginRepair, FinishRepair, PlanRecovery, Continue,
       Return, Goto, ledgers
  <2>. QED
    BY <1>1, <2>1, IdleStep DEF Budgeted
<1>4. CASE TruncateEvents(op) \/ TruncateRaw(op) \/ AppendRecovered(op)
  <2>1. pc[op] = "recovering" /\ (pc' = pc \/ pc' = [pc EXCEPT ![op] = "failed"])
    BY <1>4 DEF TruncateEvents, TruncateRaw, AppendRecovered, AppendEvent, Return, Goto
  <2>2. PICK place \in {"recovering", "failed"} : pc' = [pc EXCEPT ![op] = place]
    BY <2>1 DEF TypeOK
  <2>3. pc[op] \in Running /\ place \notin Budgeted
    BY <2>1 DEF Running, Budgeted
  <2>4. EpochCanEnd'
    BY <2>2, <2>3, HolderBudget
  <2>. QED
    BY <1>1, <2>4 DEF CapacityInv, SizesInv
<1>. QED
  BY <1>2, <1>3, <1>4

LEMMA CapacityInit == CInit => CapacityInv
<1>. SUFFICES ASSUME CInit PROVE CapacityInv
  OBVIOUS
<1>1. eventSize \in 1 .. EventReserve
  BY RowsAreLegal DEF CInit
<1>2. PICK room \in Headrooms : base = Limit - room - eventSize
  BY DEF CInit
<1>3. room \in Int
  BY PreparedFits
<1>4. base \in Int /\ rawBytes \in Nat /\ reserved \in Int
  BY <1>1, <1>2, <1>3, SizesArePositive DEF CInit
<1>5. EpochCanEnd
  BY DEF CInit, Init, EpochCanEnd
<1>. QED
  BY <1>1, <1>4, <1>5 DEF CapacityInv, SizesInv

LEMMA CapacityNext == IInv /\ CapacityInv /\ [CNext]_cvars => CapacityInv'
<1>. SUFFICES ASSUME IInv, CapacityInv, [CNext]_cvars PROVE CapacityInv'
  OBVIOUS
<1>. TypeOK /\ SingleMutator
  BY DEF IInv
<1>1. ASSUME NEW op \in Operations, CStep(op), UNCHANGED eventSize PROVE CapacityInv'
  <2>1. CASE (\/ AcquireLock(op) \/ RefuseRuntime(op) \/ BeginRepair(op) \/ TruncateEvents(op)
              \/ TruncateRaw(op) \/ AppendRecovered(op) \/ FinishRepair(op) \/ BindProvider(op)
              \/ CallProvider(op) \/ ProviderReturns(op) \/ Backoff(op) \/ PlanRecovery(op))
             /\ Keep
    BY <1>1, <2>1, KeepingStep
  <2>2. CASE /\ StartExecution(op) /\ Bytes + EpochNeed <= Limit
             /\ Consume(op, EpochNeed, eventSize) /\ UNCHANGED <<base, rawBytes>>
    BY <1>1, <2>2, EpochBudget
  <2>3. CASE /\ StartRequest(op) /\ Bytes + Larger(reserved, AttemptNeed) <= Limit
             /\ Consume(op, Larger(reserved, AttemptNeed), eventSize)
             /\ UNCHANGED <<base, rawBytes>>
    BY <1>1, <2>3, AttemptBudget
  <2>4. CASE AppendAttempt(op)
    BY <1>1, <2>4, RawRowBudget
  <2>5. CASE (FinishRequest(op) \/ MarkStop(op) \/ CompleteGeneration(op) \/ Stop(op) \/ Fail(op))
             /\ Consume(op, reserved, eventSize) /\ UNCHANGED <<base, rawBytes>>
    BY <1>1, <2>5, FinishBudget, EndingStep
  <2>6. CASE Release(op)
    BY <1>1, <2>6, ReleaseStep
  <2>. QED
    BY <1>1, <2>1, <2>2, <2>3, <2>4, <2>5, <2>6 DEF CStep
<1>2. CASE UNCHANGED cvars
  <2>1. UNCHANGED <<pc, events, eventSize, base, rawBytes, reserved>>
    BY <1>2 DEF cvars, vars
  <2>2. Bytes' = Bytes
    BY <2>1, SameBytes
  <2>. QED
    BY <2>1, <2>2 DEF CapacityInv, SizesInv, EpochCanEnd
<1>. QED
  BY <1>1, <1>2 DEF CNext

-----------------------------------------------------------------------------
(* Theorems *)

(* Whatever the sizes, no row that an epoch still has to write is refused by   *)
(* its budget or by the limit (consume_exact, _append_framed), through any     *)
(* number of resumes, crashes and retries.                                     *)
THEOREM BudgetSuffices == CSpec => []EpochCanEnd
<1>1. CapacityInv => EpochCanEnd
  BY DEF CapacityInv
<1>. QED
  BY <1>1, CapacityInit, CapacityNext, CapacityRefines, Inductive, PTL DEF CSpec

-----------------------------------------------------------------------------
(* Room for repairs *)

(* Event rows much smaller than the reserve, which RepairFits speaks of.       *)
SmallRows == /\ 4 * eventSize <= EventReserve
             /\ eventSize * Cardinality(Operations) <= EventReserve

One(condition) == IF condition THEN 1 ELSE 0
Owes == eventTail \/ rawTail \/ NeedsRepair(events, raw)

(* Bytes of the rows owed, of the audit of a torn raw row, and of one row for  *)
(* each operation still to come.                                               *)
Debt == (IF NeedsFinish(events, raw) THEN eventSize ELSE 0)
        + (IF NeedsMarker(events, raw) \/ NeedsCompletion(events, raw) THEN eventSize ELSE 0)
RawDebt == IF rawTail THEN EventReserve ELSE 0
Coming == { o \in Operations : pc[o] = "new" }
ToCome == eventSize * Cardinality(Coming)

(* What a repair needs now: an event audit takes the place of a crash of the   *)
(* repair, a recovered last row that of another.                               *)
Crashes == IF events[Len(events)].recovered THEN 2 * EventReserve ELSE 3 * EventReserve
RepairNeed == Bytes + Debt + RawDebt + Crashes

(* What it needs after any number of crashes of repairs, each of which leaves  *)
(* an audit to the next operation.                                             *)
RepeatNeed == Bytes + Debt + RawDebt + 2 * EventReserve + ToCome

Fits == RepairNeed <= Limit /\ RepeatNeed <= Limit
Repairable == Owes => Fits

(* What is free at each place of an epoch, of what it started with.            *)
Free(place) ==
    CASE place \in {"started", "calling", "answered"} -> 4 * EventReserve + RawReserve - eventSize
      [] place = "recorded" -> 4 * EventReserve - eventSize
      [] OTHER -> 4 * EventReserve - 2 * eventSize

(* While a repair goes on, its rows and two crashes fit at any time.           *)
Room(op) ==
    /\ pc[op] \in {"locked", "planned", "recovering"} => Repairable
    /\ pc[op] \in {"locked", "planned"} => (Owes => RepeatNeed + eventSize <= Limit)
    /\ pc[op] = "planned" => mem.todo = RecoveryPlan(op)
    /\ pc[op] = "recovering" =>
          /\ mem.todo = <<>> => ~eventTail /\ ~rawTail
          /\ mem.todo # <<>> =>
                Fits /\ Bytes + eventSize * Len(mem.todo) + 2 * EventReserve + ToCome <= Limit
    /\ pc[op] = "ready" => ~Owes
    /\ pc[op] \in Budgeted => Bytes + Free(pc[op]) <= Limit

RoomInv ==
    /\ Bytes + EventReserve <= Limit
    /\ lock = NoOperation => Repairable
    /\ \A op \in Operations : Room(op)

LEMMA PlanLengths ==
    ASSUME TypeOK, LedgerInv, NEW op \in Operations
    PROVE  /\ Len(TailAudits(op)) = One(eventTail) + One(rawTail)
           /\ Len(RequiredRows(op)) = One(NeedsFinish(events, raw))
                   + One(NeedsMarker(events, raw) \/ NeedsCompletion(events, raw))
           /\ Len(RecoveryPlan(op)) = Len(TailAudits(op)) + Len(RequiredRows(op))
           /\ RecoveryPlan(op) = <<>> <=> ~Owes
           /\ RecoveryPlan(op) \in Seq(Rows)
<1>. DEFINE a == If(eventTail, EventsAudit(op))
            b == If(rawTail, RawAudit(op))
            f == If(NeedsFinish(events, raw), FinishRow(op))
            m == If(NeedsMarker(events, raw), MarkerRow(op))
            c == If(NeedsCompletion(events, raw), CompletionRow(op))
<1>1. /\ a \in Seq(Rows) /\ b \in Seq(Rows) /\ f \in Seq(Rows) /\ m \in Seq(Rows)
      /\ c \in Seq(Rows)
      /\ RequiredRows(op) = (f \o m) \o c
  BY RequiredTyped, IfTyped
<1>2. TailAudits(op) = a \o b
  BY DEF TailAudits, If, EventsAudit, RawAudit
<1>3. /\ Len(a) = One(eventTail) /\ Len(b) = One(rawTail)
      /\ Len(f) = One(NeedsFinish(events, raw))
      /\ Len(m) = One(NeedsMarker(events, raw)) /\ Len(c) = One(NeedsCompletion(events, raw))
  BY DEF If, One
<1>4. NeedsMarker(events, raw) => ~NeedsCompletion(events, raw)
  BY RequiredBy
<1>. HIDE DEF a, b, f, m, c
<1>5. \A s, t \in Seq(Rows) : s \o t \in Seq(Rows) /\ Len(s \o t) = Len(s) + Len(t)
  BY ConcatProperties
<1>6. /\ TailAudits(op) \in Seq(Rows) /\ Len(TailAudits(op)) = Len(a) + Len(b)
      /\ RequiredRows(op) \in Seq(Rows) /\ Len(RequiredRows(op)) = (Len(f) + Len(m)) + Len(c)
  BY <1>1, <1>2, <1>5
<1>7. /\ RecoveryPlan(op) \in Seq(Rows)
      /\ Len(RecoveryPlan(op)) = Len(TailAudits(op)) + Len(RequiredRows(op))
  BY <1>5, <1>6 DEF RecoveryPlan
<1>8. Len(TailAudits(op)) = One(eventTail) + One(rawTail)
  BY <1>3, <1>6
<1>9. Len(RequiredRows(op)) = One(NeedsFinish(events, raw))
                   + One(NeedsMarker(events, raw) \/ NeedsCompletion(events, raw))
  BY <1>3, <1>4, <1>6 DEF One
<1>10. RecoveryPlan(op) = <<>> <=> Len(RecoveryPlan(op)) = 0
  BY <1>7
<1>11. Len(RecoveryPlan(op)) = 0 <=> ~Owes
  BY <1>7, <1>8, <1>9 DEF One, Owes, NeedsRepair
<1>. QED
  BY <1>7, <1>8, <1>9, <1>10, <1>11

LEMMA Multiples ==
    ASSUME NEW x \in Nat
    PROVE  /\ x * 0 = 0 /\ x * 1 = x /\ x * 2 = x + x
           /\ \A n \in Nat : x * n \in Nat /\ x * (n + 1) = x * n + x
           /\ \A k, n \in Nat : k <= n => x * k <= x * n
<1>1. \A n \in Nat : x * n \in Nat /\ x * (n + 1) = x * n + x
  OBVIOUS
<1>2. ASSUME NEW k \in Nat, NEW n \in Nat, k <= n PROVE x * k <= x * n
  <2>1. PICK d \in Nat : n = k + d
    BY <1>2
  <2>2. x * (k + d) = x * k + x * d
    OBVIOUS
  <2>. QED
    BY <1>1, <2>1, <2>2
<1>. QED
  BY <1>1, <1>2

LEMMA CostsTyped ==
    ASSUME TypeOK, SizesInv
    PROVE  /\ eventSize \in Nat /\ eventSize >= 1 /\ EventReserve \in Nat /\ RawReserve \in Nat
           /\ Limit \in Nat /\ Bytes \in Int /\ EventReserve <= RawReserve
           /\ Debt \in Nat /\ Debt <= 2 * eventSize
           /\ ~Open(events) => Debt <= eventSize
           /\ RawDebt \in Nat /\ RawDebt <= EventReserve /\ (~rawTail => RawDebt = 0)
           /\ Cardinality(Coming) \in Nat /\ ToCome \in Nat
           /\ SmallRows => 4 * eventSize <= EventReserve /\ ToCome <= EventReserve
<1>1. /\ eventSize \in Nat /\ eventSize >= 1 /\ EventReserve \in Nat /\ RawReserve \in Nat
      /\ Limit \in Nat /\ Bytes \in Int /\ EventReserve <= RawReserve
  BY SizesArePositive, RawRowsAreLarger, BytesTyped DEF SizesInv
<1>2. Debt \in Nat /\ Debt <= 2 * eventSize /\ (~Open(events) => Debt <= eventSize)
  BY <1>1 DEF Debt, NeedsFinish
<1>3. RawDebt \in Nat /\ RawDebt <= EventReserve /\ (~rawTail => RawDebt = 0)
  BY <1>1 DEF RawDebt
<1>4. /\ Coming \subseteq Operations /\ Cardinality(Coming) \in Nat
      /\ Cardinality(Operations) \in Nat /\ Cardinality(Coming) <= Cardinality(Operations)
  BY OperationsAreFew, FS_Subset, FS_CardinalityType DEF Coming
<1>5. ToCome \in Nat /\ ToCome <= eventSize * Cardinality(Operations)
      /\ eventSize * Cardinality(Operations) \in Nat
  BY <1>1, <1>4, Multiples DEF ToCome
<1>6. SmallRows => 4 * eventSize <= EventReserve /\ ToCome <= EventReserve
  BY <1>1, <1>5 DEF SmallRows
<1>. QED
  BY <1>1, <1>2, <1>3, <1>4, <1>5, <1>6

LEMMA DebtIsRequired ==
    ASSUME TypeOK, LedgerInv, SizesInv, NEW op \in Operations
    PROVE  Debt = eventSize * Len(RequiredRows(op))
<1>1. eventSize \in Nat
  BY CostsTyped
<1>2. Len(RequiredRows(op)) = One(NeedsFinish(events, raw))
                   + One(NeedsMarker(events, raw) \/ NeedsCompletion(events, raw))
  BY PlanLengths
<1>. QED
  BY <1>1, <1>2, Multiples DEF One, Debt

(* A plan within the repair's need is planned.                                 *)
LEMMA RepairablePlanFits ==
    ASSUME TypeOK, LedgerInv, SizesInv, NEW op \in Operations,
           Bytes + EventReserve <= Limit, Owes => RepairNeed <= Limit
    PROVE  PlanFits(op)
<1>. DEFINE audits == Len(TailAudits(op))
            cost == eventSize * (Len(RecoveryPlan(op)) - audits)
            reserve == EventReserve * audits
            crashes == EventReserve * CrashStages(op)
<1>1. /\ eventSize \in Nat /\ EventReserve \in Nat /\ Limit \in Nat /\ Bytes \in Int /\ Debt \in Nat
  BY CostsTyped
<1>2. /\ audits = One(eventTail) + One(rawTail)
      /\ Len(RecoveryPlan(op)) = audits + Len(RequiredRows(op))
      /\ Len(RequiredRows(op)) = One(NeedsFinish(events, raw))
                   + One(NeedsMarker(events, raw) \/ NeedsCompletion(events, raw))
      /\ RecoveryPlan(op) = <<>> <=> ~Owes
  BY PlanLengths
<1>3. cost = Debt
  <2>1. Len(RequiredRows(op)) \in Nat /\ audits \in Nat
    BY <1>2 DEF One
  <2>2. Len(RecoveryPlan(op)) - audits = Len(RequiredRows(op))
    BY <1>2, <2>1
  <2>. QED
    BY <2>2, DebtIsRequired
<1>4. reserve = (IF eventTail THEN EventReserve ELSE 0) + RawDebt
  BY <1>1, <1>2, Multiples DEF One, RawDebt
<1>5. crashes = IF ~Owes THEN 0
                ELSE IF eventTail
                     THEN IF events[Len(events)].recovered THEN 0 ELSE EventReserve
                     ELSE IF events[Len(events)].recovered THEN EventReserve
                          ELSE EventReserve + EventReserve
  BY <1>1, <1>2, Multiples DEF CrashStages, Larger
<1>6. ~Owes => Debt = 0 /\ ~eventTail /\ RawDebt = 0
  BY DEF Owes, NeedsRepair, Debt, RawDebt
<1>7. PlanFits(op) <=> Bytes + cost + reserve + crashes + EventReserve <= Limit
  BY DEF PlanFits
<1>. HIDE DEF cost, reserve, crashes
<1>8. RawDebt \in Nat
  BY CostsTyped
<1>. QED
  BY <1>1, <1>3, <1>4, <1>5, <1>6, <1>7, <1>8 DEF RepairNeed, Crashes

(* With three reserves free beyond what is owed any number of crashes of       *)
(* repairs fits.                                                               *)
LEMMA Roomy ==
    TypeOK /\ SizesInv /\ SmallRows /\ Bytes + Debt + RawDebt + 3 * EventReserve <= Limit
      => Repairable
<1>. SUFFICES ASSUME TypeOK, SizesInv, SmallRows,
                     Bytes + Debt + RawDebt + 3 * EventReserve <= Limit
              PROVE  RepairNeed <= Limit /\ RepeatNeed <= Limit
  BY DEF Repairable, Fits
<1>1. /\ EventReserve \in Nat /\ Limit \in Nat /\ Bytes \in Int /\ Debt \in Nat /\ RawDebt \in Nat
      /\ ToCome \in Nat /\ ToCome <= EventReserve
  BY CostsTyped
<1>2. RepairNeed <= Limit
  BY <1>1 DEF RepairNeed, Crashes
<1>3. RepeatNeed <= Limit
  BY <1>1 DEF RepeatNeed
<1>. QED
  BY <1>2, <1>3

LEMMA RoomyNext ==
    (TypeOK /\ SizesInv /\ SmallRows /\ Bytes + Debt + RawDebt + 3 * EventReserve <= Limit
      => Repairable)'
BY Roomy, PTL

(* The holder may die anywhere.                                                *)
LEMMA HolderRepairable ==
    ASSUME IInv, SizesInv, SmallRows, RoomInv, NEW op \in Operations, pc[op] \in Running
    PROVE  Repairable
<1>1. Room(op) /\ MemoryInv(op) /\ TypeOK
  BY DEF RoomInv, IInv
<1>2. CASE pc[op] \in {"locked", "planned", "recovering", "ready"}
  BY <1>1, <1>2 DEF Room, Repairable
<1>3. CASE pc[op] \in Budgeted
  <2>1. Bytes + Free(pc[op]) <= Limit
    BY <1>1, <1>3 DEF Room
  <2>2. Debt <= eventSize \/ pc[op] \in {"started", "calling", "answered", "recorded"}
    <3>1. pc[op] \in {"epoch", "item", "finished", "completing"} => ~Open(events)
      BY <1>1 DEF MemoryInv, PositionIsNext
    <3>. QED
      BY <1>1, <1>3, <3>1, CostsTyped DEF Budgeted
  <2>3. RawDebt = 0
    BY <1>1, <1>3, CostsTyped DEF MemoryInv, Budgeted
  <2>4. Bytes + Debt + RawDebt + 3 * EventReserve <= Limit
    BY <1>1, <1>3, <2>1, <2>2, <2>3, CostsTyped DEF Free, Budgeted
  <2>. QED
    BY <1>1, <2>4, Roomy
<1>. QED
  BY <1>2, <1>3 DEF Running, Budgeted

-----------------------------------------------------------------------------
(* Room for repairs: the steps *)

LEMMA SameDebt ==
    ASSUME events' = events, raw' = raw, UNCHANGED <<eventSize, base, rawBytes>>
    PROVE  Debt' = Debt /\ Bytes' = Bytes /\ (NeedsRepair(events, raw)' <=> NeedsRepair(events, raw))
BY DEF Debt, Bytes

(* Only the holder has a room of its own.                                      *)
LEMMA RoomFrame ==
    ASSUME IInv, NEW op \in Operations, pc[op] \in Running, NEW place,
           pc' = [pc EXCEPT ![op] = place],
           Bytes' + EventReserve <= Limit, lock' = NoOperation => Repairable', Room(op)'
    PROVE  RoomInv'
<1>1. pc \in [Operations -> Places] /\ lock = op
  BY DEF IInv, TypeOK, SingleMutator
<1>2. \A o \in Operations \ {op} : pc'[o] = pc[o] /\ pc[o] \notin Running
  BY <1>1, NoOperationIsFresh DEF IInv, SingleMutator
<1>3. \A o \in Operations : Room(o)'
  BY <1>2 DEF Room, Running, Budgeted
<1>. QED
  BY <1>3 DEF RoomInv

(* No operation becomes new.                                                   *)
LEMMA ComingShrinks ==
    ASSUME TypeOK, SizesInv, NEW op \in Operations, NEW place, place # "new",
           pc' = [pc EXCEPT ![op] = place], eventSize' = eventSize
    PROVE  /\ ToCome' \in Nat /\ ToCome' <= ToCome
           /\ pc[op] = "new" => ToCome = ToCome' + eventSize
<1>1. /\ Coming' = Coming \ {op} /\ (pc[op] = "new" => op \in Coming)
      /\ (pc[op] # "new" => op \notin Coming)
  BY DEF Coming, TypeOK
<1>2. IsFiniteSet(Coming) /\ eventSize \in Nat /\ Cardinality(Coming) \in Nat
  BY OperationsAreFew, FS_Subset, CostsTyped DEF Coming
<1>3. IsFiniteSet(Coming') /\ Cardinality(Coming') \in Nat
  BY <1>1, <1>2, FS_Subset, FS_CardinalityType
<1>4. CASE pc[op] = "new"
  <2>1. Cardinality(Coming') = Cardinality(Coming) - 1
    BY <1>1, <1>2, <1>4, FS_RemoveElement
  <2>2. Cardinality(Coming) = Cardinality(Coming') + 1
    BY <1>2, <1>3, <2>1
  <2>3. eventSize * Cardinality(Coming) = eventSize * Cardinality(Coming') + eventSize
        /\ eventSize * Cardinality(Coming') \in Nat
    BY <1>2, <1>3, <2>2, Multiples
  <2>. QED
    BY <1>2, <2>3 DEF ToCome
<1>5. CASE pc[op] # "new"
  <2>1. Coming' = Coming
    BY <1>1, <1>5
  <2>. QED
    BY <1>2, <1>5, <2>1, CostsTyped DEF ToCome
<1>. QED
  BY <1>4, <1>5

(* An operation that ends and leaves the ledgers as they are.                  *)
LEMMA ReturnLeavesRoom ==
    ASSUME IInv, SizesInv, SmallRows, RoomInv, NEW op \in Operations, pc[op] \in Running,
           NEW place \in Returned, pc' = [pc EXCEPT ![op] = place], UNCHANGED ledgers,
           UNCHANGED <<eventSize, base, rawBytes>>
    PROVE  RoomInv'
<1>1. /\ events' = events /\ eventTail' = eventTail /\ raw' = raw /\ rawTail' = rawTail
      /\ TypeOK
  BY DEF ledgers, IInv
<1>2. Repairable
  BY HolderRepairable
<1>3. ToCome' \in Nat /\ ToCome' <= ToCome /\ pc'[op] = place
  BY <1>1, ComingShrinks DEF Returned, TypeOK
<1>4. Debt' = Debt /\ Bytes' = Bytes /\ (NeedsRepair(events, raw)' <=> NeedsRepair(events, raw))
  BY <1>1, SameDebt
<1>5. Repairable'
  <2>1. Owes' <=> Owes
    BY <1>1, <1>4 DEF Owes
  <2>2. RepairNeed' = RepairNeed
    BY <1>1, <1>4 DEF RepairNeed, RawDebt, Crashes
  <2>3. RepeatNeed' <= RepeatNeed
    BY <1>1, <1>3, <1>4, CostsTyped DEF RepeatNeed, RawDebt
  <2>. QED
    BY <1>1, <1>2, <1>3, <1>4, <2>1, <2>2, <2>3, CostsTyped DEF Repairable, Fits, RepeatNeed, RawDebt
<1>6. Room(op)'
  BY <1>3 DEF Room, Returned, Budgeted
<1>. QED
  BY <1>4, <1>5, <1>6, RoomFrame DEF RoomInv

(* Arithmetic, of which the steps use instances.                               *)
LEMMA SumsShrink ==
    \A a, b, c, d, e \in Int : d <= b /\ e <= c =>
        /\ a + b + c \in Int /\ a + d + e \in Int /\ a + b \in Int /\ a + d \in Int
        /\ a + d + e <= a + b + c /\ a + d <= a + b
        /\ (a + d + e) - e <= (a + b + c) - c
OBVIOUS

LEMMA OneLess ==
    \A a, b, c, d, e \in Int : a - c <= b - d =>
        /\ c <= d => a <= b
        /\ d = c + e => a + e <= b
OBVIOUS

LEMMA StillWithin ==
    \A a, b, c, d \in Int : a <= b => /\ b <= d => a <= d
                                      /\ b + c <= d => a + c <= d
                                      /\ c + b <= d => c + a <= d
OBVIOUS

(* The ledgers stay as they are, or a fragment of them is cut off.             *)
LEMMA LedgersShrink ==
    ASSUME TypeOK, SizesInv, events' = events, raw' = raw,
           eventTail' => eventTail, rawTail' => rawTail,
           UNCHANGED <<eventSize, base, rawBytes>>, ToCome' \in Nat, ToCome' <= ToCome
    PROVE  /\ Bytes' = Bytes /\ Debt' = Debt
           /\ Owes' => Owes
           /\ RepeatNeed \in Int /\ RepeatNeed' \in Int
           /\ RepeatNeed' - ToCome' <= RepeatNeed - ToCome
           /\ Fits => Fits'
           /\ Repairable => Repairable'
<1>1. Debt' = Debt /\ Bytes' = Bytes
  BY SameDebt
<1>2. Owes' => Owes
  BY SameDebt DEF Owes
<1>3. /\ EventReserve \in Nat /\ Limit \in Nat /\ Bytes \in Int /\ Debt \in Nat
      /\ RawDebt \in Nat /\ ToCome \in Nat
  BY CostsTyped
<1>4. RawDebt' \in Nat /\ RawDebt' <= RawDebt
  BY <1>3 DEF RawDebt
<1>5. RepairNeed' <= RepairNeed /\ RepairNeed \in Int /\ RepairNeed' \in Int
  <2>1. Crashes' = Crashes /\ Crashes \in Nat
    BY <1>3 DEF Crashes
  <2>2. PICK a \in Int : a = Bytes + Debt
    BY <1>3
  <2>3. RepairNeed = a + RawDebt + Crashes /\ RepairNeed' = a + RawDebt' + Crashes
    BY <1>1, <2>1, <2>2 DEF RepairNeed
  <2>4. RawDebt \in Int /\ RawDebt' \in Int /\ Crashes \in Int /\ Crashes <= Crashes
    BY <1>3, <1>4, <2>1
  <2>. QED
    BY <1>4, <2>3, <2>4, SumsShrink
<1>7. /\ RepeatNeed \in Int /\ RepeatNeed' \in Int /\ RepeatNeed' <= RepeatNeed
      /\ RepeatNeed' - ToCome' <= RepeatNeed - ToCome
  <2>1. PICK a \in Int : a = Bytes + Debt + 2 * EventReserve
    BY <1>3
  <2>2. RepeatNeed = a + RawDebt + ToCome /\ RepeatNeed' = a + RawDebt' + ToCome'
    BY <1>1, <1>3, <1>4, <2>1 DEF RepeatNeed
  <2>3. RawDebt \in Int /\ RawDebt' \in Int /\ ToCome \in Int /\ ToCome' \in Int
    BY <1>3, <1>4
  <2>. QED
    BY <1>4, <2>2, <2>3, SumsShrink
<1>8. (Fits => Fits') /\ (Repairable => Repairable')
  <2>1. Limit \in Int
    BY <1>3
  <2>2. /\ RepairNeed <= Limit => RepairNeed' <= Limit
        /\ RepeatNeed <= Limit => RepeatNeed' <= Limit
    BY <1>5, <1>7, <2>1, StillWithin
  <2>. QED
    BY <1>2, <2>2 DEF Repairable, Fits
<1>. QED
  BY <1>1, <1>2, <1>7, <1>8

LEMMA SamePlanOfRepair ==
    ASSUME UNCHANGED ledgers, NEW op
    PROVE  RecoveryPlan(op)' = RecoveryPlan(op)
BY DEF ledgers, RecoveryPlan, TailAudits, RequiredRows

LEMMA AcquireLockRoom ==
    ASSUME IInv, SizesInv, RoomInv, NEW op \in Operations, AcquireLock(op),
           UNCHANGED <<eventSize, base, rawBytes>>
    PROVE  RoomInv'
<1>1. /\ pc[op] = "new" /\ UNCHANGED ledgers /\ mem' = mem
      /\ events' = events /\ eventTail' = eventTail /\ raw' = raw /\ rawTail' = rawTail
      /\ TypeOK /\ pc \in [Operations -> Places]
  BY DEF AcquireLock, ledgers, IInv, TypeOK
<1>2. PICK place \in {"locked", "busy"} :
         /\ pc' = [pc EXCEPT ![op] = place]
         /\ place = "locked" => lock = NoOperation /\ lock' = op
         /\ place = "busy" => lock' = lock
  BY DEF AcquireLock, Goto
<1>3. ToCome' \in Nat /\ ToCome' <= ToCome /\ ToCome = ToCome' + eventSize
  BY <1>1, <1>2, ComingShrinks
<1>0. (Owes' => Owes) /\ (Fits => Fits') /\ (Repairable => Repairable')
  BY <1>1, <1>3, LedgersShrink
<1>4. /\ Bytes' = Bytes /\ RepeatNeed \in Int /\ RepeatNeed' \in Int
      /\ RepeatNeed' - ToCome' <= RepeatNeed - ToCome
  BY <1>1, <1>3, LedgersShrink
<1>5. /\ eventSize \in Nat /\ Limit \in Nat /\ EventReserve \in Nat /\ Bytes \in Int
      /\ ToCome \in Nat /\ eventSize * Len(mem.todo) \in Nat
  <2>1. Len(mem.todo) \in Nat
    BY <1>1 DEF TypeOK, Memories
  <2>. QED
    BY <1>1, <2>1, CostsTyped, Multiples
<1>6. /\ RepeatNeed' + eventSize \in Int /\ RepeatNeed' + eventSize <= RepeatNeed
      /\ RepeatNeed + eventSize <= Limit => RepeatNeed' + eventSize' <= Limit
      /\ RepeatNeed <= Limit => RepeatNeed' + eventSize' <= Limit
  <2>1. ToCome' \in Int /\ ToCome \in Int /\ eventSize \in Int /\ Limit \in Int
    BY <1>3, <1>5
  <2>2. RepeatNeed' + eventSize <= RepeatNeed /\ RepeatNeed' <= RepeatNeed
    <3>1. PICK t \in Int : t = ToCome'
      BY <2>1
    <3>2. PICK r \in Int : r = RepeatNeed'
      BY <1>4
    <3>3. RepeatNeed \in Int /\ r - t <= RepeatNeed - ToCome /\ t <= ToCome
          /\ ToCome = t + eventSize
      BY <1>3, <1>4, <3>1, <3>2
    <3>4. r + eventSize <= RepeatNeed /\ r <= RepeatNeed
      BY <2>1, <3>3
    <3>. QED
      BY <3>2, <3>4
  <2>3. RepeatNeed' + eventSize \in Int
    BY <1>4, <2>1
  <2>. QED
    BY <1>4, <2>1, <2>2, <2>3, StillWithin
<1>7. ASSUME NEW o \in Operations, o # op PROVE Room(o)'
  <2>1. pc'[o] = pc[o] /\ Room(o)
    BY <1>1, <1>2, <1>7 DEF RoomInv
  <2>2. RecoveryPlan(o)' = RecoveryPlan(o)
    BY <1>1, SamePlanOfRepair
  <2>3. RepeatNeed + eventSize <= Limit => RepeatNeed' + eventSize' <= Limit
    BY <1>6
  <2>4. Bytes + eventSize * Len(mem.todo) + 2 * EventReserve + ToCome <= Limit =>
            Bytes' + eventSize' * Len(mem'.todo) + 2 * EventReserve + ToCome' <= Limit
    <3>1. eventSize' * Len(mem'.todo) = eventSize * Len(mem.todo)
      BY <1>1
    <3>2. PICK t \in Nat : t = eventSize * Len(mem.todo)
      BY <1>5
    <3>3. /\ EventReserve \in Nat /\ Limit \in Nat /\ Bytes \in Int /\ ToCome \in Nat
          /\ ToCome' \in Nat /\ ToCome' <= ToCome /\ Bytes' = Bytes
      BY <1>3, <1>4, <1>5
    <3>4. Bytes + t + 2 * EventReserve + ToCome <= Limit =>
              Bytes + t + 2 * EventReserve + ToCome' <= Limit
      <4>1. PICK n \in Nat : n = ToCome'
        BY <3>3
      <4>2. n <= ToCome
        BY <3>3, <4>1
      <4>3. Bytes + t + 2 * EventReserve + ToCome <= Limit =>
                Bytes + t + 2 * EventReserve + n <= Limit
        BY <3>2, <3>3, <4>2
      <4>. QED
        BY <4>1, <4>3
    <3>. QED
      BY <3>1, <3>2, <3>3, <3>4
  <2>5. Free(pc[o])' = Free(pc[o])
    BY <2>1 DEF Free
  <2>6. /\ pc'[o] \in {"locked", "planned", "recovering"} => Repairable'
        /\ pc'[o] \in {"locked", "planned"} => (Owes' => RepeatNeed' + eventSize' <= Limit)
    BY <1>0, <2>1, <2>3 DEF Room
  <2>7. /\ pc'[o] = "planned" => mem'.todo = RecoveryPlan(o)'
        /\ pc'[o] = "ready" => ~Owes'
        /\ pc'[o] = "recovering" => (mem'.todo = <<>> => ~eventTail' /\ ~rawTail')
    BY <1>0, <1>1, <2>1, <2>2 DEF Room
  <2>8. pc'[o] = "recovering" => (mem'.todo # <<>> =>
            Fits' /\ Bytes' + eventSize' * Len(mem'.todo) + 2 * EventReserve + ToCome' <= Limit)
    BY <1>0, <1>1, <2>1, <2>4 DEF Room
  <2>9. pc'[o] \in Budgeted => Bytes' + Free(pc[o])' <= Limit
    BY <1>4, <2>1, <2>5 DEF Room
  <2>. QED
    BY <2>6, <2>7, <2>8, <2>9 DEF Room
<1>8. Room(op)' /\ (lock' = NoOperation => Repairable')
  <2>1. pc'[op] = place
    BY <1>1, <1>2
  <2>2. CASE place = "busy"
    BY <1>0, <1>2, <2>1, <2>2 DEF Room, Budgeted, RoomInv
  <2>3. CASE place = "locked"
    <3>1. Repairable /\ Repairable'
      BY <1>0, <1>2, <2>3 DEF RoomInv
    <3>2. RepeatNeed <= Limit => RepeatNeed' + eventSize' <= Limit
      BY <1>6
    <3>3. Owes' => RepeatNeed' + eventSize' <= Limit
      BY <1>0, <3>1, <3>2 DEF Repairable, Fits
    <3>. QED
      BY <2>1, <2>3, <3>1, <3>3 DEF Room, Budgeted
  <2>. QED
    BY <2>2, <2>3
<1>9. Bytes' + EventReserve <= Limit
  BY <1>4 DEF RoomInv
<1>. QED
  BY <1>7, <1>8, <1>9 DEF RoomInv

(* Planning, the start of a repair and its truncations.                        *)
LEMMA PlanRecoveryRoom ==
    ASSUME IInv, SizesInv, RoomInv, NEW op \in Operations, PlanRecovery(op),
           UNCHANGED <<eventSize, base, rawBytes>>
    PROVE  RoomInv'
<1>1. /\ pc[op] = "locked" /\ pc[op] \in Running /\ pc' = [pc EXCEPT ![op] = "planned"]
      /\ UNCHANGED ledgers /\ lock' = lock /\ lock = op
      /\ events' = events /\ eventTail' = eventTail /\ raw' = raw /\ rawTail' = rawTail
      /\ mem'.todo = RecoveryPlan(op) /\ TypeOK
  BY DEF PlanRecovery, Goto, ledgers, IInv, TypeOK, Memories, SingleMutator, Running
<1>2. ToCome' \in Nat /\ ToCome' <= ToCome /\ pc'[op] = "planned"
  BY <1>1, ComingShrinks DEF TypeOK
<1>0. (Owes' => Owes) /\ (Fits => Fits') /\ (Repairable => Repairable')
  BY <1>1, <1>2, LedgersShrink
<1>3. /\ Bytes' = Bytes /\ RepeatNeed \in Int /\ RepeatNeed' \in Int
      /\ RepeatNeed' - ToCome' <= RepeatNeed - ToCome
  BY <1>1, <1>2, LedgersShrink
<1>4. Room(op) /\ Repairable /\ (Owes => RepeatNeed + eventSize <= Limit)
  BY <1>1 DEF RoomInv, Room
<1>5. RepeatNeed + eventSize <= Limit => RepeatNeed' + eventSize' <= Limit
  <2>1. eventSize \in Nat /\ Limit \in Nat /\ ToCome \in Nat
    BY <1>1, CostsTyped
  <2>2. ToCome' \in Nat /\ ToCome' <= ToCome
    BY <1>2
  <2>3. ToCome' \in Int /\ ToCome \in Int /\ eventSize \in Int /\ Limit \in Int
    BY <2>1, <2>2
  <2>4. RepeatNeed' <= RepeatNeed
    BY <1>3, <2>2, <2>3, OneLess
  <2>. QED
    BY <1>3, <2>3, <2>4, StillWithin
<1>6. Owes' => RepeatNeed' + eventSize' <= Limit
  BY <1>0, <1>4, <1>5
<1>7. mem'.todo = RecoveryPlan(op)'
  BY <1>1, SamePlanOfRepair
<1>8. Room(op)'
  BY <1>0, <1>2, <1>4, <1>6, <1>7 DEF Room, Budgeted
<1>. QED
  BY <1>0, <1>1, <1>3, <1>4, <1>8, RoomFrame DEF RoomInv

LEMMA BeginRepairRoom ==
    ASSUME IInv, SizesInv, SmallRows, RoomInv, NEW op \in Operations, BeginRepair(op),
           UNCHANGED <<eventSize, base, rawBytes>>
    PROVE  RoomInv'
<1>1. /\ pc[op] = "planned" /\ pc[op] \in Running /\ pc' = [pc EXCEPT ![op] = "recovering"]
      /\ lock' = lock /\ lock = op /\ mem' = mem /\ TypeOK /\ LedgerInv
      /\ events' = events /\ eventTail' = eventTail /\ raw' = raw /\ rawTail' = rawTail
  BY DEF BeginRepair, Continue, Goto, ledgers, IInv, SingleMutator, Running
<1>2. ToCome' \in Nat /\ ToCome' <= ToCome /\ pc'[op] = "recovering"
  BY <1>1, ComingShrinks DEF TypeOK
<1>3. Bytes' = Bytes /\ (Fits => Fits') /\ (Repairable => Repairable')
  BY <1>1, <1>2, LedgersShrink
<1>4. /\ Room(op) /\ Repairable /\ (Owes => RepeatNeed + eventSize <= Limit)
      /\ mem.todo = RecoveryPlan(op)
  BY <1>1 DEF RoomInv, Room
<1>5. mem.todo = <<>> <=> ~Owes
  BY <1>1, <1>4, PlanLengths
<1>6. mem'.todo = <<>> => ~eventTail' /\ ~rawTail'
  BY <1>1, <1>5 DEF Owes
<1>7. eventSize * Len(mem.todo) = Debt + (IF eventTail THEN eventSize ELSE 0)
                                        + (IF rawTail THEN eventSize ELSE 0)
  <2>1. /\ Len(mem.todo) = Len(TailAudits(op)) + Len(RequiredRows(op))
        /\ Len(TailAudits(op)) = One(eventTail) + One(rawTail)
        /\ Len(RequiredRows(op)) = One(NeedsFinish(events, raw))
                   + One(NeedsMarker(events, raw) \/ NeedsCompletion(events, raw))
    BY <1>1, <1>4, PlanLengths
  <2>2. eventSize \in Nat
    BY <1>1, CostsTyped
  <2>3. PICK q \in Nat : q = Len(RequiredRows(op))
    BY <2>1 DEF One
  <2>4. Debt = eventSize * q /\ eventSize * q \in Nat
    BY <1>1, <2>2, <2>3, DebtIsRequired, Multiples
  <2>5. /\ eventSize * (q + 1) = eventSize * q + eventSize
        /\ eventSize * ((q + 1) + 1) = eventSize * (q + 1) + eventSize
    BY <2>2, Multiples
  <2>6. \/ eventTail /\ rawTail /\ Len(mem.todo) = (q + 1) + 1
        \/ (eventTail <=> ~rawTail) /\ Len(mem.todo) = q + 1
        \/ ~eventTail /\ ~rawTail /\ Len(mem.todo) = q
    BY <2>1, <2>3 DEF One
  <2>. QED
    BY <2>2, <2>4, <2>5, <2>6
<1>8. mem.todo # <<>> => Bytes + eventSize * Len(mem.todo) + 2 * EventReserve + ToCome <= Limit
  <2>1. /\ EventReserve \in Nat /\ Limit \in Nat /\ Bytes \in Int /\ Debt \in Nat
        /\ ToCome \in Nat /\ eventSize \in Nat /\ 4 * eventSize <= EventReserve
    BY <1>1, CostsTyped
  <2>2. PICK t \in Nat : t = eventSize * Len(mem.todo)
    BY <1>7, <2>1
  <2>. QED
    BY <1>4, <1>5, <1>7, <2>1, <2>2 DEF RepeatNeed, RawDebt
<1>9. mem'.todo # <<>> => Fits'
  BY <1>1, <1>3, <1>4, <1>5 DEF Repairable
<1>10. mem'.todo # <<>> =>
          Bytes' + eventSize' * Len(mem'.todo) + 2 * EventReserve + ToCome' <= Limit
  <2>1. /\ EventReserve \in Nat /\ Limit \in Nat /\ Bytes \in Int /\ ToCome \in Nat
        /\ eventSize \in Nat /\ Debt \in Nat
    BY <1>1, CostsTyped
  <2>2. PICK t \in Nat : t = eventSize * Len(mem.todo)
    BY <1>7, <2>1
  <2>3. eventSize' * Len(mem'.todo) = t /\ mem'.todo = mem.todo /\ Bytes' = Bytes
    BY <1>1, <1>3, <2>2
  <2>4. ToCome' \in Nat /\ ToCome' <= ToCome
    BY <1>2
  <2>5. Bytes + t + 2 * EventReserve + ToCome <= Limit =>
            Bytes + t + 2 * EventReserve + ToCome' <= Limit
    <3>1. PICK n \in Nat : n = ToCome'
      BY <2>4
    <3>2. n <= ToCome
      BY <2>4, <3>1
    <3>3. Bytes + t + 2 * EventReserve + ToCome <= Limit =>
              Bytes + t + 2 * EventReserve + n <= Limit
      BY <2>1, <3>2
    <3>. QED
      BY <3>1, <3>3
  <2>. QED
    BY <1>8, <2>2, <2>3, <2>5
<1>11. Room(op)'
  BY <1>2, <1>3, <1>4, <1>6, <1>10, <1>9 DEF Room, Budgeted
<1>. QED
  BY <1>1, <1>3, <1>4, <1>11, RoomFrame DEF RoomInv

LEMMA TruncateRoom ==
    ASSUME IInv, SizesInv, RoomInv, NEW op \in Operations, TruncateEvents(op) \/ TruncateRaw(op),
           UNCHANGED <<eventSize, base, rawBytes>>
    PROVE  RoomInv'
<1>1. /\ pc[op] = "recovering" /\ pc[op] \in Running /\ pc' = pc
      /\ lock' = lock /\ lock = op /\ mem' = mem /\ TypeOK
      /\ events' = events /\ raw' = raw /\ (eventTail' => eventTail) /\ (rawTail' => rawTail)
  BY DEF TruncateEvents, TruncateRaw, IInv, SingleMutator, Running
<1>2. pc' = [pc EXCEPT ![op] = "recovering"] /\ pc'[op] = "recovering"
  BY <1>1, StaysThere
<1>3. ToCome' = ToCome /\ ToCome \in Nat
  BY <1>1, CostsTyped DEF ToCome, Coming
<1>4. Bytes' = Bytes /\ (Fits => Fits') /\ (Repairable => Repairable')
  BY <1>1, <1>3, LedgersShrink
<1>5. Room(op)
  BY DEF RoomInv
<1>6. Room(op)'
  BY <1>1, <1>2, <1>3, <1>4, <1>5 DEF Room, Budgeted
<1>. QED
  BY <1>1, <1>2, <1>4, <1>6, RoomFrame, NoOperationIsFresh DEF RoomInv

(* What is still owed costs no more than what is left of a plan.               *)
LEMMA RemainsCosts ==
    \A op \in Operations, inRaw \in BOOLEAN :
        TypeOK /\ LedgerInv /\ SizesInv => Debt <= eventSize * Len(Remains(op, FALSE, inRaw))
<1>. SUFFICES ASSUME NEW op \in Operations, NEW inRaw \in BOOLEAN, TypeOK, LedgerInv, SizesInv
              PROVE  Debt <= eventSize * Len(Remains(op, FALSE, inRaw))
  OBVIOUS
<1>1. /\ Remains(op, FALSE, inRaw) \in Seq(Rows)
      /\ ~inRaw => Remains(op, FALSE, inRaw) = RequiredRows(op)
      /\ Remains(op, FALSE, FALSE) = RequiredRows(op)
      /\ inRaw => Remains(op, FALSE, inRaw) # <<>>
                  /\ Tail(Remains(op, FALSE, inRaw)) = Remains(op, FALSE, FALSE)
  BY FirstRemaining
<1>2. PICK s \in Seq(Rows), r \in Seq(Rows) : s = Remains(op, FALSE, inRaw) /\ r = RequiredRows(op)
  BY <1>1, RequiredTyped
<1>3. s = r \/ (s # <<>> /\ r = Tail(s))
  BY <1>1, <1>2
<1>4. Len(r) \in Nat /\ Len(s) \in Nat /\ Len(r) <= Len(s)
  <2>1. s # <<>> => Len(Tail(s)) = Len(s) - 1
    BY HeadTailProperties
  <2>. QED
    BY <1>3, <2>1
<1>5. eventSize \in Nat
  BY CostsTyped
<1>6. eventSize * Len(r) <= eventSize * Len(s)
  BY <1>4, <1>5, Multiples
<1>. QED
  BY <1>2, <1>6, DebtIsRequired

LEMMA RemainsCostsNext ==
    \A op \in Operations, inRaw \in BOOLEAN :
        (TypeOK /\ LedgerInv /\ SizesInv => Debt <= eventSize * Len(Remains(op, FALSE, inRaw)))'
<1>. TAKE op \in Operations, inRaw \in BOOLEAN
<1>1. TypeOK /\ LedgerInv /\ SizesInv => Debt <= eventSize * Len(Remains(op, FALSE, inRaw))
  BY RemainsCosts
<1>. QED
  BY RemainsCosts, <1>1, PTL

(* What is left of a plan after its first row is written, by an operation that *)
(* goes on or dies.                                                            *)
LEMMA RestRemains ==
    ASSUME TypeOK, LedgerInv, NEW op \in Operations, TodoRemains(op), mem.todo # <<>>,
           Head(mem.todo) \in OwedRows, events' = Append(events, Head(mem.todo)), raw' = raw
    PROVE  \E inRaw \in BOOLEAN : Tail(mem.todo) = Remains(op, FALSE, inRaw)'
<1>1. PICK inEvents, inRaw \in BOOLEAN :
          /\ mem.todo = Remains(op, inEvents, inRaw)
          /\ inEvents \/ inRaw => ~TerminalMarkerCommitted
  BY DEF TodoRemains
<1>. DEFINE row == Head(mem.todo)
            rest == Tail(mem.todo)
<1>2. row \in Rows
  BY DEF OwedRows
<1>3. CASE inEvents \/ inRaw
  <2>1. \/ row = EventsAudit(op) /\ rest = Remains(op, FALSE, inRaw)
        \/ row = RawAudit(op) /\ rest = Remains(op, FALSE, FALSE)
    BY <1>1, <1>3, FirstRemaining
  <2>2. /\ EventsAudit(op).kind = "tail_recovered_events"
        /\ RawAudit(op).kind = "tail_recovered_raw"
    BY DEF EventsAudit, RawAudit, Event
  <2>3. row.kind \in {"tail_recovered_events", "tail_recovered_raw"}
    BY <2>1, <2>2
  <2>4. \A x, y \in BOOLEAN : Remains(op, x, y)' = Remains(op, x, y)
    <3>1. events' = Append(events, row)
      OBVIOUS
    <3>. HIDE DEF row
    <3>. QED
      BY <1>2, <2>3, <3>1, RecoveredAudit
  <2>. QED
    BY <2>1, <2>4
<1>4. CASE ~inEvents /\ ~inRaw
  <2>1. mem.todo = RequiredRows(op)
    BY <1>1, <1>4, FirstRemaining
  <2>2. /\ RequiredRows(op) # <<>> /\ row = Head(RequiredRows(op))
        /\ rest = Tail(RequiredRows(op)) /\ events' = Append(events, row)
    BY <2>1
  <2>3. rest = Remains(op, FALSE, FALSE)'
    <3>. HIDE DEF row, rest
    <3>. QED
      BY <1>2, <2>2, RecoveredOwed
  <2>. QED
    BY <2>3
<1>. QED
  BY <1>3, <1>4

LEMMA AppendRecoveredRoom ==
    ASSUME IInv, RepairInv, IInv', SizesInv, SizesInv', RoomInv, NEW op \in Operations,
           AppendRecovered(op), UNCHANGED <<eventSize, base, rawBytes>>
    PROVE  RoomInv'
<1>. DEFINE row == Head(mem.todo)
            rest == Tail(mem.todo)
<1>1. /\ pc[op] = "recovering" /\ pc[op] \in Running /\ mem.todo # <<>> /\ lock = op
      /\ ~eventTail /\ ~rawTail /\ raw' = raw /\ rawTail' = rawTail
      /\ mem \in Memories /\ mem.todo \in Seq(OwedRows)
      /\ TypeOK /\ LedgerInv
  BY DEF AppendRecovered, AppendEvent, Running, IInv, TypeOK, MemoryInv, TodoIsOwed, SingleMutator
<1>2. row \in OwedRows /\ Len(rest) \in Nat /\ Len(mem.todo) = Len(rest) + 1
  BY <1>1, HeadTailProperties
<1>3. TodoRemains(op) /\ row.recovered = TRUE
  <2>1. TodoRemains(op)
    BY <1>1 DEF RepairInv, RepairMemory
  <2>. QED
    BY <1>1, <2>1, PlannedRow
<1>4. /\ Fits /\ Bytes + eventSize * Len(mem.todo) + 2 * EventReserve + ToCome <= Limit
      /\ Bytes + EventReserve <= Limit
  BY <1>1 DEF RoomInv, Room
<1>5. /\ eventSize \in Nat /\ EventReserve \in Nat /\ Limit \in Nat /\ Bytes \in Int
      /\ ToCome \in Nat /\ Cardinality(Coming) \in Nat
  BY <1>1, CostsTyped
<1>6. PICK t \in Nat : t = eventSize * Len(rest) /\ eventSize * Len(mem.todo) = t + eventSize
  BY <1>2, <1>5, Multiples
<1>7. Bytes + t + eventSize + 2 * EventReserve + ToCome <= Limit
  <2>1. Bytes + (t + eventSize) + 2 * EventReserve + ToCome <= Limit
    BY <1>4, <1>6
  <2>. QED
    BY <1>5, <2>1
<1>8. \/ /\ events' = Append(events, row) /\ eventTail' = eventTail
         /\ mem'.todo = rest /\ pc' = pc /\ lock' = lock
      \/ /\ \/ events' = Append(events, row) /\ eventTail' = eventTail
            \/ eventTail' = TRUE /\ events' = events
         /\ Return(op, "failed")
  BY <1>1 DEF AppendRecovered, AppendEvent, Memories
<1>9. ToCome' = ToCome
  <2>1. pc' = pc \/ pc' = [pc EXCEPT ![op] = "failed"]
    BY <1>8 DEF Return, Goto
  <2>2. Coming' = Coming
    BY <1>1, <2>1 DEF Coming, TypeOK
  <2>. QED
    BY <2>2 DEF ToCome
<1>10. ASSUME events' = Append(events, row), eventTail' = eventTail
       PROVE  /\ Bytes' = Bytes + eventSize /\ Fits'
              /\ Bytes' + t + 2 * EventReserve + ToCome' <= Limit
              /\ Bytes' + EventReserve <= Limit
  <2>1. Bytes' = Bytes + eventSize
    BY <1>1, <1>10, OneRowMore
  <2>2. Debt' <= t /\ Debt' \in Nat
    <3>1. PICK inRaw \in BOOLEAN : rest = Remains(op, FALSE, inRaw)'
      BY <1>1, <1>2, <1>3, <1>10, RestRemains
    <3>2. TypeOK' /\ LedgerInv' /\ SizesInv'
      BY DEF IInv
    <3>3. (TypeOK' /\ LedgerInv' /\ SizesInv') => Debt' <= eventSize' * Len(Remains(op, FALSE, inRaw)')
      BY RemainsCostsNext
    <3>4. Debt' <= t
      BY <1>6, <3>1, <3>2, <3>3
    <3>5. Debt' \in Nat
      BY <1>5 DEF Debt
    <3>. QED
      BY <3>4, <3>5
  <2>3. RawDebt' = 0 /\ Crashes' = 2 * EventReserve
    <3>1. events \in Seq(Rows) /\ row \in Rows
      BY <1>1, <1>2 DEF TypeOK, OwedRows
    <3>2. events'[Len(events')] = row
      <4>. HIDE DEF row
      <4>. QED
        BY <1>10, <3>1
    <3>. QED
      BY <1>1, <1>3, <3>2 DEF RawDebt, Crashes
  <2>4. PICK b \in Int, d \in Nat : b = Bytes' /\ d = Debt' /\ b = Bytes + eventSize /\ d <= t
    BY <1>5, <2>1, <2>2
  <2>5. RepairNeed' = b + d + 0 + 2 * EventReserve
    BY <2>3, <2>4 DEF RepairNeed
  <2>6. RepeatNeed' = b + d + 0 + 2 * EventReserve + ToCome
    BY <1>9, <2>3, <2>4 DEF RepeatNeed
  <2>7. /\ b + d + 0 + 2 * EventReserve <= Limit
        /\ b + d + 0 + 2 * EventReserve + ToCome <= Limit
        /\ b + t + 2 * EventReserve + ToCome <= Limit
        /\ b + EventReserve <= Limit
    <3>1. b = Bytes + eventSize /\ d <= t
      BY <2>4
    <3>. QED
      BY <1>5, <1>7, <3>1
  <2>. QED
    BY <1>9, <2>1, <2>4, <2>5, <2>6, <2>7 DEF Fits
<1>11. CASE /\ events' = Append(events, row) /\ eventTail' = eventTail
            /\ mem'.todo = rest /\ pc' = pc /\ lock' = lock
  <2>1. pc' = [pc EXCEPT ![op] = "recovering"] /\ pc'[op] = "recovering"
    BY <1>1, <1>11, StaysThere
  <2>2. Fits' /\ Bytes' + t + 2 * EventReserve + ToCome' <= Limit /\ Bytes' + EventReserve <= Limit
    BY <1>10, <1>11
  <2>3. t = eventSize' * Len(mem'.todo)
    BY <1>6, <1>11
  <2>4. Bytes' + eventSize' * Len(mem'.todo) + 2 * EventReserve + ToCome' <= Limit
    BY <2>2, <2>3
  <2>5. Repairable' /\ ~eventTail' /\ ~rawTail'
    BY <1>1, <1>11, <2>2 DEF Repairable
  <2>6. Room(op)'
    BY <2>1, <2>2, <2>4, <2>5 DEF Room, Budgeted
  <2>. QED
    BY <1>1, <2>1, <2>2, <2>5, <2>6, RoomFrame
<1>12. CASE /\ \/ events' = Append(events, row) /\ eventTail' = eventTail
               \/ eventTail' = TRUE /\ events' = events
            /\ Return(op, "failed")
  <2>1. pc' = [pc EXCEPT ![op] = "failed"] /\ pc'[op] = "failed"
    BY <1>1, <1>12 DEF Return, Goto, TypeOK
  <2>2. Fits' /\ Bytes' + EventReserve <= Limit
    <3>1. CASE events' = Append(events, row) /\ eventTail' = eventTail
      BY <1>10, <3>1
    <3>2. CASE events' = events
      <4>1. Debt' = Debt /\ Bytes' = Bytes
        BY <1>1, <3>2, SameDebt
      <4>2. RepairNeed' = RepairNeed /\ RepeatNeed' = RepeatNeed
        BY <1>1, <1>9, <3>2, <4>1 DEF RepairNeed, RepeatNeed, RawDebt, Crashes
      <4>. QED
        BY <1>4, <4>1, <4>2 DEF Fits
    <3>. QED
      BY <1>12, <3>1, <3>2
  <2>3. Repairable'
    BY <2>2 DEF Repairable
  <2>4. Room(op)'
    BY <2>1 DEF Room, Budgeted
  <2>. QED
    BY <1>1, <2>1, <2>2, <2>3, <2>4, RoomFrame
<1>. QED
  BY <1>8, <1>11, <1>12

(* A repair that ends owes nothing.                                            *)
LEMMA FinishRepairRoom ==
    ASSUME IInv, SizesInv, RoomInv, NEW op \in Operations, FinishRepair(op),
           UNCHANGED <<eventSize, base, rawBytes>>
    PROVE  RoomInv'
<1>1. /\ pc[op] = "recovering" /\ pc[op] \in Running /\ TypeOK
      /\ events' = events /\ eventTail' = eventTail /\ raw' = raw /\ rawTail' = rawTail
      /\ ~Owes
  BY DEF FinishRepair, Repaired, Owes, ledgers, Running, IInv
<1>2. PICK place \in {"complete", "operational_stop", "ready"} : pc' = [pc EXCEPT ![op] = place]
  BY DEF FinishRepair, Return, Goto
<1>3. pc'[op] = place
  BY <1>1, <1>2 DEF TypeOK
<1>4. ~Owes'
  BY <1>1, SameDebt DEF Owes
<1>5. Bytes' = Bytes
  BY <1>1, SameDebt
<1>6. Room(op)' /\ Repairable'
  BY <1>3, <1>4 DEF Room, Repairable, Budgeted
<1>. QED
  BY <1>1, <1>2, <1>5, <1>6, RoomFrame DEF RoomInv

LEMMA FreeTyped ==
    ASSUME TypeOK, SizesInv, NEW place, eventSize' = eventSize
    PROVE  Free(place) \in Int /\ Free(place)' = Free(place)
BY CostsTyped DEF Free

(* An event row of an epoch: written and the epoch goes on, or the operation   *)
(* ends with all, a part or none of it.                                        *)
LEMMA WriteLeavesRoom ==
    ASSUME IInv, IInv', SizesInv, SizesInv', SmallRows, NEW op \in Operations,
           pc[op] \in Running, NEW row, NEW place \in Budgeted \cup Returned,
           raw' = raw, ~rawTail, rawTail' = rawTail, UNCHANGED <<eventSize, base, rawBytes>>,
           \/ events' = Append(events, row) /\ pc' = [pc EXCEPT ![op] = place]
           \/ /\ events' = Append(events, row) \/ events' = events
              /\ pc' = [pc EXCEPT ![op] = "failed"],
           NEW debt \in Nat, Debt' <= debt,
           Bytes + eventSize + debt + 3 * EventReserve <= Limit,
           place \in Budgeted => Bytes + eventSize + Free(place) <= Limit
    PROVE  RoomInv'
<1>1. /\ TypeOK /\ TypeOK' /\ SmallRows'
      /\ eventSize \in Nat /\ EventReserve \in Nat /\ Limit \in Nat /\ Bytes \in Int
  BY CostsTyped DEF IInv, SmallRows
<1>2. Bytes' = Bytes + eventSize \/ Bytes' = Bytes
  BY <1>1, OneRowMore, SameBytes
<1>3. PICK b \in Int : b = Bytes'
  BY <1>1, <1>2
<1>4. PICK d \in Nat : d = Debt' /\ d <= debt
  BY <1>1 DEF Debt
<1>5. b <= Bytes + eventSize
  BY <1>1, <1>2, <1>3
<1>6. RawDebt' = 0
  BY DEF RawDebt
<1>7. b + d + 0 + 3 * EventReserve <= Limit /\ b + EventReserve <= Limit
  <2>. DEFINE ev == eventSize
              now == Bytes
  <2>1. /\ ev \in Nat /\ EventReserve \in Nat /\ Limit \in Nat /\ now \in Int
        /\ b \in Int /\ d \in Nat /\ debt \in Nat /\ d <= debt /\ b <= now + ev
        /\ now + ev + debt + 3 * EventReserve <= Limit
    BY <1>1, <1>4, <1>5
  <2>. HIDE DEF ev, now
  <2>. QED
    BY <2>1
<1>8. Bytes' + Debt' + RawDebt' + 3 * EventReserve <= Limit /\ Bytes' + EventReserve <= Limit
  BY <1>3, <1>4, <1>6, <1>7
<1>9. Repairable'
  BY <1>1, <1>8, RoomyNext
<1>10. CASE pc' = [pc EXCEPT ![op] = "failed"]
  <2>1. pc'[op] = "failed"
    BY <1>1, <1>10 DEF TypeOK
  <2>2. Room(op)'
    BY <2>1 DEF Room, Budgeted
  <2>. QED
    BY <1>8, <1>9, <1>10, <2>2, RoomFrame
<1>11. CASE events' = Append(events, row) /\ pc' = [pc EXCEPT ![op] = place]
  <2>1. pc'[op] = place
    BY <1>1, <1>11 DEF TypeOK
  <2>2. Free(pc[op])' = Free(place) /\ Free(place) \in Int
    <3>1. Free(place)' = Free(place) /\ Free(place) \in Int
      BY <1>1, FreeTyped
    <3>2. Free(pc[op])' = Free(place)'
      BY <2>1 DEF Free
    <3>. QED
      BY <3>1, <3>2
  <2>3. Bytes' = Bytes + eventSize
    BY <1>1, <1>11, OneRowMore
  <2>4. place \in Budgeted => Bytes' + Free(pc[op])' <= Limit
    BY <2>2, <2>3
  <2>5. place \notin {"locked", "planned", "recovering", "ready"}
    BY DEF Budgeted, Returned
  <2>6. Room(op)'
    BY <2>1, <2>4, <2>5 DEF Room
  <2>. QED
    BY <1>8, <1>9, <1>11, <2>6, RoomFrame
<1>. QED
  BY <1>10, <1>11

(* What such a row leaves owed: a row at most where no request is open.        *)
LEMMA DebtAfter ==
    ASSUME IInv, IInv', SizesInv', eventSize' = eventSize
    PROVE  /\ Debt' \in Nat /\ Debt' <= 2 * eventSize
           /\ \A row \in Rows :
                 ~Open(events) /\ row.kind # "request_started"
                 /\ (events' = Append(events, row) \/ events' = events) => Debt' <= eventSize
<1>1. TypeOK /\ TypeOK' /\ eventSize \in Nat
  BY SizesArePositive DEF IInv, SizesInv
<1>2. Debt' \in Nat /\ Debt' <= 2 * eventSize
  BY <1>1 DEF Debt
<1>3. ASSUME NEW row \in Rows, ~Open(events), row.kind # "request_started",
             events' = Append(events, row) \/ events' = events
      PROVE  Debt' <= eventSize
  <2>1. ~Open(events')
    BY <1>1, <1>3, RowSays DEF TypeOK
  <2>. QED
    BY <1>1, <2>1 DEF Debt, NeedsFinish
<1>. QED
  BY <1>2, <1>3

LEMMA StartExecutionRoom ==
    ASSUME IInv, IInv', SizesInv, SizesInv', SmallRows, NEW op \in Operations,
           StartExecution(op), Bytes + EpochNeed <= Limit, UNCHANGED <<eventSize, base, rawBytes>>
    PROVE  RoomInv'
<1>. DEFINE row == Event("execution_started", op, FALSE, mem.ordinal, 0, 0)
<1>1. /\ pc[op] = "ready" /\ pc[op] \in Running /\ raw' = raw /\ rawTail' = rawTail /\ TypeOK
      /\ \/ events' = Append(events, row) /\ pc' = [pc EXCEPT ![op] = "epoch"]
         \/ /\ events' = Append(events, row) \/ events' = events
            /\ pc' = [pc EXCEPT ![op] = "failed"]
  BY DEF StartExecution, AppendEvent, Continue, Return, Goto, Running, IInv
<1>. HIDE DEF row
<1>2. ~rawTail
  BY <1>1, HolderMemory DEF MemoryInv
<1>3. /\ eventSize \in Nat /\ EventReserve \in Nat /\ RawReserve \in Nat /\ Limit \in Nat
      /\ Bytes \in Int /\ 4 * eventSize <= EventReserve
  BY <1>1, CostsTyped
<1>4. 2 * eventSize \in Nat /\ Debt' <= 2 * eventSize
  BY <1>3, DebtAfter
<1>5. Bytes + eventSize + 2 * eventSize + 3 * EventReserve <= Limit
  BY <1>3 DEF EpochNeed, AttemptNeed
<1>6. "epoch" \in Budgeted /\ Bytes + eventSize + Free("epoch") <= Limit
  BY <1>3 DEF EpochNeed, AttemptNeed, Free, Budgeted
<1>. QED
  BY <1>1, <1>2, <1>4, <1>5, <1>6, WriteLeavesRoom

LEMMA StartRequestRoom ==
    ASSUME IInv, IInv', SizesInv, SizesInv', SmallRows, NEW op \in Operations,
           StartRequest(op), Bytes + Larger(reserved, AttemptNeed) <= Limit,
           UNCHANGED <<eventSize, base, rawBytes>>
    PROVE  RoomInv'
<1>. DEFINE row == RequestStarted(op, mem.ordinal, mem.attempt, Len(raw))
<1>1. /\ pc[op] = "item" /\ pc[op] \in Running /\ raw' = raw /\ rawTail' = rawTail /\ TypeOK
      /\ \/ events' = Append(events, row) /\ pc' = [pc EXCEPT ![op] = "started"]
         \/ /\ events' = Append(events, row) \/ events' = events
            /\ pc' = [pc EXCEPT ![op] = "failed"]
  BY DEF StartRequest, AppendEvent, Continue, Return, Goto, Running, IInv
<1>. HIDE DEF row
<1>2. ~rawTail
  BY <1>1, HolderMemory DEF MemoryInv
<1>3. /\ eventSize \in Nat /\ EventReserve \in Nat /\ RawReserve \in Nat /\ Limit \in Nat
      /\ Bytes \in Int /\ 4 * eventSize <= EventReserve /\ EventReserve <= RawReserve
      /\ reserved \in Int
  BY <1>1, CostsTyped DEF SizesInv
<1>4. 2 * eventSize \in Nat /\ Debt' <= 2 * eventSize
  BY <1>3, DebtAfter
<1>5. Bytes + AttemptNeed <= Limit
  BY <1>3 DEF Larger, AttemptNeed
<1>6. Bytes + eventSize + 2 * eventSize + 3 * EventReserve <= Limit
  BY <1>3, <1>5 DEF AttemptNeed
<1>7. "started" \in Budgeted /\ Bytes + eventSize + Free("started") <= Limit
  BY <1>3, <1>5 DEF AttemptNeed, Free, Budgeted
<1>. QED
  BY <1>1, <1>2, <1>4, <1>6, <1>7, WriteLeavesRoom

LEMMA FinishRequestRoom ==
    ASSUME IInv, IInv', SizesInv, SizesInv', SmallRows, RoomInv, NEW op \in Operations,
           FinishRequest(op), UNCHANGED <<eventSize, base, rawBytes>>
    PROVE  RoomInv'
<1>. DEFINE row == RequestFinished(op, FALSE, Start(events))
<1>1. /\ pc[op] = "recorded" /\ pc[op] \in Running /\ raw' = raw /\ rawTail' = rawTail /\ TypeOK
      /\ \/ events' = Append(events, row) /\ pc' = [pc EXCEPT ![op] = "finished"]
         \/ /\ events' = Append(events, row) \/ events' = events
            /\ pc' = [pc EXCEPT ![op] = "failed"]
  BY DEF FinishRequest, AppendEvent, Continue, Return, Goto, Running, IInv
<1>. HIDE DEF row
<1>2. ~rawTail
  BY <1>1, HolderMemory DEF MemoryInv
<1>3. /\ eventSize \in Nat /\ EventReserve \in Nat /\ Limit \in Nat
      /\ Bytes \in Int /\ 4 * eventSize <= EventReserve
  BY <1>1, CostsTyped
<1>4. 2 * eventSize \in Nat /\ Debt' <= 2 * eventSize
  BY <1>3, DebtAfter
<1>5. Bytes + (4 * EventReserve - eventSize) <= Limit
  BY <1>1 DEF RoomInv, Room, Free, Budgeted
<1>6. Bytes + eventSize + 2 * eventSize + 3 * EventReserve <= Limit
  BY <1>3, <1>5
<1>7. "finished" \in Budgeted /\ Bytes + eventSize + Free("finished") <= Limit
  BY <1>3, <1>5 DEF Free, Budgeted
<1>. QED
  BY <1>1, <1>2, <1>4, <1>6, <1>7, WriteLeavesRoom

(* The rows an epoch ends with.                                                *)
LEMMA EndingRowRoom ==
    ASSUME IInv, IInv', SizesInv, SizesInv', SmallRows, RoomInv, NEW op \in Operations,
           MarkStop(op) \/ CompleteGeneration(op) \/ Interrupt(op) \/ Block(op),
           UNCHANGED <<eventSize, base, rawBytes>>
    PROVE  RoomInv'
<1>1. /\ pc[op] \in {"epoch", "item", "finished", "completing"} /\ pc[op] \in Running
      /\ raw' = raw /\ rawTail' = rawTail /\ TypeOK /\ MemoryInv(op)
  BY DEF MarkStop, CompleteGeneration, Interrupt, Block, AppendEvent, Running, IInv
<1>2. /\ ~Open(events) /\ ~rawTail
  BY <1>1 DEF MemoryInv, PositionIsNext
<1>3. PICK row \in Rows, place \in Returned :
         /\ row.kind # "request_started"
         /\ \/ events' = Append(events, row) /\ pc' = [pc EXCEPT ![op] = place]
            \/ /\ events' = Append(events, row) \/ events' = events
               /\ pc' = [pc EXCEPT ![op] = "failed"]
  <2>. DEFINE s == Start(events)
              marker == Marker(MarkerOf(mem.reason), op, FALSE, s)
              completed == GenerationCompleted(op, FALSE)
              interrupted == Event("execution_interrupted", op, FALSE, mem.ordinal, 0, 0)
              blocked == Event("execution_blocked", op, FALSE, 0, 0, 0)
              Ends(row, place) ==
                  \/ events' = Append(events, row) /\ pc' = [pc EXCEPT ![op] = place]
                  \/ /\ events' = Append(events, row) \/ events' = events
                     /\ pc' = [pc EXCEPT ![op] = "failed"]
  <2>1. /\ completed \in Rows /\ interrupted \in Rows /\ blocked \in Rows
        /\ completed.kind # "request_started" /\ interrupted.kind # "request_started"
        /\ blocked.kind # "request_started"
    BY HolderMemory DEF GenerationCompleted, Event, Rows
  <2>2. MarkStop(op) => marker \in Rows /\ marker.kind # "request_started"
    <3>1. MarkStop(op) => pc[op] = "finished"
             /\ MarkerOf(mem.reason) \in {"authentication_stopped", "delivery_ambiguous"}
      BY DEF MarkStop, MarkerOf
    <3>2. MarkStop(op) => s \in Rows
      BY <1>1, <3>1, LastRow DEF MemoryInv, IInv, StartIsMine
    <3>. QED
      BY <3>1, <3>2, HolderMemory DEF Marker, Event, Rows
  <2>3. /\ MarkStop(op) => Ends(marker, "operational_stop")
        /\ CompleteGeneration(op) => Ends(completed, "complete")
        /\ Interrupt(op) => Ends(interrupted, "operational_stop")
        /\ Block(op) => Ends(blocked, "operational_stop")
    BY DEF MarkStop, CompleteGeneration, Interrupt, Block, AppendEvent, Return, Goto
  <2>. HIDE DEF marker, completed, interrupted, blocked
  <2>. QED
    BY <2>1, <2>2, <2>3 DEF Returned
<1>4. /\ eventSize \in Nat /\ EventReserve \in Nat /\ Limit \in Nat
      /\ Bytes \in Int /\ 4 * eventSize <= EventReserve
  BY <1>1, CostsTyped
<1>5. Debt' <= eventSize
  BY <1>2, <1>3, DebtAfter
<1>6. Bytes + (4 * EventReserve - 2 * eventSize) <= Limit
  BY <1>1 DEF RoomInv, Room, Free, Budgeted
<1>7. Bytes + eventSize + eventSize + 3 * EventReserve <= Limit
  BY <1>4, <1>6
<1>8. place \notin Budgeted
  BY DEF Budgeted, Returned
<1>. QED
  BY <1>1, <1>2, <1>3, <1>4, <1>5, <1>7, <1>8, WriteLeavesRoom

(* The raw row of an attempt, which its epoch left room for, or a part of it.  *)
LEMMA RawBytesGrow ==
    ASSUME TypeOK, SizesInv, NEW more \in Nat, rawBytes' = rawBytes + more,
           UNCHANGED <<events, eventSize, base>>
    PROVE  Bytes' = Bytes + more
<1>1. PICK m \in Int : m = base + eventSize * Len(events)
  BY BytesTyped DEF SizesInv
<1>2. Bytes = m + rawBytes /\ Bytes' = m + (rawBytes + more) /\ rawBytes \in Nat
  BY <1>1 DEF Bytes, SizesInv
<1>. QED
  BY <1>2

LEMMA AppendAttemptRoom ==
    ASSUME IInv, IInv', SizesInv, SizesInv', SmallRows, RoomInv, NEW op \in Operations,
           AppendAttempt(op), eventSize' = eventSize
    PROVE  RoomInv'
<1>1. PICK size \in RawSizes : rawBytes' = IF raw' = raw THEN rawBytes ELSE rawBytes + size
  BY DEF AppendAttempt
<1>2. /\ pc[op] = "answered" /\ pc[op] \in Running /\ events' = events
      /\ eventTail' = eventTail /\ base' = base /\ TypeOK /\ TypeOK' /\ SmallRows'
      /\ \E row : \/ /\ raw' = Append(raw, row) /\ rawTail' = rawTail
                     /\ \/ pc' = [pc EXCEPT ![op] = "recorded"]
                        \/ pc' = [pc EXCEPT ![op] = "failed"]
                  \/ raw' = raw /\ pc' = [pc EXCEPT ![op] = "failed"]
  BY DEF AppendAttempt, RecordAttempt, AppendRaw, Continue, Return, Goto, Running, IInv, SmallRows
<1>3. ~rawTail
  BY <1>2, HolderMemory DEF MemoryInv
<1>4. /\ eventSize \in Nat /\ EventReserve \in Nat /\ RawReserve \in Nat /\ Limit \in Nat
      /\ Bytes \in Int /\ 4 * eventSize <= EventReserve /\ EventReserve <= RawReserve
      /\ size \in Nat /\ size <= RawReserve
  BY <1>2, CostsTyped, RowsAreLegal
<1>5. Bytes + (4 * EventReserve + RawReserve - eventSize) <= Limit
  BY <1>2 DEF RoomInv, Room, Free, Budgeted
<1>6. PICK d \in Nat : d = Debt' /\ d <= 2 * eventSize
  BY <1>4, DebtAfter
<1>7. CASE raw' # raw
  <2>1. Bytes' = Bytes + size
    BY <1>1, <1>2, <1>4, <1>7, RawBytesGrow
  <2>2. rawTail' = rawTail
    BY <1>2, <1>7
  <2>3. RawDebt' = 0
    BY <1>3, <2>2 DEF RawDebt
  <2>4. PICK b \in Int : b = Bytes' /\ b = Bytes + size
    BY <1>4, <2>1
  <2>5. /\ b + d + 0 + 3 * EventReserve <= Limit /\ b + EventReserve <= Limit
        /\ b + (4 * EventReserve - eventSize) <= Limit
    <3>1. d <= 2 * eventSize /\ b = Bytes + size
      BY <1>6, <2>4
    <3>. QED
      BY <1>4, <1>5, <3>1
  <2>6. Bytes' + Debt' + RawDebt' + 3 * EventReserve <= Limit /\ Bytes' + EventReserve <= Limit
    BY <1>6, <2>3, <2>4, <2>5
  <2>7. Repairable'
    BY <1>2, <2>6, RoomyNext
  <2>8. PICK place \in {"recorded", "failed"} : pc' = [pc EXCEPT ![op] = place]
    BY <1>2
  <2>9. pc'[op] = place
    BY <1>2, <2>8 DEF TypeOK
  <2>10. place = "recorded" => Bytes' + Free(pc[op])' <= Limit
    <3>1. Free("recorded") = 4 * EventReserve - eventSize
      BY DEF Free
    <3>2. place = "recorded" => Free(pc[op])' = Free("recorded")
      <4>1. Free("recorded")' = Free("recorded")
        BY <1>2, FreeTyped
      <4>2. place = "recorded" => Free(pc[op])' = Free("recorded")'
        BY <2>9 DEF Free
      <4>. QED
        BY <4>1, <4>2
    <3>3. Bytes' + (4 * EventReserve - eventSize) <= Limit
      BY <2>4, <2>5
    <3>. QED
      BY <3>1, <3>2, <3>3
  <2>11. Room(op)'
    BY <2>9, <2>10 DEF Room, Budgeted
  <2>. QED
    BY <1>2, <2>6, <2>7, <2>8, <2>11, RoomFrame
<1>8. CASE raw' = raw
  <2>1. pc' = [pc EXCEPT ![op] = "failed"]
    <3>1. \A row : Append(raw, row) # raw
      <4>1. \A row : Len(Append(raw, row)) # Len(raw)
        <5>. SUFFICES ASSUME NEW row PROVE Len(Append(raw, row)) # Len(raw)
          OBVIOUS
        <5>1. raw \in Seq(RawRows \cup {row})
          BY <1>2 DEF TypeOK
        <5>. QED
          BY <5>1
      <4>. QED
        BY <4>1
    <3>. QED
      BY <1>2, <1>8, <3>1
  <2>2. Bytes' = Bytes
    <3>1. rawBytes' = rawBytes
      BY <1>1, <1>8
    <3>. QED
      BY <1>2, <3>1, SameBytes
  <2>3. PICK r \in Nat : r = RawDebt' /\ r <= EventReserve
    BY <1>4 DEF RawDebt
  <2>4. Bytes + d + r + 3 * EventReserve <= Limit /\ Bytes + EventReserve <= Limit
    <3>1. d <= 2 * eventSize /\ r <= EventReserve
      BY <1>6, <2>3
    <3>. QED
      BY <1>4, <1>5, <3>1
  <2>5. Bytes' + Debt' + RawDebt' + 3 * EventReserve <= Limit /\ Bytes' + EventReserve <= Limit
    BY <1>6, <2>2, <2>3, <2>4
  <2>6. Repairable'
    BY <1>2, <2>5, RoomyNext
  <2>7. pc'[op] = "failed"
    BY <1>2, <2>1 DEF TypeOK
  <2>8. Room(op)'
    BY <2>7 DEF Room, Budgeted
  <2>. QED
    BY <1>2, <2>1, <2>5, <2>6, <2>8, RoomFrame
<1>. QED
  BY <1>7, <1>8

(* Steps of an epoch that write nothing.                                       *)
LEMMA SilentRoom ==
    ASSUME IInv, SizesInv, SmallRows, RoomInv, NEW op \in Operations,
           \/ BindProvider(op) \/ CallProvider(op) \/ ProviderReturns(op) \/ Backoff(op)
           \/ NextItem(op),
           UNCHANGED <<eventSize, base, rawBytes>>
    PROVE  RoomInv'
<1>1. /\ UNCHANGED ledgers /\ lock' = lock
      /\ \/ pc[op] = "epoch" /\ pc' = [pc EXCEPT ![op] = "item"]
         \/ pc[op] = "started" /\ pc' = [pc EXCEPT ![op] = "calling"]
         \/ pc[op] = "calling" /\ pc' = [pc EXCEPT ![op] = "answered"]
         \/ pc[op] = "finished" /\ pc' = [pc EXCEPT ![op] = "item"]
         \/ pc[op] = "finished" /\ pc' = [pc EXCEPT ![op] = "completing"]
  BY DEF BindProvider, CallProvider, ProviderReturns, Backoff, NextItem, Continue, Goto
<1>2. PICK place \in {"item", "calling", "answered", "completing"} :
         /\ pc' = [pc EXCEPT ![op] = place] /\ pc[op] \in Budgeted /\ pc[op] \in Running
         /\ Free(place) = Free(pc[op])
  BY <1>1 DEF Budgeted, Running, Free
<1>3. lock = op /\ lock' # NoOperation /\ TypeOK
  BY <1>1, <1>2, NoOperationIsFresh DEF IInv, SingleMutator
<1>4. pc'[op] = place
  BY <1>2, <1>3 DEF TypeOK
<1>5. events' = events /\ raw' = raw /\ Bytes' = Bytes
  BY <1>1, SameBytes DEF ledgers
<1>6. Free(pc[op])' = Free(pc[op])
  <2>1. Free(place)' = Free(place)
    BY <1>3, FreeTyped
  <2>2. Free(pc[op])' = Free(place)'
    BY <1>4 DEF Free
  <2>. QED
    BY <1>2, <2>1, <2>2
<1>7. Bytes + Free(pc[op]) <= Limit /\ Bytes + EventReserve <= Limit
  BY <1>2 DEF RoomInv, Room
<1>8. Bytes' + Free(pc[op])' <= Limit /\ Bytes' + EventReserve <= Limit
  BY <1>5, <1>6, <1>7
<1>9. Room(op)'
  BY <1>4, <1>8 DEF Room
<1>. QED
  BY <1>2, <1>3, <1>8, <1>9, RoomFrame

(* Whatever ends an operation without a row.                                   *)
LEMMA SilentEndRoom ==
    ASSUME IInv, SizesInv, SmallRows, RoomInv, NEW op \in Operations,
           RefuseRuntime(op) \/ LeaveAmbiguous(op) \/ Fail(op),
           UNCHANGED <<eventSize, base, rawBytes>>
    PROVE  RoomInv'
<1>1. /\ pc[op] \in Running /\ UNCHANGED ledgers
      /\ \E place \in Returned : pc' = [pc EXCEPT ![op] = place]
  BY DEF RefuseRuntime, LeaveAmbiguous, Fail, Return, Goto, Running, Returned
<1>. QED
  BY <1>1, ReturnLeavesRoom

-----------------------------------------------------------------------------
(* Room for repairs: the invariant *)

LEMMA RepairNext == IInv /\ RepairInv /\ [Next]_vars => RepairInv'
<1>. SUFFICES ASSUME IInv, RepairInv, [Next]_vars PROVE RepairInv'
  OBVIOUS
<1>1. CASE Next
  BY <1>1, StepRepairs DEF Next
<1>2. CASE UNCHANGED vars
  <2>1. /\ events' = events /\ raw' = raw /\ eventTail' = eventTail /\ rawTail' = rawTail
        /\ lock' = lock /\ pc' = pc /\ mem' = mem /\ calls' = calls
    BY <1>2 DEF vars, ledgers
  <2>2. TerminalRowsEnd' /\ AlwaysRepairable' /\ CompleteReportIsTrue'
    BY <2>1 DEF RepairInv, TerminalRowsEnd, AlwaysRepairable, CompleteReportIsTrue,
       TerminalMarkerCommitted, Done
  <2>3. ASSUME NEW op \in Operations PROVE RepairMemory(op)'
    BY <2>1, SamePlan DEF RepairInv, RepairMemory
  <2>. QED
    BY <2>2, <2>3 DEF RepairInv
<1>. QED
  BY <1>1, <1>2

LEMMA RoomInit == CInit => RoomInv
<1>. SUFFICES ASSUME CInit PROVE RoomInv
  OBVIOUS
<1>1. /\ Init /\ events = <<Prepared>> /\ Len(events) = 1 /\ ~eventTail /\ ~rawTail
      /\ raw = <<>> /\ rawBytes = 0 /\ \A op \in Operations : pc[op] = "new"
  BY DEF CInit, Init
<1>2. TypeOK /\ SizesInv
  BY <1>1, InitInv, CapacityInit DEF IInv, CapacityInv
<1>3. PICK room \in Headrooms : base = Limit - room - eventSize
  BY DEF CInit
<1>4. room \in Nat /\ EventReserve <= room /\ Limit \in Nat /\ eventSize \in Nat
      /\ EventReserve \in Nat
  BY <1>2, CostsTyped, PreparedFits
<1>5. eventSize * Len(events) = eventSize
  BY <1>1, <1>4, Multiples
<1>6. Bytes + EventReserve <= Limit
  <2>1. Bytes = base + eventSize + 0
    BY <1>1, <1>5 DEF Bytes
  <2>. QED
    BY <1>3, <1>4, <2>1
<1>7. ~Owes
  <2>1. ~RequestHistory(events)
    <3>1. events[1].kind = "prepared"
      BY <1>1 DEF Prepared, Event
    <3>2. IsLast(events, {"request_started"}, 0)
      BY <1>1, <3>1 DEF IsLast
    <3>. QED
      BY <1>2, <3>2, LastIsIt DEF TypeOK, RequestHistory, LastStart
  <2>2. Reason(events, raw) = "missing" /\ NextOrdinal(events, raw) = 0
    BY <2>1 DEF Reason, HasRaw, NextOrdinal
  <2>. QED
    BY <1>1, <2>1, <2>2, PlanIsNotEmpty
       DEF Owes, NeedsRepair, NeedsFinish, NeedsMarker, NeedsCompletion, HasRaw, MarkerOf
<1>8. Repairable /\ \A op \in Operations : Room(op)
  BY <1>1, <1>7 DEF Repairable, Room, Budgeted
<1>. QED
  BY <1>6, <1>8 DEF RoomInv

LEMMA RoomNext ==
    ASSUME IInv, RepairInv, CapacityInv, SmallRows, RoomInv, [CNext]_cvars
    PROVE  RoomInv'
<1>1. /\ SizesInv /\ SizesInv' /\ IInv' 
  BY CapacityNext, CapacityStepIsAStep, NextInv DEF CapacityInv
<1>2. ASSUME NEW op \in Operations, CStep(op), eventSize' = eventSize PROVE RoomInv'
  <2>1. CASE (AcquireLock(op) \/ PlanRecovery(op) \/ BeginRepair(op) \/ TruncateEvents(op)
              \/ TruncateRaw(op) \/ AppendRecovered(op) \/ FinishRepair(op)) /\ Keep
    <3>1. UNCHANGED <<eventSize, base, rawBytes>>
      BY <1>2, <2>1 DEF Keep
    <3>2. CASE AcquireLock(op)
      BY <1>1, <3>1, <3>2, AcquireLockRoom
    <3>3. CASE PlanRecovery(op)
      BY <1>1, <3>1, <3>3, PlanRecoveryRoom
    <3>4. CASE BeginRepair(op)
      BY <1>1, <3>1, <3>4, BeginRepairRoom
    <3>5. CASE TruncateEvents(op) \/ TruncateRaw(op)
      BY <1>1, <3>1, <3>5, TruncateRoom
    <3>6. CASE AppendRecovered(op)
      BY <1>1, <3>1, <3>6, AppendRecoveredRoom
    <3>7. CASE FinishRepair(op)
      BY <1>1, <3>1, <3>7, FinishRepairRoom
    <3>. QED
      BY <2>1, <3>2, <3>3, <3>4, <3>5, <3>6, <3>7
  <2>2. CASE (BindProvider(op) \/ CallProvider(op) \/ ProviderReturns(op) \/ Backoff(op)) /\ Keep
    <3>1. UNCHANGED <<eventSize, base, rawBytes>>
      BY <1>2, <2>2 DEF Keep
    <3>. QED
      BY <1>1, <2>2, <3>1, SilentRoom
  <2>3. CASE Release(op)
    <3>1. NextItem(op) /\ UNCHANGED <<eventSize, base, rawBytes>>
      BY <1>2, <2>3 DEF Release
    <3>. QED
      BY <1>1, <3>1, SilentRoom
  <2>4. CASE RefuseRuntime(op) /\ Keep
    <3>1. UNCHANGED <<eventSize, base, rawBytes>>
      BY <1>2, <2>4 DEF Keep
    <3>. QED
      BY <1>1, <2>4, <3>1, SilentEndRoom
  <2>5. CASE StartExecution(op) /\ Bytes + EpochNeed <= Limit /\ UNCHANGED <<base, rawBytes>>
    BY <1>1, <1>2, <2>5, StartExecutionRoom
  <2>6. CASE /\ StartRequest(op) /\ Bytes + Larger(reserved, AttemptNeed) <= Limit
             /\ UNCHANGED <<base, rawBytes>>
    BY <1>1, <1>2, <2>6, StartRequestRoom
  <2>7. CASE AppendAttempt(op)
    BY <1>1, <1>2, <2>7, AppendAttemptRoom
  <2>8. CASE (FinishRequest(op) \/ MarkStop(op) \/ CompleteGeneration(op) \/ Stop(op) \/ Fail(op))
             /\ UNCHANGED <<base, rawBytes>>
    <3>1. CASE FinishRequest(op)
      BY <1>1, <1>2, <2>8, <3>1, FinishRequestRoom
    <3>2. CASE MarkStop(op) \/ CompleteGeneration(op) \/ Interrupt(op) \/ Block(op)
      BY <1>1, <1>2, <2>8, <3>2, EndingRowRoom
    <3>3. CASE LeaveAmbiguous(op) \/ Fail(op)
      BY <1>1, <1>2, <2>8, <3>3, SilentEndRoom
    <3>. QED
      BY <2>8, <3>1, <3>2, <3>3 DEF Stop
  <2>. QED
    BY <1>2, <2>1, <2>2, <2>3, <2>4, <2>5, <2>6, <2>7, <2>8 DEF CStep
<1>3. CASE UNCHANGED cvars
  <2>1. /\ events' = events /\ eventTail' = eventTail /\ raw' = raw /\ rawTail' = rawTail
        /\ lock' = lock /\ pc' = pc /\ mem' = mem
        /\ UNCHANGED <<eventSize, base, rawBytes>>
    BY <1>3 DEF cvars, vars, ledgers
  <2>2. /\ Debt' = Debt /\ Bytes' = Bytes /\ (Owes' <=> Owes) /\ ToCome' = ToCome
        /\ RawDebt' = RawDebt /\ Crashes' = Crashes
    BY <2>1, SameDebt DEF Owes, ToCome, Coming, RawDebt, Crashes
  <2>3. RepairNeed' = RepairNeed /\ RepeatNeed' = RepeatNeed
    BY <2>2 DEF RepairNeed, RepeatNeed
  <2>4. (Fits' <=> Fits) /\ (Repairable' <=> Repairable)
    BY <2>2, <2>3 DEF Fits, Repairable
  <2>5. ASSUME NEW op \in Operations PROVE Room(op)'
    <3>1. RecoveryPlan(op)' = RecoveryPlan(op)
      BY <2>1, SamePlanOfRepair DEF ledgers
    <3>2. Free(pc[op])' = Free(pc[op])
      BY <2>1 DEF Free
    <3>3. Room(op)
      BY DEF RoomInv
    <3>. QED
      BY <2>1, <2>2, <2>3, <2>4, <3>1, <3>2, <3>3 DEF Room
  <2>. QED
    BY <2>1, <2>2, <2>4, <2>5 DEF RoomInv
<1>. QED
  BY <1>2, <1>3 DEF CNext

(* Whatever died wherever, in an epoch or in a repair, and however often: the  *)
(* repair of what it left is planned within the limit, with a reserve for a    *)
(* seal request, so that no crash makes a capsule unrecoverable                *)
(* (plan_journal_recovery, recovery_appends_fit), while event rows are small   *)
(* beside the largest legal one.                                               *)
THEOREM RepairsFit == CSpec => []RepairFits
<1>. DEFINE Inv == IInv /\ RepairInv /\ CapacityInv /\ (SmallRows => RoomInv)
<1>1. CInit => Inv
  <2>1. CInit => Init
    BY DEF CInit
  <2>. QED
    BY <2>1, InitInv, InitRepairs, CapacityInit, RoomInit
<1>2. Inv /\ [CNext]_cvars => Inv'
  <2>. SUFFICES ASSUME IInv, RepairInv, CapacityInv, SmallRows => RoomInv, [CNext]_cvars
                PROVE  Inv'
    OBVIOUS
  <2>1. IInv' /\ RepairInv' /\ CapacityInv'
    BY CapacityStepIsAStep, NextInv, RepairNext, CapacityNext
  <2>2. SmallRows' => SmallRows
    <3>1. eventSize' = eventSize
      BY DEF CNext, cvars
    <3>. QED
      BY <3>1 DEF SmallRows
  <2>3. SmallRows' => RoomInv'
    BY <2>2, RoomNext
  <2>. QED
    BY <2>1, <2>3
<1>3. Inv => RepairFits
  <2>. SUFFICES ASSUME IInv, CapacityInv, SmallRows => RoomInv, lock = NoOperation,
                       Larger(4, Cardinality(Operations)) * eventSize <= EventReserve,
                       NEW op \in Operations
                PROVE  PlanFits(op)
    BY DEF RepairFits
  <2>1. TypeOK /\ LedgerInv /\ SizesInv
    BY DEF IInv, CapacityInv
  <2>2. SmallRows
    <3>1. PICK n \in Nat : n = Cardinality(Operations)
      BY OperationsAreFew, FS_CardinalityType
    <3>2. PICK m \in Nat : m = Larger(4, n) /\ 4 <= m /\ n <= m
      BY DEF Larger
    <3>3. eventSize \in Nat /\ EventReserve \in Nat
      BY <2>1, CostsTyped
    <3>4. m * eventSize = eventSize * m /\ 4 * eventSize = eventSize * 4
      BY <3>2, <3>3
    <3>5. eventSize * n <= eventSize * m /\ eventSize * 4 <= eventSize * m
      BY <3>2, <3>3, Multiples
    <3>6. /\ eventSize * m <= EventReserve /\ eventSize * n \in Nat /\ eventSize * m \in Nat
          /\ eventSize * 4 \in Nat
      BY <3>1, <3>2, <3>3, <3>4, Multiples
    <3>7. eventSize * n <= EventReserve /\ eventSize * 4 <= EventReserve
      BY <3>3, <3>5, <3>6
    <3>. QED
      BY <3>1, <3>4, <3>7 DEF SmallRows
  <2>3. Bytes + EventReserve <= Limit /\ (Owes => RepairNeed <= Limit)
    BY <2>2 DEF RoomInv, Repairable, Fits
  <2>. QED
    BY <2>1, <2>3, RepairablePlanFits
<1>. QED
  BY <1>1, <1>2, <1>3, PTL DEF CSpec
=============================================================================
