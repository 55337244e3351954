------------------------ MODULE CapsuleJournalProofs ------------------------
(* Theorems about CapsuleJournal for every number of operations, plan items    *)
(* and retries.  The invariant IInv below is inductive; the safety properties  *)
(* follow from it.                                                             *)
EXTENDS CapsuleJournal, SequenceTheorems, TLAPS

-----------------------------------------------------------------------------
(* The inductive invariant *)

HasLast(ev, kinds) == \E i \in 0 .. Len(ev) : IsLast(ev, kinds, i)
Starts == {"request_started"}
Requests == {"request_started", "request_finished"}
Completions == {"generation_completed"}

(* The rows that Start, Open and Completed look for exist, or position 0 does. *)
LastsExist ==
    HasLast(events, Starts) /\ HasLast(events, Requests) /\ HasLast(events, Completions)

StartsAreAttempts ==
    \A i \in 1 .. Len(events) : events[i].kind = "request_started" => events[i].attempt # 0

(* The last start announces the last call or the next one; the raw rows are    *)
(* complete up to it or it is the one attempt whose row is missing.            *)
StartIsCurrent ==
    IF RequestHistory(events)
    THEN /\ Start(events).call \in {Len(raw), Len(raw) - 1}
         /\ Len(calls) \in {Start(events).call, Start(events).call + 1}
         /\ Len(calls) = Start(events).call + 1 =>
                /\ calls[Len(calls)].item = Start(events).item
                /\ calls[Len(calls)].attempt = Start(events).attempt
         /\ ~Open(events) => HasRaw(events, raw)
    ELSE raw = <<>> /\ calls = <<>>

RawIsLearnt ==
    \A n \in 1 .. Len(raw) :
        /\ calls[n].learnt # "in_flight"
        /\ raw[n].reason = "none" => raw[n].attempt <= MaxTransientRetries

CallsAscend ==
    \A i, j \in 1 .. Len(calls) : i < j => calls[i].item <= calls[j].item

ItemsBeforeAreResolved ==
    \A item \in Ordinals : item < NextOrdinal(events, raw) =>
        \E n \in 1 .. Len(raw) : raw[n].item = item /\ raw[n].reason \in Resolved

LedgerInv ==
    /\ LastsExist
    /\ StartsAreAttempts
    /\ StartIsCurrent
    /\ RawIsLearnt
    /\ CallsAscend
    /\ ItemsBeforeAreResolved
    /\ RawRowsAreCalls
    /\ CallsAreAnnounced
    /\ CallsFollowThePlan
    /\ NoCallAfterPossibleDelivery
    /\ CompletionIsEarned

(* An item and attempt that may be asked for after the calls made so far.      *)
MayAsk(item, attempt) ==
    /\ \A i \in 1 .. Len(calls) :
          /\ calls[i].learnt \in {"refused", "received"}
          /\ calls[i].item <= item
          /\ calls[i].item = item => calls[i].learnt = "refused"
    /\ IF calls = <<>> THEN item = 0 /\ attempt = 1
       ELSE \/ item = calls[Len(calls)].item /\ attempt = calls[Len(calls)].attempt + 1
            \/ item = calls[Len(calls)].item + 1 /\ attempt = 1

(* Rows that the ledgers call for: what a recovery plan still holds.           *)
OwedRows ==
    { row \in Rows :
        /\ row.kind # "request_started"
        /\ row.kind = "request_finished" => HasRaw(events, raw)
        /\ row.kind = "generation_completed" => NextOrdinal(events, raw) = PlanLength }
TodoIsOwed == mem.todo \in Seq(OwedRows)

PositionIsNext ==
    /\ ~Open(events)
    /\ RequestHistory(events) => Reason(events, raw) \in Resolved \cup {"none"}
    /\ mem.ordinal = NextOrdinal(events, raw)
    /\ mem.attempt = NextAttempt(events, raw)

StartIsMine ==
    /\ RequestHistory(events)
    /\ mem.ordinal = Start(events).item
    /\ mem.attempt = Start(events).attempt

AnswerIsKept ==
    LET c == calls[Len(calls)]
    IN  /\ c.learnt # "in_flight"
        /\ mem.reason \in Reasons
        /\ mem.reason = "none" => c.learnt = "refused" /\ mem.attempt <= MaxTransientRetries
        /\ mem.reason = "success" => c.learnt = "received"
        /\ mem.reason = "ambiguous_delivery" <=> c.learnt = "unknown"

(* What the holder of the lock knows at each place.                            *)
MemoryInv(op) ==
    /\ pc[op] \in {"planned", "recovering"} => TodoIsOwed
    /\ pc[op] \in {"ready", "epoch", "item", "started", "calling", "answered",
                   "recorded", "finished", "completing"} => ~eventTail /\ ~rawTail
    /\ pc[op] \in {"ready", "epoch", "item"} => PositionIsNext
    /\ pc[op] \in {"started", "calling", "answered"} =>
          StartIsMine /\ Open(events) /\ ~HasRaw(events, raw)
    /\ pc[op] = "started" =>
          Len(calls) = Len(raw) /\ MayAsk(mem.ordinal, mem.attempt)
    /\ pc[op] \in {"calling", "answered"} => Len(calls) = Len(raw) + 1
    /\ pc[op] = "answered" => AnswerIsKept
    /\ pc[op] \in {"recorded", "finished", "completing"} =>
          StartIsMine /\ HasRaw(events, raw) /\ Reason(events, raw) = mem.reason
    /\ pc[op] \in {"finished", "completing"} => ~Open(events)
    /\ pc[op] = "completing" => mem.reason \in Resolved /\ mem.ordinal = PlanLength - 1

IInv ==
    /\ TypeOK
    /\ SingleMutator
    /\ LedgerInv
    /\ \A op \in Operations : MemoryInv(op)

-----------------------------------------------------------------------------
(* Lemmas about positions in the event ledger *)

LEMMA LastIsUnique ==
    ASSUME NEW ev \in Seq(Rows), NEW K, NEW i, NEW j, IsLast(ev, K, i), IsLast(ev, K, j)
    PROVE  i = j
<1>. Len(ev) \in Nat
  OBVIOUS
<1>1. ~(i < j)
  BY DEF IsLast
<1>2. ~(j < i)
  BY DEF IsLast
<1>. QED
  BY <1>1, <1>2 DEF IsLast

LEMMA LastIsIt ==
    ASSUME NEW ev \in Seq(Rows), NEW K, NEW i, IsLast(ev, K, i)
    PROVE  Last(ev, K) = i
<1>. i \in 0 .. Len(ev)
  BY DEF IsLast
<1>. QED
  BY LastIsUnique DEF Last

LEMMA LastIsLast ==
    ASSUME NEW ev \in Seq(Rows), NEW K, HasLast(ev, K)
    PROVE  IsLast(ev, K, Last(ev, K))
BY LastIsIt DEF HasLast

(* A new row of a kind looked for is the last one; another leaves the last     *)
(* where it was.                                                               *)
LEMMA LastOfAppend ==
    ASSUME NEW ev \in Seq(Rows), NEW row \in Rows, NEW K, HasLast(ev, K)
    PROVE  /\ HasLast(Append(ev, row), K)
           /\ row.kind \in K => Last(Append(ev, row), K) = Len(ev) + 1
           /\ row.kind \notin K => Last(Append(ev, row), K) = Last(ev, K)
<1>. DEFINE new == Append(ev, row)
<1>1. /\ new \in Seq(Rows) /\ Len(new) = Len(ev) + 1 /\ Len(ev) \in Nat
      /\ new[Len(ev) + 1] = row
      /\ \A i \in 1 .. Len(ev) : new[i] = ev[i]
  OBVIOUS
<1>2. CASE row.kind \in K
  <2>1. IsLast(new, K, Len(ev) + 1)
    BY <1>1, <1>2 DEF IsLast
  <2>2. Last(new, K) = Len(ev) + 1
    BY <1>1, <2>1, LastIsIt
  <2>3. HasLast(new, K)
    BY <1>1, <2>1 DEF HasLast
  <2>. QED
    BY <1>2, <2>2, <2>3
<1>3. CASE row.kind \notin K
  <2>1. IsLast(ev, K, Last(ev, K))
    BY LastIsLast
  <2>2. IsLast(new, K, Last(ev, K))
    <3>. DEFINE l == Last(ev, K)
    <3>. HIDE DEF new
    <3>1. l \in 0 .. Len(ev) /\ (l > 0 => ev[l].kind \in K)
      BY <2>1 DEF IsLast
    <3>2. l > 0 => new[l].kind \in K
      BY <1>1, <3>1
    <3>3. \A j \in l + 1 .. Len(new) : new[j].kind \notin K
      BY <1>1, <1>3, <2>1, <3>1 DEF IsLast
    <3>. QED
      BY <1>1, <3>1, <3>2, <3>3 DEF IsLast
  <2>3. Last(new, K) = Last(ev, K)
    BY <1>1, <2>2, LastIsIt
  <2>4. HasLast(new, K)
    BY <1>1, <2>2 DEF HasLast, IsLast
  <2>. QED
    BY <1>3, <2>3, <2>4
<1>. QED
  BY <1>2, <1>3

(* The last start, and what the position is computed from, as rows arrive.     *)
LEMMA StartIsStart ==
    ASSUME NEW ev \in Seq(Rows), HasLast(ev, Starts), RequestHistory(ev)
    PROVE  /\ LastStart(ev) \in 1 .. Len(ev)
           /\ Start(ev) \in Rows
           /\ Start(ev).kind = "request_started"
<1>1. IsLast(ev, Starts, LastStart(ev)) /\ LastStart(ev) # 0
  BY LastIsLast DEF LastStart, RequestHistory, Starts
<1>2. LastStart(ev) \in 1 .. Len(ev)
  BY <1>1 DEF IsLast
<1>. QED
  BY <1>1, <1>2 DEF IsLast, Start, Starts

LEMMA AppendStart ==
    ASSUME NEW ev \in Seq(Rows), NEW row \in Rows, HasLast(ev, Starts),
           HasLast(ev, Requests), row.kind = "request_started"
    PROVE  /\ RequestHistory(Append(ev, row))
           /\ Start(Append(ev, row)) = row
           /\ Open(Append(ev, row))
<1>1. /\ Last(Append(ev, row), Starts) = Len(ev) + 1
      /\ Last(Append(ev, row), Requests) = Len(ev) + 1
  BY LastOfAppend DEF Starts, Requests
<1>2. /\ Len(ev) + 1 # 0
      /\ Append(ev, row)[Len(ev) + 1] = row
  OBVIOUS
<1>. QED
  BY <1>1, <1>2 DEF RequestHistory, LastStart, Start, Open, Starts, Requests

LEMMA AppendNoStart ==
    ASSUME NEW ev \in Seq(Rows), NEW row \in Rows, HasLast(ev, Starts),
           HasLast(ev, Requests), row.kind # "request_started"
    PROVE  /\ RequestHistory(Append(ev, row)) = RequestHistory(ev)
           /\ RequestHistory(ev) => Start(Append(ev, row)) = Start(ev)
           /\ row.kind = "request_finished" => ~Open(Append(ev, row))
           /\ row.kind # "request_finished" => Open(Append(ev, row)) = Open(ev)
<1>1. Last(Append(ev, row), Starts) = Last(ev, Starts)
  BY LastOfAppend DEF Starts
<1>2. RequestHistory(ev) => LastStart(ev) \in 1 .. Len(ev)
  BY StartIsStart
<1>3. RequestHistory(Append(ev, row)) = RequestHistory(ev)
  BY <1>1 DEF RequestHistory, LastStart, Starts
<1>4. RequestHistory(ev) => Start(Append(ev, row)) = Start(ev)
  BY <1>1, <1>2 DEF LastStart, Start, Starts
<1>5. ASSUME row.kind = "request_finished" PROVE ~Open(Append(ev, row))
  <2>1. Last(Append(ev, row), Requests) = Len(ev) + 1
    BY <1>5, LastOfAppend DEF Requests
  <2>2. ASSUME RequestHistory(ev) PROVE LastStart(Append(ev, row)) # Len(ev) + 1
    BY <1>1, <1>2, <2>2 DEF LastStart, Starts
  <2>. QED
    BY <1>3, <2>1, <2>2 DEF Open, Requests
<1>6. ASSUME row.kind # "request_finished" PROVE Open(Append(ev, row)) = Open(ev)
  <2>1. Last(Append(ev, row), Requests) = Last(ev, Requests)
    BY <1>6, LastOfAppend DEF Requests
  <2>. QED
    BY <1>1, <1>3, <2>1 DEF Open, LastStart, Starts, Requests
<1>. QED
  BY <1>3, <1>4, <1>5, <1>6

(* The position depends on the event ledger only through its last start.       *)
LEMMA SameStart ==
    ASSUME NEW ev, NEW new, NEW rw, RequestHistory(new) = RequestHistory(ev),
           RequestHistory(ev) => Start(new) = Start(ev)
    PROVE  /\ HasRaw(new, rw) = HasRaw(ev, rw)
           /\ Reason(new, rw) = Reason(ev, rw)
           /\ NextOrdinal(new, rw) = NextOrdinal(ev, rw)
           /\ NextAttempt(new, rw) = NextAttempt(ev, rw)
<1>1. HasRaw(new, rw) = HasRaw(ev, rw)
  BY DEF HasRaw
<1>2. Reason(new, rw) = Reason(ev, rw)
  BY <1>1 DEF Reason, HasRaw
<1>. QED
  BY <1>1, <1>2 DEF NextOrdinal, NextAttempt

-----------------------------------------------------------------------------
(* How each write changes what the ledgers say *)

(* The row of a start is the last raw row, and what it says is what was        *)
(* learnt of the last call.                                                    *)
LEMMA LastRow ==
    ASSUME TypeOK, LedgerInv, RequestHistory(events)
    PROVE  /\ Start(events) \in Rows /\ Start(events).attempt \in 1 .. MaxAttempts
           /\ HasRaw(events, raw) =>
                /\ Start(events).call + 1 = Len(raw)
                /\ Len(calls) = Len(raw)
                /\ raw[Len(raw)].item = Start(events).item
                /\ raw[Len(raw)].attempt = Start(events).attempt
                /\ Reason(events, raw) = raw[Len(raw)].reason
                /\ Reason(events, raw) \in Reasons
                /\ Reason(events, raw) = "none" => Start(events).attempt <= MaxTransientRetries
           /\ ~HasRaw(events, raw) => Start(events).call = Len(raw)
<1>. DEFINE s == Start(events)
<1>1. /\ events \in Seq(Rows) /\ raw \in Seq(RawRows) /\ calls \in Seq(Calls)
      /\ Len(raw) \in Nat /\ Len(calls) \in Nat
  BY DEF TypeOK
<1>2. /\ LastStart(events) \in 1 .. Len(events)
      /\ s \in Rows /\ s.kind = "request_started"
  BY <1>1, StartIsStart DEF LedgerInv, LastsExist
<1>3. s.attempt \in 1 .. MaxAttempts
  <2>1. s.attempt # 0
    BY <1>2 DEF LedgerInv, StartsAreAttempts, Start
  <2>. QED
    BY <1>2, <2>1, RetriesAreNatural DEF Rows, MaxAttempts
<1>4. s.call \in Nat /\ (s.call = Len(raw) \/ s.call = Len(raw) - 1)
  BY <1>2 DEF LedgerInv, StartIsCurrent, Rows
<1>5. HasRaw(events, raw) <=> s.call < Len(raw)
  BY DEF HasRaw
<1>6. ~HasRaw(events, raw) => s.call = Len(raw)
  BY <1>1, <1>4, <1>5
<1>7. ASSUME HasRaw(events, raw)
      PROVE  /\ s.call + 1 = Len(raw)
             /\ Len(calls) = Len(raw)
             /\ raw[Len(raw)].item = s.item
             /\ raw[Len(raw)].attempt = s.attempt
             /\ Reason(events, raw) = raw[Len(raw)].reason
             /\ Reason(events, raw) \in Reasons
             /\ Reason(events, raw) = "none" => s.attempt <= MaxTransientRetries
  <2>1. s.call + 1 = Len(raw)
    BY <1>1, <1>4, <1>5, <1>7
  <2>2. Len(calls) = Len(raw)
    BY <1>1, <2>1 DEF LedgerInv, StartIsCurrent, RawRowsAreCalls
  <2>3. Len(raw) \in 1 .. Len(raw)
    BY <1>1, <1>4, <2>1
  <2>4. raw[Len(raw)].item = s.item /\ raw[Len(raw)].attempt = s.attempt
    BY <2>1, <2>2, <2>3 DEF LedgerInv, StartIsCurrent, RawRowsAreCalls
  <2>5. Reason(events, raw) = raw[Len(raw)].reason
    BY <1>7, <2>1 DEF Reason
  <2>6. Reason(events, raw) \in Reasons
    <3>1. raw[Len(raw)] \in RawRows
      BY <1>1, <2>3
    <3>. QED
      BY <2>5, <3>1 DEF RawRows
  <2>7. Reason(events, raw) = "none" => s.attempt <= MaxTransientRetries
    BY <2>3, <2>4, <2>5 DEF LedgerInv, RawIsLearnt
  <2>. QED
    BY <2>1, <2>2, <2>4, <2>5, <2>6, <2>7
<1>. QED
  BY <1>2, <1>3, <1>6, <1>7

(* The position that the ledgers give may be asked for.                        *)
LEMMA PositionMayBeAsked ==
    ASSUME TypeOK, LedgerInv, PositionIsNext
    PROVE  Len(calls) = Len(raw) /\ MayAsk(mem.ordinal, mem.attempt)
<1>. DEFINE s == Start(events)
            c == calls[Len(calls)]
<1>1. /\ raw \in Seq(RawRows) /\ calls \in Seq(Calls)
      /\ Len(raw) \in Nat /\ Len(calls) \in Nat
  BY DEF TypeOK
<1>2. CASE ~RequestHistory(events)
  <2>1. raw = <<>> /\ calls = <<>> /\ mem.ordinal = 0 /\ mem.attempt = 1
    BY <1>2 DEF LedgerInv, StartIsCurrent, PositionIsNext, NextOrdinal, NextAttempt
  <2>. QED
    BY <2>1 DEF MayAsk
<1>3. CASE RequestHistory(events)
  <2>1. HasRaw(events, raw)
    BY <1>3 DEF LedgerInv, StartIsCurrent, PositionIsNext
  <2>2. /\ s.call + 1 = Len(raw) /\ Len(calls) = Len(raw)
        /\ s.call \in Nat /\ s.item \in Nat
        /\ Reason(events, raw) = raw[Len(raw)].reason
    BY <1>3, <2>1, LastRow, PlanIsNotEmpty DEF Rows, Ordinals
  <2>3. /\ Len(raw) \in 1 .. Len(raw)
        /\ c \in Calls /\ c.item = s.item /\ c.attempt = s.attempt
    BY <1>1, <1>3, <2>2 DEF LedgerInv, StartIsCurrent
  <2>4. Reason(events, raw) \in Resolved \cup {"none"}
    BY <1>3 DEF PositionIsNext
  <2>5. /\ c.learnt \in {"refused", "received"}
        /\ Reason(events, raw) = "none" => c.learnt = "refused"
    BY <2>2, <2>3, <2>4 DEF LedgerInv, RawRowsAreCalls, RawIsLearnt, Calls, Resolved
  <2>6. \A i \in 1 .. Len(calls) : calls[i].learnt \in {"refused", "received"}
    BY <1>1, <2>2, <2>3, <2>5 DEF LedgerInv, NoCallAfterPossibleDelivery
  <2>7. ASSUME NEW i \in 1 .. Len(calls)
        PROVE  calls[i].item \in Nat /\ calls[i].item <= s.item
    <3>1. calls[i] \in Calls
      BY <1>1
    <3>2. calls[i].item \in Nat
      BY <3>1, PlanIsNotEmpty DEF Calls, Ordinals
    <3>3. i < Len(calls) => calls[i].item <= s.item
      BY <1>1, <2>2, <2>3 DEF LedgerInv, CallsAscend
    <3>. QED
      BY <1>1, <2>2, <2>3, <3>2, <3>3
  <2>8. CASE Reason(events, raw) = "none"
    <3>1. mem.ordinal = s.item /\ mem.attempt = s.attempt + 1
      BY <1>3, <2>8 DEF PositionIsNext, NextOrdinal, NextAttempt, Resolved
    <3>2. \A i \in 1 .. Len(calls) : calls[i].item = s.item => calls[i].learnt = "refused"
      BY <1>1, <2>2, <2>3, <2>5, <2>8 DEF LedgerInv, NoCallAfterPossibleDelivery
    <3>. QED
      BY <1>1, <2>2, <2>3, <2>6, <2>7, <3>1, <3>2 DEF MayAsk
  <2>9. CASE Reason(events, raw) \in Resolved
    <3>1. mem.ordinal = s.item + 1 /\ mem.attempt = 1
      BY <1>3, <2>9 DEF PositionIsNext, NextOrdinal, NextAttempt
    <3>2. \A i \in 1 .. Len(calls) : calls[i].item <= mem.ordinal /\ calls[i].item # mem.ordinal
      BY <2>2, <2>7, <3>1
    <3>. QED
      BY <1>1, <2>2, <2>3, <2>6, <3>1, <3>2 DEF MayAsk
  <2>. QED
    BY <2>4, <2>8, <2>9
<1>. QED
  BY <1>2, <1>3

(* What an append of a row keeps true whatever its kind.                       *)
LEMMA RowAppended ==
    ASSUME TypeOK, LedgerInv, NEW row \in Rows, events' = Append(events, row),
           UNCHANGED <<raw, calls>>,
           row.kind = "request_started" => row.attempt # 0,
           row.kind = "generation_completed" => NextOrdinal(events, raw) = PlanLength
    PROVE  /\ LastsExist' /\ StartsAreAttempts' /\ RawIsLearnt' /\ CallsAscend'
           /\ RawRowsAreCalls' /\ CallsAreAnnounced' /\ CallsFollowThePlan'
           /\ NoCallAfterPossibleDelivery' /\ CompletionIsEarned'
<1>1. /\ events \in Seq(Rows) /\ events' \in Seq(Rows)
      /\ Len(events) \in Nat /\ Len(events') = Len(events) + 1
      /\ events'[Len(events) + 1] = row
      /\ \A i \in 1 .. Len(events) : i \in 1 .. Len(events') /\ events'[i] = events[i]
  BY DEF TypeOK
<1>2. LastsExist'
  BY <1>1, LastOfAppend DEF LedgerInv, LastsExist
<1>3. StartsAreAttempts'
  BY <1>1 DEF LedgerInv, StartsAreAttempts
<1>4. CallsAreAnnounced'
  BY <1>1 DEF LedgerInv, CallsAreAnnounced
<1>5. CompletionIsEarned'
  <2>1. CASE row.kind = "generation_completed"
    <3>1. \A item \in Ordinals : item < NextOrdinal(events, raw)
      BY <2>1, PlanIsNotEmpty DEF Ordinals
    <3>. QED
      BY <3>1 DEF LedgerInv, ItemsBeforeAreResolved, CompletionIsEarned
  <2>2. CASE row.kind # "generation_completed"
    <3>1. Completed(events') <=> Completed(events)
      BY <1>1, <2>2, LastOfAppend DEF LedgerInv, LastsExist, Completed, Completions
    <3>. QED
      BY <3>1 DEF LedgerInv, CompletionIsEarned
  <2>. QED
    BY <2>1, <2>2
<1>6. /\ RawIsLearnt' /\ CallsAscend' /\ RawRowsAreCalls'
      /\ CallsFollowThePlan' /\ NoCallAfterPossibleDelivery'
  BY DEF LedgerInv, RawIsLearnt, CallsAscend, RawRowsAreCalls,
         CallsFollowThePlan, NoCallAfterPossibleDelivery
<1>. QED
  BY <1>2, <1>3, <1>4, <1>5, <1>6

LEMMA EventAppended ==
    ASSUME TypeOK, LedgerInv, NEW row \in Rows, events' = Append(events, row),
           UNCHANGED <<raw, calls>>,
           row.kind # "request_started",
           row.kind = "request_finished" => HasRaw(events, raw),
           row.kind = "generation_completed" => NextOrdinal(events, raw) = PlanLength
    PROVE  /\ LedgerInv'
           /\ RequestHistory(events') <=> RequestHistory(events)
           /\ RequestHistory(events) => Start(events') = Start(events)
           /\ HasRaw(events', raw') <=> HasRaw(events, raw)
           /\ Reason(events', raw') = Reason(events, raw)
           /\ NextOrdinal(events', raw') = NextOrdinal(events, raw)
           /\ NextAttempt(events', raw') = NextAttempt(events, raw)
           /\ Open(events') <=> Open(events) /\ row.kind # "request_finished"
<1>1. events \in Seq(Rows) /\ HasLast(events, Starts) /\ HasLast(events, Requests)
  BY DEF TypeOK, LedgerInv, LastsExist
<1>2. /\ RequestHistory(events') = RequestHistory(events)
      /\ RequestHistory(events) => Start(events') = Start(events)
      /\ row.kind = "request_finished" => ~Open(events')
      /\ row.kind # "request_finished" => Open(events') = Open(events)
  BY <1>1, AppendNoStart
<1>3. /\ HasRaw(events', raw') = HasRaw(events, raw)
      /\ Reason(events', raw') = Reason(events, raw)
      /\ NextOrdinal(events', raw') = NextOrdinal(events, raw)
      /\ NextAttempt(events', raw') = NextAttempt(events, raw)
  BY <1>2, SameStart
<1>4. StartIsCurrent'
  BY <1>2, <1>3 DEF LedgerInv, StartIsCurrent
<1>5. ItemsBeforeAreResolved'
  BY <1>3 DEF LedgerInv, ItemsBeforeAreResolved
<1>6. LedgerInv'
  BY <1>4, <1>5, RowAppended DEF LedgerInv
<1>. QED
  BY <1>2, <1>3, <1>6

LEMMA StartAppended ==
    ASSUME TypeOK, LedgerInv, PositionIsNext, NEW row \in Rows,
           events' = Append(events, row), UNCHANGED <<raw, calls>>,
           row.kind = "request_started", row.item = mem.ordinal,
           row.attempt = mem.attempt, row.call = Len(raw)
    PROVE  /\ LedgerInv'
           /\ RequestHistory(events') /\ Start(events') = row
           /\ Open(events') /\ ~HasRaw(events', raw')
<1>1. events \in Seq(Rows) /\ HasLast(events, Starts) /\ HasLast(events, Requests)
  BY DEF TypeOK, LedgerInv, LastsExist
<1>2. RequestHistory(events') /\ Start(events') = row /\ Open(events')
  BY <1>1, AppendStart
<1>3. Len(raw) \in Nat /\ row.attempt # 0
  BY DEF TypeOK, Memories
<1>4. ~HasRaw(events', raw')
  BY <1>2, <1>3 DEF HasRaw
<1>5. NextOrdinal(events', raw') = NextOrdinal(events, raw)
  BY <1>2, <1>4 DEF NextOrdinal, Reason, Resolved, PositionIsNext
<1>6. StartIsCurrent'
  BY <1>2, <1>3, <1>4, PositionMayBeAsked DEF StartIsCurrent
<1>7. ItemsBeforeAreResolved'
  BY <1>5 DEF LedgerInv, ItemsBeforeAreResolved
<1>8. LedgerInv'
  BY <1>3, <1>6, <1>7, RowAppended DEF LedgerInv
<1>. QED
  BY <1>2, <1>4, <1>8

(* The call that a start announces is made.                                    *)
LEMMA CallAppended ==
    ASSUME TypeOK, LedgerInv, StartIsMine, ~HasRaw(events, raw),
           Len(calls) = Len(raw), MayAsk(mem.ordinal, mem.attempt),
           NEW call \in Calls, call.item = mem.ordinal, call.attempt = mem.attempt,
           calls' = Append(calls, call), UNCHANGED <<events, raw>>
    PROVE  LedgerInv' /\ Len(calls') = Len(raw') + 1
<1>. DEFINE n == Len(calls)
            s == Start(events)
<1>1. /\ raw \in Seq(RawRows) /\ calls \in Seq(Calls) /\ calls' \in Seq(Calls)
      /\ Len(raw) \in Nat /\ n \in Nat /\ Len(calls') = n + 1
      /\ calls'[n + 1] = call
      /\ \A i \in 1 .. n : i \in 1 .. Len(calls') /\ calls'[i] = calls[i]
  BY DEF TypeOK
<1>2. /\ s \in Rows /\ s.call = n
      /\ LastStart(events) \in 1 .. Len(events) /\ s.kind = "request_started"
      /\ mem.ordinal = s.item /\ mem.attempt = s.attempt
  BY LastRow, StartIsStart DEF TypeOK, LedgerInv, LastsExist, StartIsMine
<1>3. StartIsCurrent'
  BY <1>1, <1>2 DEF LedgerInv, StartIsCurrent, StartIsMine
<1>4. CallsAscend'
  <2>. SUFFICES ASSUME NEW i \in 1 .. Len(calls'), NEW j \in 1 .. Len(calls'), i < j
                PROVE  calls'[i].item <= calls'[j].item
    BY DEF CallsAscend
  <2>1. i \in 1 .. n /\ (j \in 1 .. n \/ j = n + 1)
    BY <1>1
  <2>2. CASE j \in 1 .. n
    BY <1>1, <2>1, <2>2 DEF LedgerInv, CallsAscend
  <2>3. CASE j = n + 1
    BY <1>1, <2>1, <2>3 DEF MayAsk
  <2>. QED
    BY <2>1, <2>2, <2>3
<1>5. NoCallAfterPossibleDelivery'
  BY <1>1 DEF LedgerInv, NoCallAfterPossibleDelivery, MayAsk
<1>6. CallsAreAnnounced'
  <2>1. /\ events[LastStart(events)].kind = "request_started"
        /\ events[LastStart(events)].call = n
        /\ events[LastStart(events)].item = call.item
        /\ events[LastStart(events)].attempt = call.attempt
    BY <1>2 DEF Start
  <2>. SUFFICES ASSUME NEW k \in 1 .. Len(calls')
                PROVE  \E i \in 1 .. Len(events) :
                          /\ events[i].kind = "request_started" /\ events[i].call = k - 1
                          /\ events[i].item = calls'[k].item
                          /\ events[i].attempt = calls'[k].attempt
    BY DEF CallsAreAnnounced
  <2>2. CASE k \in 1 .. n
    <3>1. calls'[k] = calls[k]
      BY <1>1, <2>2
    <3>. QED
      BY <2>2, <3>1 DEF LedgerInv, CallsAreAnnounced
  <2>3. CASE k = n + 1
    <3>1. calls'[k] = call /\ k - 1 = n
      BY <1>1, <2>3
    <3>. QED
      BY <1>2, <2>1, <3>1
  <2>. QED
    BY <1>1, <2>2, <2>3
<1>7. CallsFollowThePlan'
  <2>1. Len(calls') > 0 => calls'[1].item = 0 /\ calls'[1].attempt = 1
    BY <1>1 DEF LedgerInv, CallsFollowThePlan, MayAsk
  <2>2. ASSUME NEW i \in 2 .. Len(calls')
        PROVE  \/ calls'[i].item = calls'[i - 1].item
                  /\ calls'[i].attempt = calls'[i - 1].attempt + 1
               \/ calls'[i].item = calls'[i - 1].item + 1 /\ calls'[i].attempt = 1
    <3>1. CASE i \in 2 .. n
      <4>1. i \in 1 .. n /\ i - 1 \in 1 .. n
        BY <1>1, <3>1
      <4>. QED
        BY <1>1, <3>1, <4>1 DEF LedgerInv, CallsFollowThePlan
    <3>2. CASE i = n + 1
      <4>1. n \in 1 .. n /\ i - 1 = n /\ calls # <<>>
        BY <1>1, <3>2
      <4>. QED
        BY <1>1, <3>2, <4>1 DEF MayAsk
    <3>. QED
      BY <1>1, <3>1, <3>2
  <2>3. call.attempt <= MaxAttempts
    BY RetriesAreNatural DEF Calls, MaxAttempts
  <2>4. \A i \in 1 .. Len(calls') : calls'[i].attempt <= MaxAttempts
    BY <1>1, <2>3 DEF LedgerInv, CallsFollowThePlan
  <2>. QED
    BY <2>1, <2>2, <2>4 DEF CallsFollowThePlan
<1>8. RawRowsAreCalls' /\ RawIsLearnt'
  <2>1. raw' = raw /\ Len(raw) <= Len(calls')
    BY <1>1
  <2>2. \A i \in 1 .. Len(raw) : calls'[i] = calls[i]
    BY <1>1
  <2>3. RawRowsAreCalls'
    BY <2>1, <2>2 DEF LedgerInv, RawRowsAreCalls
  <2>4. RawIsLearnt'
    BY <2>1, <2>2 DEF LedgerInv, RawIsLearnt
  <2>. QED
    BY <2>3, <2>4
<1>9. LastsExist' /\ StartsAreAttempts' /\ ItemsBeforeAreResolved' /\ CompletionIsEarned'
  BY DEF LedgerInv, LastsExist, StartsAreAttempts, ItemsBeforeAreResolved, CompletionIsEarned
<1>. QED
  BY <1>1, <1>3, <1>4, <1>5, <1>6, <1>7, <1>8, <1>9 DEF LedgerInv

(* What the last call came to is learnt, before a raw row says it.             *)
LEMMA CallLearnt ==
    ASSUME TypeOK, LedgerInv, Len(calls) = Len(raw) + 1,
           NEW learnt \in {"refused", "received", "unknown"},
           calls' = [calls EXCEPT ![Len(calls)].learnt = learnt],
           UNCHANGED <<events, raw>>
    PROVE  /\ LedgerInv' /\ calls' \in Seq(Calls)
           /\ Len(calls') = Len(raw') + 1
           /\ calls'[Len(calls')].learnt = learnt
<1>. DEFINE n == Len(calls)
<1>1. /\ raw \in Seq(RawRows) /\ calls \in Seq(Calls)
      /\ Len(raw) \in Nat /\ n \in Nat /\ n \in 1 .. n
  BY DEF TypeOK
<1>. DEFINE c == [calls[n] EXCEPT !.learnt = learnt]
<1>2. calls[n] \in Calls
  BY <1>1
<1>3. c \in Calls /\ c.item = calls[n].item /\ c.attempt = calls[n].attempt /\ c.learnt = learnt
  BY <1>2 DEF Calls
<1>4. calls' = [calls EXCEPT ![n] = c]
  OBVIOUS
<1>. HIDE DEF c
<1>5. /\ calls' \in Seq(Calls) /\ Len(calls') = n
      /\ \A i \in 1 .. n : calls'[i] = IF i = n THEN c ELSE calls[i]
  BY <1>1, <1>3, <1>4, ExceptSeq
<1>6. \A i \in 1 .. n : /\ calls'[i].item = calls[i].item
                        /\ calls'[i].attempt = calls[i].attempt
                        /\ i # n => calls'[i] = calls[i]
  BY <1>3, <1>5
<1>7. StartIsCurrent'
  BY <1>1, <1>5, <1>6 DEF LedgerInv, StartIsCurrent
<1>8. CallsAscend' /\ CallsAreAnnounced'
  BY <1>5, <1>6 DEF LedgerInv, CallsAscend, CallsAreAnnounced
<1>9. CallsFollowThePlan'
  <2>1. \A i \in 2 .. n : i \in 1 .. n /\ i - 1 \in 1 .. n
    BY <1>1
  <2>. QED
    BY <1>1, <1>5, <1>6, <2>1 DEF LedgerInv, CallsFollowThePlan
<1>10. NoCallAfterPossibleDelivery'
  <2>1. \A i, j \in 1 .. n : i < j => i # n
    BY <1>1
  <2>. QED
    BY <1>5, <1>6, <2>1 DEF LedgerInv, NoCallAfterPossibleDelivery
<1>11. RawRowsAreCalls' /\ RawIsLearnt'
  <2>1. raw' = raw /\ Len(raw) <= Len(calls')
    BY <1>1, <1>5
  <2>2. \A i \in 1 .. Len(raw) : calls'[i] = calls[i]
    BY <1>1, <1>6
  <2>. QED
    BY <2>1, <2>2 DEF LedgerInv, RawRowsAreCalls, RawIsLearnt
<1>12. LastsExist' /\ StartsAreAttempts' /\ ItemsBeforeAreResolved' /\ CompletionIsEarned'
  BY DEF LedgerInv, LastsExist, StartsAreAttempts, ItemsBeforeAreResolved, CompletionIsEarned
<1>13. LedgerInv'
  BY <1>7, <1>8, <1>9, <1>10, <1>11, <1>12 DEF LedgerInv
<1>. QED
  BY <1>1, <1>3, <1>5, <1>13

(* The raw row of the last call is appended.                                   *)
LEMMA RowRecorded ==
    ASSUME TypeOK, LedgerInv, StartIsMine, ~HasRaw(events, raw),
           Len(calls) = Len(raw) + 1, AnswerIsKept,
           raw' = Append(raw, RawRow(Start(events), mem.reason)),
           UNCHANGED <<events, calls>>
    PROVE  /\ LedgerInv' /\ raw' \in Seq(RawRows)
           /\ HasRaw(events', raw')
           /\ Reason(events', raw') = mem.reason
<1>. DEFINE n == Len(calls)
            s == Start(events)
            row == RawRow(s, mem.reason)
<1>1. /\ raw \in Seq(RawRows) /\ calls \in Seq(Calls)
      /\ Len(raw) \in Nat /\ n \in Nat /\ n = Len(raw) + 1
  BY DEF TypeOK
<1>2. /\ s \in Rows /\ s.attempt \in 1 .. MaxAttempts /\ s.call = Len(raw)
      /\ RequestHistory(events) /\ mem.ordinal = s.item /\ mem.attempt = s.attempt
  BY LastRow DEF StartIsMine
<1>3. /\ row \in RawRows /\ row.call = Len(raw) /\ row.item = s.item
      /\ row.attempt = s.attempt /\ row.reason = mem.reason
  BY <1>2 DEF AnswerIsKept, RawRow, RawRows, Rows
<1>. HIDE DEF row
<1>4. /\ raw' \in Seq(RawRows) /\ Len(raw') = n /\ raw'[n] = row
      /\ \A i \in 1 .. n - 1 : i \in 1 .. Len(raw) /\ raw'[i] = raw[i]
      /\ \A i \in 1 .. Len(raw) : i \in 1 .. Len(raw') /\ raw'[i] = raw[i]
  BY <1>1, <1>3 DEF row
<1>5. events' = events /\ calls' = calls
  OBVIOUS
<1>6. HasRaw(events', raw')
  BY <1>1, <1>2, <1>4, <1>5 DEF HasRaw
<1>7. Reason(events', raw') = mem.reason
  BY <1>1, <1>2, <1>3, <1>4, <1>5, <1>6 DEF Reason
<1>8. calls[n].item = s.item /\ calls[n].attempt = s.attempt
  BY <1>1, <1>2 DEF LedgerInv, StartIsCurrent
<1>9. StartIsCurrent'
  BY <1>1, <1>2, <1>4, <1>5, <1>6 DEF LedgerInv, StartIsCurrent
<1>10. RawRowsAreCalls'
  <2>1. Len(raw') <= Len(calls')
    BY <1>1, <1>4
  <2>2. ASSUME NEW i \in 1 .. Len(raw')
        PROVE  /\ raw'[i].call = i - 1
               /\ raw'[i].item = calls[i].item /\ raw'[i].attempt = calls[i].attempt
               /\ raw'[i].reason = "none" => calls[i].learnt = "refused"
               /\ raw'[i].reason = "success" => calls[i].learnt = "received"
               /\ raw'[i].reason = "ambiguous_delivery" <=> calls[i].learnt = "unknown"
    <3>1. CASE i = n
      BY <1>1, <1>3, <1>4, <1>8, <3>1 DEF AnswerIsKept
    <3>2. CASE i \in 1 .. n - 1
      BY <1>1, <1>4, <3>2 DEF LedgerInv, RawRowsAreCalls
    <3>. QED
      BY <1>1, <1>4, <3>1, <3>2
  <2>. QED
    BY <1>5, <2>1, <2>2 DEF RawRowsAreCalls
<1>11. RawIsLearnt'
  <2>. SUFFICES ASSUME NEW i \in 1 .. Len(raw')
                PROVE  /\ calls[i].learnt # "in_flight"
                       /\ raw'[i].reason = "none" => raw'[i].attempt <= MaxTransientRetries
    BY <1>5 DEF RawIsLearnt
  <2>1. CASE i = n
    BY <1>2, <1>3, <1>4, <2>1 DEF AnswerIsKept
  <2>2. CASE i \in 1 .. n - 1
    BY <1>4, <2>2 DEF LedgerInv, RawIsLearnt
  <2>. QED
    BY <1>1, <1>4, <2>1, <2>2
<1>12. ItemsBeforeAreResolved'
  <2>1. NextOrdinal(events, raw) = s.item
    BY <1>2 DEF NextOrdinal, Reason, Resolved
  <2>2. ASSUME NEW item \in Ordinals, item < NextOrdinal(events', raw')
        PROVE  \E i \in 1 .. Len(raw') : raw'[i].item = item /\ raw'[i].reason \in Resolved
    <3>1. CASE item < s.item
      BY <1>4, <2>1, <3>1 DEF LedgerInv, ItemsBeforeAreResolved
    <3>2. CASE ~(item < s.item)
      <4>1. NextOrdinal(events', raw') = IF mem.reason \in Resolved THEN s.item + 1 ELSE s.item
        BY <1>2, <1>5, <1>7 DEF NextOrdinal
      <4>2. item = s.item /\ mem.reason \in Resolved
        BY <1>2, <2>2, <3>2, <4>1, PlanIsNotEmpty DEF Ordinals, Rows
      <4>. QED
        BY <1>1, <1>3, <1>4, <4>2
    <3>. QED
      BY <3>1, <3>2
  <2>. QED
    BY <2>2 DEF ItemsBeforeAreResolved
<1>13. CompletionIsEarned'
  BY <1>4, <1>5 DEF LedgerInv, CompletionIsEarned
<1>14. /\ LastsExist' /\ StartsAreAttempts' /\ CallsAscend' /\ CallsAreAnnounced'
       /\ CallsFollowThePlan' /\ NoCallAfterPossibleDelivery'
  BY DEF LedgerInv, LastsExist, StartsAreAttempts, CallsAscend, CallsAreAnnounced,
         CallsFollowThePlan, NoCallAfterPossibleDelivery
<1>15. LedgerInv'
  BY <1>9, <1>10, <1>11, <1>12, <1>13, <1>14 DEF LedgerInv
<1>. QED
  BY <1>4, <1>6, <1>7, <1>15

-----------------------------------------------------------------------------
(* Steps of an operation, seen from the places of the others *)

LedgerTypes ==
    /\ events \in Seq(Rows) /\ eventTail \in BOOLEAN
    /\ raw \in Seq(RawRows) /\ rawTail \in BOOLEAN
    /\ calls \in Seq(Calls)

(* An operation that does not hold the lock keeps nothing.                     *)
LEMMA IdleMemory ==
    ASSUME NEW op \in Operations, pc[op] \notin Running
    PROVE  MemoryInv(op)
BY DEF MemoryInv, Running

LEMMA NoMemoryTyped == NoMemory \in Memories
<1>1. 0 \in Ordinals /\ 1 \in 1 .. MaxAttempts
  BY PlanIsNotEmpty, RetriesAreNatural DEF Ordinals, MaxAttempts
<1>2. <<>> \in Seq(Rows)
  OBVIOUS
<1>. QED
  BY <1>1, <1>2 DEF NoMemory, Memories

(* A step of the lock's holder concerns no other operation.                    *)
LEMMA HolderStep ==
    ASSUME IInv, NEW op \in Operations, pc[op] \in Running,
           NEW place \in Places, pc' = [pc EXCEPT ![op] = place],
           lock' = IF place \in Running THEN lock ELSE NoOperation,
           mem' \in Memories, LedgerTypes', LedgerInv',
           MemoryInv(op)'
    PROVE  IInv'
<1>1. pc \in [Operations -> Places] /\ lock = op
  BY DEF IInv, TypeOK, SingleMutator
<1>2. pc' \in [Operations -> Places] /\ pc'[op] = place
  BY <1>1
<1>3. \A p \in Operations : p # op => pc'[p] \notin Running
  BY <1>1 DEF IInv, SingleMutator
<1>4. SingleMutator'
  BY <1>1, <1>2, <1>3 DEF SingleMutator
<1>5. TypeOK'
  BY <1>1, <1>2 DEF TypeOK, LedgerTypes
<1>6. ASSUME NEW p \in Operations PROVE MemoryInv(p)'
  <2>1. CASE p = op
    BY <2>1
  <2>2. CASE p # op
    BY <1>3, <2>2 DEF MemoryInv, Running
  <2>. QED
    BY <2>1, <2>2
<1>. QED
  BY <1>4, <1>5, <1>6 DEF IInv

LEMMA ReturnStep ==
    ASSUME IInv, NEW op \in Operations, pc[op] \in Running,
           NEW result \in Returned, Return(op, result), LedgerTypes', LedgerInv'
    PROVE  IInv'
<1>1. /\ result \in Places /\ result \notin Running
      /\ pc' = [pc EXCEPT ![op] = result] /\ lock' = NoOperation /\ mem' = NoMemory
  BY DEF Return, Goto, Places, Returned, Running
<1>2. pc'[op] = result
  BY <1>1 DEF IInv, TypeOK
<1>3. MemoryInv(op)'
  BY <1>1, <1>2 DEF MemoryInv, Running
<1>. QED
  BY <1>1, <1>3, HolderStep, NoMemoryTyped

LEMMA RowsUnchanged ==
    ASSUME LedgerInv, events' = events, raw' = raw, calls' = calls
    PROVE  LedgerInv'
<1>1. /\ LastsExist' /\ StartsAreAttempts' /\ StartIsCurrent' /\ RawIsLearnt' /\ CallsAscend'
      /\ ItemsBeforeAreResolved' /\ CompletionIsEarned'
  BY DEF LedgerInv, LastsExist, StartsAreAttempts, StartIsCurrent, RawIsLearnt,
         CallsAscend, ItemsBeforeAreResolved, CompletionIsEarned
<1>2. RawRowsAreCalls' /\ NoCallAfterPossibleDelivery'
  BY DEF LedgerInv, RawRowsAreCalls, NoCallAfterPossibleDelivery
<1>3. CallsAreAnnounced' /\ CallsFollowThePlan'
  BY DEF LedgerInv, CallsAreAnnounced, CallsFollowThePlan
<1>. QED
  BY <1>1, <1>2, <1>3 DEF LedgerInv

(* Nothing is written and no call is made.                                     *)
LEMMA LedgersUnchanged ==
    ASSUME IInv, UNCHANGED <<ledgers, calls>>
    PROVE  LedgerTypes' /\ LedgerInv'
<1>1. LedgerTypes'
  BY DEF ledgers, IInv, TypeOK, LedgerTypes
<1>. QED
  BY <1>1, RowsUnchanged DEF ledgers, IInv

(* A framed append of an event row, whatever its outcome.                      *)
LEMMA EventWritten ==
    ASSUME IInv, NEW row \in Rows, raw' = raw, rawTail' = rawTail, calls' = calls,
           events' = Append(events, row) => LedgerInv',
           \/ events' = Append(events, row) /\ eventTail' = eventTail
           \/ eventTail' = TRUE /\ events' = events
    PROVE  LedgerTypes' /\ LedgerInv'
<1>1. /\ events \in Seq(Rows) /\ eventTail \in BOOLEAN
      /\ raw' \in Seq(RawRows) /\ rawTail' \in BOOLEAN /\ calls' \in Seq(Calls)
  BY DEF IInv, TypeOK
<1>2. CASE events' = Append(events, row) /\ eventTail' = eventTail
  BY <1>1, <1>2 DEF LedgerTypes
<1>3. CASE eventTail' = TRUE /\ events' = events
  BY <1>1, <1>3, RowsUnchanged DEF IInv, LedgerTypes
<1>. QED
  BY <1>2, <1>3

LEMMA MemoryUnchanged ==
    ASSUME NEW op \in Operations, MemoryInv(op), pc'[op] = pc[op],
           UNCHANGED <<ledgers, mem, calls>>
    PROVE  MemoryInv(op)'
<1>1. /\ TodoIsOwed' <=> TodoIsOwed
      /\ PositionIsNext' <=> PositionIsNext
      /\ StartIsMine' <=> StartIsMine
      /\ AnswerIsKept' <=> AnswerIsKept
      /\ MayAsk(mem.ordinal, mem.attempt)' <=> MayAsk(mem.ordinal, mem.attempt)
  BY DEF ledgers, TodoIsOwed, OwedRows, PositionIsNext, StartIsMine, AnswerIsKept, MayAsk
<1>. QED
  BY <1>1 DEF MemoryInv, ledgers

LEMMA StutterStep == IInv /\ UNCHANGED vars => IInv'
<1>. SUFFICES ASSUME IInv, UNCHANGED vars PROVE IInv'
  OBVIOUS
<1>1. LedgerInv' /\ LedgerTypes'
  BY LedgersUnchanged DEF vars, ledgers
<1>2. TypeOK' /\ SingleMutator'
  BY <1>1 DEF vars, IInv, TypeOK, SingleMutator
<1>3. \A op \in Operations : MemoryInv(op)'
  BY MemoryUnchanged DEF vars, ledgers, IInv
<1>. QED
  BY <1>1, <1>2, <1>3 DEF IInv

-----------------------------------------------------------------------------
(* Lock and recovery *)

LEMMA AcquireLockStep ==
    ASSUME IInv, NEW op \in Operations, AcquireLock(op)
    PROVE  IInv'
<1>1. LedgerTypes' /\ LedgerInv'
  BY LedgersUnchanged DEF AcquireLock
<1>2. /\ pc \in [Operations -> Places] /\ mem \in Memories /\ mem' = mem
      /\ lock \in Operations \cup {NoOperation} /\ NoOperation \notin Operations
      /\ pc[op] = "new"
      /\ \A p \in Operations : pc[p] \in Running => lock = p
  BY NoOperationIsFresh DEF AcquireLock, IInv, TypeOK, SingleMutator
<1>3. \A p \in Operations : p # op => pc'[p] = pc[p]
  BY <1>2 DEF AcquireLock, Goto
<1>4. CASE lock = NoOperation
  <2>1. pc' = [pc EXCEPT ![op] = "locked"] /\ lock' = op /\ pc'[op] = "locked"
    BY <1>2, <1>4 DEF AcquireLock, Goto
  <2>2. \A p \in Operations : pc[p] \notin Running
    BY <1>2, <1>4
  <2>3. TypeOK' /\ SingleMutator'
    BY <1>1, <1>2, <1>3, <2>1, <2>2 DEF TypeOK, SingleMutator, LedgerTypes, Places, Running
  <2>4. \A p \in Operations : MemoryInv(p)'
    <3>1. MemoryInv(op)'
      BY <2>1 DEF MemoryInv
    <3>2. ASSUME NEW p \in Operations, p # op PROVE MemoryInv(p)'
      BY <1>3, <2>2, <3>2 DEF MemoryInv, Running
    <3>. QED
      BY <3>1, <3>2
  <2>. QED
    BY <1>1, <2>3, <2>4 DEF IInv
<1>5. CASE lock # NoOperation
  <2>1. pc' = [pc EXCEPT ![op] = "busy"] /\ lock' = lock /\ pc'[op] = "busy"
    BY <1>2, <1>5 DEF AcquireLock, Goto
  <2>2. TypeOK' /\ SingleMutator'
    BY <1>1, <1>2, <1>3, <2>1
       DEF TypeOK, SingleMutator, LedgerTypes, Places, Running, Returned
  <2>3. \A p \in Operations : MemoryInv(p)'
    <3>1. MemoryInv(op)'
      BY <2>1 DEF MemoryInv
    <3>2. ASSUME NEW p \in Operations, p # op PROVE MemoryInv(p)'
      BY <1>3, <3>2, MemoryUnchanged DEF AcquireLock, IInv
    <3>. QED
      BY <3>1, <3>2
  <2>. QED
    BY <1>1, <2>2, <2>3 DEF IInv
<1>. QED
  BY <1>4, <1>5

LEMMA AtMostOneRow ==
    ASSUME NEW S, NEW needed, NEW one, needed => one \in Seq(S)
    PROVE  (IF needed THEN one ELSE <<>>) \in Seq(S)
<1>1. <<>> \in Seq(S)
  OBVIOUS
<1>2. CASE needed
  BY <1>2
<1>3. CASE ~needed
  BY <1>1, <1>3
<1>. QED
  BY <1>2, <1>3

(* Every row of a recovery plan is one that the ledgers call for.              *)
LEMMA PlanIsOwed ==
    ASSUME IInv, NEW op \in Operations
    PROVE  RecoveryPlan(op) \in Seq(OwedRows)
<1>. DEFINE s == Start(events)
            Row(kind, item, attempt, call) == Event(kind, op, TRUE, item, attempt, call)
<1>1. RequestHistory(events) =>
         s.item \in Ordinals /\ s.attempt \in 0 .. MaxAttempts /\ s.call \in Nat
  BY LastRow DEF IInv, Rows
<1>2. /\ 0 \in Ordinals /\ PlanLength - 1 \in Ordinals /\ 0 \in 0 .. MaxAttempts /\ 0 \in Nat
  BY PlanIsNotEmpty, RetriesAreNatural DEF Ordinals, MaxAttempts
<1>3. \A K \in {"tail_recovered_events", "tail_recovered_raw", "authentication_stopped",
                "delivery_ambiguous"}, i \in Ordinals, a \in 0 .. MaxAttempts, c \in Nat :
         <<Row(K, i, a, c)>> \in Seq(OwedRows)
  BY DEF OwedRows, Rows, Event
<1>4. TailAudits(op) \in Seq(OwedRows)
  <2>1. /\ <<Row("tail_recovered_events", 0, 0, 0)>> \in Seq(OwedRows)
        /\ <<Row("tail_recovered_raw", 0, 0, 0)>> \in Seq(OwedRows)
    BY <1>2, <1>3
  <2>2. RawlessOpen(events, raw) =>
           <<Row("tail_recovered_raw", s.item, s.attempt, 0)>> \in Seq(OwedRows)
    BY <1>1, <1>2, <1>3 DEF RawlessOpen, Open
  <2>. DEFINE first == IF eventTail THEN <<Row("tail_recovered_events", 0, 0, 0)>> ELSE <<>>
              audit == IF RawlessOpen(events, raw)
                       THEN <<Row("tail_recovered_raw", s.item, s.attempt, 0)>>
                       ELSE <<Row("tail_recovered_raw", 0, 0, 0)>>
              second == IF rawTail THEN audit ELSE <<>>
  <2>3. audit \in Seq(OwedRows)
    <3>1. CASE RawlessOpen(events, raw)
      BY <2>2, <3>1
    <3>2. CASE ~RawlessOpen(events, raw)
      BY <2>1, <3>2
    <3>. QED
      BY <3>1, <3>2
  <2>4. TailAudits(op) = first \o second
    BY DEF TailAudits
  <2>. HIDE DEF audit
  <2>5. first \in Seq(OwedRows) /\ second \in Seq(OwedRows)
    BY <2>1, <2>3, AtMostOneRow
  <2>. HIDE DEF first, second
  <2>. QED
    BY <2>4, <2>5
<1>5. NeedsFinish(events, raw) => <<RequestFinished(op, TRUE, s)>> \in Seq(OwedRows)
  BY <1>1 DEF NeedsFinish, Open, RequestFinished, OwedRows, Rows, Event
<1>6. NeedsMarker(events, raw) =>
         <<Marker(MarkerOf(Reason(events, raw)), op, TRUE, s)>> \in Seq(OwedRows)
  <2>1. NeedsMarker(events, raw) =>
           /\ RequestHistory(events)
           /\ MarkerOf(Reason(events, raw)) \in {"authentication_stopped", "delivery_ambiguous"}
    BY DEF NeedsMarker, MarkerOf, Reason, HasRaw
  <2>. QED
    BY <1>1, <1>2, <1>3, <2>1 DEF Marker
<1>7. NeedsCompletion(events, raw) => <<GenerationCompleted(op, TRUE)>> \in Seq(OwedRows)
  BY <1>2 DEF NeedsCompletion, GenerationCompleted, OwedRows, Rows, Event
<1>8. RequiredRows(op) \in Seq(OwedRows)
  <2>. DEFINE finish == IF NeedsFinish(events, raw) THEN <<RequestFinished(op, TRUE, s)>> ELSE <<>>
              marker == IF NeedsMarker(events, raw)
                        THEN <<Marker(MarkerOf(Reason(events, raw)), op, TRUE, s)>> ELSE <<>>
              completion == IF NeedsCompletion(events, raw)
                            THEN <<GenerationCompleted(op, TRUE)>> ELSE <<>>
  <2>1. /\ finish \in Seq(OwedRows) /\ marker \in Seq(OwedRows)
        /\ completion \in Seq(OwedRows)
    BY <1>5, <1>6, <1>7, AtMostOneRow
  <2>2. RequiredRows(op) = finish \o marker \o completion
    BY DEF RequiredRows
  <2>. HIDE DEF finish, marker, completion
  <2>. QED
    BY <2>1, <2>2
<1>. QED
  BY <1>4, <1>8 DEF RecoveryPlan

LEMMA PlanRecoveryStep ==
    ASSUME IInv, NEW op \in Operations, PlanRecovery(op)
    PROVE  IInv'
<1>1. LedgerTypes' /\ LedgerInv'
  BY LedgersUnchanged DEF PlanRecovery
<1>2. /\ pc[op] \in Running /\ "planned" \in Places /\ "planned" \in Running
      /\ pc' = [pc EXCEPT ![op] = "planned"] /\ lock' = lock
  BY DEF PlanRecovery, Goto, Running, Places
<1>3. RecoveryPlan(op) \in Seq(OwedRows) /\ RecoveryPlan(op) \in Seq(Rows)
  <2>1. OwedRows \subseteq Rows
    BY DEF OwedRows
  <2>. QED
    BY <2>1, PlanIsOwed, SeqMonotonic
<1>4. Disposition(events, raw) \in
         {"ambiguous", "authentication_stopped", "complete", "provider_ready"}
  BY DEF Disposition
<1>5. mem \in Memories /\ mem' = [mem EXCEPT !.todo = RecoveryPlan(op),
                                             !.disposition = Disposition(events, raw)]
  BY DEF PlanRecovery, IInv, TypeOK
<1>6. mem' \in Memories /\ mem'.todo = RecoveryPlan(op)
  BY <1>3, <1>4, <1>5 DEF Memories
<1>7. MemoryInv(op)'
  <2>1. pc'[op] = "planned"
    BY <1>2 DEF IInv, TypeOK
  <2>2. OwedRows' = OwedRows
    BY DEF PlanRecovery, ledgers, OwedRows
  <2>. QED
    BY <1>3, <1>6, <2>1, <2>2 DEF MemoryInv, TodoIsOwed
<1>. QED
  BY <1>1, <1>2, <1>6, <1>7, HolderStep

LEMMA BeginRepairStep ==
    ASSUME IInv, NEW op \in Operations, BeginRepair(op)
    PROVE  IInv'
<1>1. LedgerTypes' /\ LedgerInv'
  BY LedgersUnchanged DEF BeginRepair
<1>2. /\ pc[op] = "planned" /\ pc[op] \in Running
      /\ "recovering" \in Places /\ "recovering" \in Running
      /\ pc' = [pc EXCEPT ![op] = "recovering"] /\ lock' = lock /\ mem' = mem
      /\ mem \in Memories
  BY DEF BeginRepair, Continue, Goto, Running, Places, IInv, TypeOK
<1>3. MemoryInv(op)'
  <2>1. pc'[op] = "recovering"
    BY <1>2 DEF IInv, TypeOK
  <2>2. TodoIsOwed /\ OwedRows' = OwedRows
    BY <1>2 DEF IInv, MemoryInv, BeginRepair, ledgers, OwedRows
  <2>. QED
    BY <1>2, <2>1, <2>2 DEF MemoryInv, TodoIsOwed
<1>. QED
  BY <1>1, <1>2, <1>3, HolderStep

LEMMA TruncateStep ==
    ASSUME IInv, NEW op \in Operations, TruncateEvents(op) \/ TruncateRaw(op)
    PROVE  IInv'
<1>1. /\ events' = events /\ raw' = raw /\ calls' = calls /\ lock' = lock /\ mem' = mem
      /\ pc' = pc /\ pc[op] = "recovering"
      /\ eventTail' \in BOOLEAN /\ rawTail' \in BOOLEAN
  BY DEF TruncateEvents, TruncateRaw, IInv, TypeOK
<1>2. LedgerTypes'
  BY <1>1 DEF IInv, TypeOK, LedgerTypes
<1>6. LedgerInv'
  BY <1>1, RowsUnchanged DEF IInv
<1>7. MemoryInv(op)'
  <2>1. TodoIsOwed /\ OwedRows' = OwedRows
    BY <1>1 DEF IInv, MemoryInv, OwedRows
  <2>. QED
    BY <1>1, <2>1 DEF MemoryInv, TodoIsOwed
<1>8. /\ pc' = [pc EXCEPT ![op] = "recovering"] /\ "recovering" \in Places
      /\ "recovering" \in Running /\ mem \in Memories
  BY <1>1 DEF IInv, TypeOK, Places, Running
<1>. QED
  BY <1>1, <1>2, <1>6, <1>7, <1>8, HolderStep

LEMMA AppendRecoveredStep ==
    ASSUME IInv, NEW op \in Operations, AppendRecovered(op)
    PROVE  IInv'
<1>. DEFINE row == Head(mem.todo)
<1>1. /\ pc[op] = "recovering" /\ pc[op] \in Running /\ mem.todo # <<>>
      /\ mem \in Memories /\ mem.todo \in Seq(OwedRows)
      /\ raw' = raw /\ rawTail' = rawTail /\ calls' = calls
  BY DEF AppendRecovered, AppendEvent, Running, IInv, TypeOK, MemoryInv, TodoIsOwed
<1>2. row \in OwedRows /\ Tail(mem.todo) \in Seq(OwedRows)
  BY <1>1, HeadTailProperties
<1>3. /\ row \in Rows /\ row.kind # "request_started"
      /\ row.kind = "request_finished" => HasRaw(events, raw)
      /\ row.kind = "generation_completed" => NextOrdinal(events, raw) = PlanLength
  BY <1>2 DEF OwedRows
<1>. HIDE DEF row
<1>4. CASE /\ events' = Append(events, row) /\ eventTail' = eventTail
           /\ mem' = [mem EXCEPT !.todo = Tail(mem.todo)] /\ lock' = lock /\ pc' = pc
  <2>1. LedgerInv' /\ OwedRows' = OwedRows
    BY <1>1, <1>3, <1>4, EventAppended DEF IInv, OwedRows
  <2>2. LedgerTypes'
    BY <1>1, <1>3, <1>4 DEF IInv, TypeOK, LedgerTypes
  <2>3. Tail(mem.todo) \in Seq(Rows)
    <3>1. OwedRows \subseteq Rows
      BY DEF OwedRows
    <3>. QED
      BY <1>2, <3>1, SeqMonotonic
  <2>4. mem' \in Memories /\ mem'.todo = Tail(mem.todo)
    BY <1>1, <1>4, <2>3 DEF Memories
  <2>5. MemoryInv(op)'
    BY <1>1, <1>2, <1>4, <2>1, <2>4 DEF MemoryInv, TodoIsOwed
  <2>6. /\ pc' = [pc EXCEPT ![op] = "recovering"]
        /\ "recovering" \in Places /\ "recovering" \in Running
    BY <1>1, <1>4 DEF IInv, TypeOK, Places, Running
  <2>. QED
    BY <1>1, <1>4, <2>1, <2>2, <2>4, <2>5, <2>6, HolderStep
<1>5. CASE /\ \/ events' = Append(events, row) /\ eventTail' = eventTail
              \/ eventTail' = TRUE /\ events' = events
           /\ Return(op, "failed")
  <2>1. events' = Append(events, row) => LedgerInv'
    BY <1>1, <1>3, EventAppended DEF IInv
  <2>2. LedgerTypes' /\ LedgerInv'
    BY <1>1, <1>3, <1>5, <2>1, EventWritten
  <2>. QED
    BY <1>1, <1>5, <2>2, ReturnStep DEF Returned
<1>. QED
  BY <1>4, <1>5 DEF AppendRecovered, AppendEvent, row

(* A capsule that is owed nothing and ready for the provider has a next        *)
(* attempt, and its last request is finished.                                  *)
LEMMA ReadyPosition ==
    ASSUME TypeOK, LedgerInv, Repaired, mem.disposition \notin
               {"complete", "ambiguous", "authentication_stopped"}
    PROVE  /\ ~Open(events)
           /\ RequestHistory(events) => Reason(events, raw) \in Resolved \cup {"none"}
           /\ NextOrdinal(events, raw) \in Ordinals
           /\ NextAttempt(events, raw) \in 1 .. MaxAttempts
<1>1. Disposition(events, raw) = mem.disposition /\ ~NeedsRepair(events, raw)
  BY DEF Repaired
<1>2. Lifecycle(events, raw) \notin
         {"AMBIGUOUS_INFLIGHT", "AUTHENTICATION_STOPPED", "GENERATION_COMPLETE"}
  BY <1>1 DEF Disposition
<1>3. /\ ~RawlessOpen(events, raw)
      /\ Reason(events, raw) # "ambiguous_delivery"
      /\ Reason(events, raw) # "authentication_stopped"
      /\ NextOrdinal(events, raw) # PlanLength
  BY <1>2 DEF Lifecycle
<1>4. ~Open(events)
  BY <1>1, <1>3 DEF RawlessOpen, NeedsRepair, NeedsFinish
<1>5. CASE ~RequestHistory(events)
  BY <1>4, <1>5, PlanIsNotEmpty, RetriesAreNatural
     DEF NextOrdinal, NextAttempt, Ordinals, MaxAttempts
<1>6. CASE RequestHistory(events)
  <2>. DEFINE s == Start(events)
  <2>1. HasRaw(events, raw)
    BY <1>4, <1>6 DEF LedgerInv, StartIsCurrent
  <2>2. /\ s \in Rows /\ s.attempt \in 1 .. MaxAttempts
        /\ Reason(events, raw) \in Reasons
        /\ Reason(events, raw) = "none" => s.attempt <= MaxTransientRetries
    BY <1>6, <2>1, LastRow
  <2>3. Reason(events, raw) \in Resolved \cup {"none"}
    BY <1>3, <2>2 DEF Reasons
  <2>4. NextOrdinal(events, raw) \in Ordinals
    BY <1>3, <1>6, <2>2, PlanIsNotEmpty DEF NextOrdinal, Rows, Ordinals
  <2>5. NextAttempt(events, raw) \in 1 .. MaxAttempts
    BY <2>2, RetriesAreNatural DEF NextAttempt, MaxAttempts
  <2>. QED
    BY <1>4, <2>3, <2>4, <2>5
<1>. QED
  BY <1>5, <1>6

LEMMA FinishRepairStep ==
    ASSUME IInv, NEW op \in Operations, FinishRepair(op)
    PROVE  IInv'
<1>1. LedgerTypes' /\ LedgerInv'
  BY LedgersUnchanged DEF FinishRepair
<1>2. pc[op] \in Running /\ Repaired /\ mem \in Memories
  BY DEF FinishRepair, Running, IInv, TypeOK
<1>3. CASE mem.disposition \in {"complete", "ambiguous", "authentication_stopped"}
  <2>1. Return(op, "complete") \/ Return(op, "operational_stop")
    BY <1>3 DEF FinishRepair
  <2>. QED
    BY <1>1, <1>2, <2>1, ReturnStep DEF Returned
<1>4. CASE mem.disposition \notin {"complete", "ambiguous", "authentication_stopped"}
  <2>1. /\ mem' = [mem EXCEPT !.ordinal = NextOrdinal(events, raw),
                              !.attempt = NextAttempt(events, raw)]
        /\ pc' = [pc EXCEPT ![op] = "ready"] /\ lock' = lock
        /\ events' = events /\ eventTail' = eventTail /\ raw' = raw /\ rawTail' = rawTail
    BY <1>4 DEF FinishRepair, Goto, ledgers
  <2>2. /\ ~Open(events)
        /\ RequestHistory(events) => Reason(events, raw) \in Resolved \cup {"none"}
        /\ NextOrdinal(events, raw) \in Ordinals
        /\ NextAttempt(events, raw) \in 1 .. MaxAttempts
    BY <1>2, <1>4, ReadyPosition DEF IInv
  <2>3. /\ mem' \in Memories
        /\ mem'.ordinal = NextOrdinal(events, raw) /\ mem'.attempt = NextAttempt(events, raw)
    BY <1>2, <2>1, <2>2 DEF Memories
  <2>4. PositionIsNext'
    BY <2>1, <2>2, <2>3 DEF PositionIsNext
  <2>5. pc'[op] = "ready" /\ ~eventTail' /\ ~rawTail'
    BY <1>2, <2>1 DEF IInv, TypeOK, Repaired
  <2>6. MemoryInv(op)'
    BY <2>4, <2>5 DEF MemoryInv
  <2>7. "ready" \in Places /\ "ready" \in Running
    BY DEF Places, Running
  <2>. QED
    BY <1>1, <1>2, <2>1, <2>3, <2>6, <2>7, HolderStep
<1>. QED
  BY <1>3, <1>4

LEMMA RecoverStep ==
    ASSUME IInv, NEW op \in Operations, Recover(op)
    PROVE  IInv'
<1>1. CASE RefuseRuntime(op)
  <2>1. LedgerTypes' /\ LedgerInv'
    BY <1>1, LedgersUnchanged DEF RefuseRuntime
  <2>. QED
    BY <1>1, <2>1, ReturnStep DEF RefuseRuntime, Running, Returned
<1>. QED
  BY <1>1, PlanRecoveryStep, BeginRepairStep, TruncateStep, AppendRecoveredStep,
     FinishRepairStep DEF Recover

-----------------------------------------------------------------------------
(* The execution epoch *)

(* An append whose outcome ends the operation.                                 *)
LEMMA WriteAndReturn ==
    ASSUME IInv, NEW op \in Operations, pc[op] \in Running, NEW row \in Rows,
           NEW result \in Returned, Return(op, result),
           raw' = raw, rawTail' = rawTail, calls' = calls,
           row.kind \notin {"request_started", "request_finished"},
           row.kind = "generation_completed" => NextOrdinal(events, raw) = PlanLength,
           \/ events' = Append(events, row) /\ eventTail' = eventTail
           \/ eventTail' = TRUE /\ events' = events
    PROVE  IInv'
<1>1. events' = Append(events, row) => LedgerInv'
  BY EventAppended DEF IInv
<1>2. LedgerTypes' /\ LedgerInv'
  BY <1>1, EventWritten
<1>. QED
  BY <1>2, ReturnStep

LEMMA HolderMemory ==
    ASSUME IInv, NEW op \in Operations
    PROVE  /\ mem \in Memories /\ mem.ordinal \in Ordinals
           /\ mem.attempt \in 1 .. MaxAttempts /\ mem.attempt \in 0 .. MaxAttempts
           /\ 0 \in Ordinals /\ 0 \in 0 .. MaxAttempts /\ PlanLength - 1 \in Ordinals
           /\ pc[op] \in Places /\ MemoryInv(op)
<1>1. mem \in Memories /\ pc[op] \in Places /\ MemoryInv(op)
  BY DEF IInv, TypeOK
<1>2. MaxAttempts \in Nat /\ 0 \in Ordinals /\ PlanLength - 1 \in Ordinals
  BY PlanIsNotEmpty, RetriesAreNatural DEF Ordinals, MaxAttempts
<1>3. mem.ordinal \in Ordinals /\ mem.attempt \in 1 .. MaxAttempts
  BY <1>1 DEF Memories
<1>. QED
  BY <1>1, <1>2, <1>3

LEMMA StartExecutionStep ==
    ASSUME IInv, NEW op \in Operations, StartExecution(op)
    PROVE  IInv'
<1>. DEFINE row == Event("execution_started", op, FALSE, mem.ordinal, 0, 0)
<1>1. row \in Rows /\ row.kind = "execution_started"
  BY HolderMemory DEF Event, Rows
<1>. HIDE DEF row
<1>2. /\ pc[op] = "ready" /\ pc[op] \in Running
      /\ raw' = raw /\ rawTail' = rawTail /\ calls' = calls
      /\ PositionIsNext /\ ~eventTail /\ ~rawTail
  BY HolderMemory DEF StartExecution, AppendEvent, Running, MemoryInv
<1>3. CASE /\ events' = Append(events, row) /\ eventTail' = eventTail
           /\ Continue(op, "epoch")
  <2>1. LedgerTypes' /\ LedgerInv' /\ PositionIsNext'
    BY <1>1, <1>2, <1>3, EventAppended, EventWritten DEF IInv, PositionIsNext, Continue
  <2>2. /\ pc' = [pc EXCEPT ![op] = "epoch"] /\ lock' = lock /\ mem' = mem
        /\ pc'[op] = "epoch" /\ "epoch" \in Places /\ "epoch" \in Running
    BY <1>3 DEF Continue, Goto, IInv, TypeOK, Places, Running
  <2>3. MemoryInv(op)'
    BY <1>2, <1>3, <2>1, <2>2 DEF MemoryInv
  <2>. QED
    BY <1>2, <2>1, <2>2, <2>3, HolderMemory, HolderStep
<1>4. CASE /\ \/ events' = Append(events, row) /\ eventTail' = eventTail
              \/ eventTail' = TRUE /\ events' = events
           /\ Return(op, "failed")
  BY <1>1, <1>2, <1>4, WriteAndReturn DEF Returned
<1>. QED
  BY <1>3, <1>4 DEF StartExecution, AppendEvent, row

LEMMA InterruptStep ==
    ASSUME IInv, NEW op \in Operations, Interrupt(op) \/ Block(op)
    PROVE  IInv'
<1>. DEFINE interrupted == Event("execution_interrupted", op, FALSE, mem.ordinal, 0, 0)
            blocked == Event("execution_blocked", op, FALSE, 0, 0, 0)
<1>1. /\ interrupted \in Rows /\ interrupted.kind = "execution_interrupted"
      /\ blocked \in Rows /\ blocked.kind = "execution_blocked"
  BY HolderMemory DEF Event, Rows
<1>. HIDE DEF interrupted, blocked
<1>2. /\ pc[op] \in Running
      /\ raw' = raw /\ rawTail' = rawTail /\ calls' = calls
  BY DEF Interrupt, Block, AppendEvent, Running
<1>3. \E row \in {interrupted, blocked}, result \in {"operational_stop", "failed"} :
         /\ \/ events' = Append(events, row) /\ eventTail' = eventTail
            \/ eventTail' = TRUE /\ events' = events
         /\ Return(op, result)
  BY DEF Interrupt, Block, AppendEvent, interrupted, blocked
<1>. QED
  BY <1>1, <1>2, <1>3, WriteAndReturn DEF Returned

LEMMA BindProviderStep ==
    ASSUME IInv, NEW op \in Operations, BindProvider(op)
    PROVE  IInv'
<1>1. LedgerTypes' /\ LedgerInv'
  BY LedgersUnchanged DEF BindProvider
<1>2. /\ pc[op] = "epoch" /\ pc[op] \in Running /\ PositionIsNext /\ ~eventTail /\ ~rawTail
      /\ "item" \in Places /\ "item" \in Running
      /\ pc' = [pc EXCEPT ![op] = "item"] /\ lock' = lock /\ mem' = mem /\ pc'[op] = "item"
  BY HolderMemory DEF BindProvider, Continue, Goto, Running, Places, MemoryInv, IInv, TypeOK
<1>3. PositionIsNext' /\ ~eventTail' /\ ~rawTail'
  BY <1>2 DEF BindProvider, ledgers, PositionIsNext
<1>4. MemoryInv(op)'
  BY <1>2, <1>3 DEF MemoryInv
<1>. QED
  BY <1>1, <1>2, <1>4, HolderMemory, HolderStep

LEMMA StartRequestStep ==
    ASSUME IInv, NEW op \in Operations, StartRequest(op)
    PROVE  IInv'
<1>. DEFINE row == RequestStarted(op, mem.ordinal, mem.attempt, Len(raw))
<1>1. /\ row \in Rows /\ row.kind = "request_started"
      /\ row.item = mem.ordinal /\ row.attempt = mem.attempt /\ row.call = Len(raw)
  BY HolderMemory DEF RequestStarted, Event, Rows, IInv, TypeOK
<1>. HIDE DEF row
<1>2. /\ pc[op] = "item" /\ pc[op] \in Running
      /\ raw' = raw /\ rawTail' = rawTail /\ calls' = calls
      /\ PositionIsNext /\ ~eventTail /\ ~rawTail
  BY HolderMemory DEF StartRequest, AppendEvent, Running, MemoryInv
<1>3. events' = Append(events, row) =>
         /\ LedgerInv' /\ RequestHistory(events') /\ Start(events') = row
         /\ Open(events') /\ ~HasRaw(events', raw')
  BY <1>1, <1>2, StartAppended DEF IInv
<1>4. /\ \/ events' = Append(events, row) /\ eventTail' = eventTail
         \/ eventTail' = TRUE /\ events' = events
      /\ \/ events' = Append(events, row) /\ eventTail' = eventTail /\ Continue(op, "started")
         \/ Return(op, "failed")
  BY DEF StartRequest, AppendEvent, row
<1>5. LedgerTypes' /\ LedgerInv'
  BY <1>1, <1>2, <1>3, <1>4, EventWritten
<1>6. CASE events' = Append(events, row) /\ eventTail' = eventTail /\ Continue(op, "started")
  <2>1. /\ pc' = [pc EXCEPT ![op] = "started"] /\ lock' = lock /\ mem' = mem
        /\ pc'[op] = "started" /\ "started" \in Places /\ "started" \in Running
    BY <1>6 DEF Continue, Goto, IInv, TypeOK, Places, Running
  <2>2. StartIsMine' /\ Open(events)' /\ ~HasRaw(events, raw)'
    BY <1>1, <1>3, <1>6, <2>1 DEF StartIsMine
  <2>3. Len(calls') = Len(raw') /\ MayAsk(mem.ordinal, mem.attempt)'
    <3>1. Len(calls) = Len(raw) /\ MayAsk(mem.ordinal, mem.attempt)
      BY <1>2, PositionMayBeAsked DEF IInv
    <3>. QED
      BY <1>2, <2>1, <3>1 DEF MayAsk
  <2>4. MemoryInv(op)'
    BY <1>2, <1>6, <2>1, <2>2, <2>3 DEF MemoryInv
  <2>. QED
    BY <1>2, <1>5, <2>1, <2>4, HolderMemory, HolderStep
<1>7. CASE Return(op, "failed")
  BY <1>2, <1>5, <1>7, ReturnStep DEF Returned
<1>. QED
  BY <1>4, <1>6, <1>7

LEMMA LeaveStep ==
    ASSUME IInv, NEW op \in Operations, LeaveAmbiguous(op) \/ Fail(op)
    PROVE  IInv'
<1>1. LedgerTypes' /\ LedgerInv'
  BY LedgersUnchanged DEF LeaveAmbiguous, Fail
<1>. QED
  BY <1>1, ReturnStep DEF LeaveAmbiguous, Fail, Running, Returned

LEMMA CallProviderStep ==
    ASSUME IInv, NEW op \in Operations, CallProvider(op)
    PROVE  IInv'
<1>. DEFINE call == [item |-> mem.ordinal, attempt |-> mem.attempt, learnt |-> "in_flight"]
<1>1. call \in Calls /\ call.item = mem.ordinal /\ call.attempt = mem.attempt
  BY HolderMemory DEF Calls
<1>2. calls' = Append(calls, call)
  BY DEF CallProvider
<1>. HIDE DEF call
<1>3. /\ pc[op] = "started" /\ pc[op] \in Running
      /\ "calling" \in Places /\ "calling" \in Running
      /\ pc' = [pc EXCEPT ![op] = "calling"] /\ lock' = lock /\ mem' = mem
      /\ pc'[op] = "calling"
      /\ events' = events /\ eventTail' = eventTail /\ raw' = raw /\ rawTail' = rawTail
  BY DEF CallProvider, Continue, Goto, Running, Places, IInv, TypeOK, ledgers
<1>4. /\ StartIsMine /\ Open(events) /\ ~HasRaw(events, raw) /\ ~eventTail /\ ~rawTail
      /\ Len(calls) = Len(raw) /\ MayAsk(mem.ordinal, mem.attempt)
  BY <1>3, HolderMemory DEF MemoryInv
<1>5. LedgerInv' /\ Len(calls') = Len(raw') + 1
  BY <1>1, <1>2, <1>3, <1>4, CallAppended DEF IInv
<1>6. LedgerTypes'
  BY <1>1, <1>2, <1>3 DEF IInv, TypeOK, LedgerTypes
<1>7. MemoryInv(op)'
  BY <1>3, <1>4, <1>5 DEF MemoryInv, StartIsMine
<1>. QED
  BY <1>3, <1>5, <1>6, <1>7, HolderMemory, HolderStep

(* The decision keeps what was learnt: a retry only of a refusal, success only *)
(* of a response, ambiguity exactly when delivery is unknown.                  *)
LEMMA DecisionFitsEvidence ==
    ASSUME NEW e \in Evidence, NEW attempt \in 1 .. MaxAttempts
    PROVE  /\ Learnt(e) \in {"refused", "received", "unknown"}
           /\ Decision(e, attempt) \in Reasons
           /\ Decision(e, attempt) = "none" =>
                  Learnt(e) = "refused" /\ attempt <= MaxTransientRetries
           /\ Decision(e, attempt) = "success" => Learnt(e) = "received"
           /\ Decision(e, attempt) = "ambiguous_delivery" <=> Learnt(e) = "unknown"
<1>1. /\ e.certainty \in Certainties
      /\ e.fault \in {"none", "authentication", "transient", "permanent"}
      /\ e.fault = "none" => e.certainty = "response_received"
      /\ e.fault = "authentication" => e.certainty \in {"definitely_rejected", "response_received"}
  BY DEF Evidence
<1>2. CASE e.fault = "none"
  BY <1>1, <1>2 DEF Learnt, Decision, Definite, Reasons, Resolved
<1>3. CASE e.fault = "authentication"
  BY <1>1, <1>3 DEF Learnt, Decision, Definite, Reasons, Resolved
<1>4. CASE e.fault = "transient"
  BY <1>1, <1>4 DEF Learnt, Decision, Definite, Certainties, Reasons, Resolved
<1>5. CASE e.fault = "permanent"
  BY <1>1, <1>5 DEF Learnt, Decision, Definite, Certainties, Reasons, Resolved
<1>. QED
  BY <1>1, <1>2, <1>3, <1>4, <1>5

LEMMA ProviderReturnsStep ==
    ASSUME IInv, NEW op \in Operations, ProviderReturns(op)
    PROVE  IInv'
<1>1. PICK e \in Evidence :
         /\ mem' = [mem EXCEPT !.reason = Decision(e, mem.attempt)]
         /\ calls' = [calls EXCEPT ![Len(calls)].learnt = Learnt(e)]
  BY DEF ProviderReturns
<1>2. /\ pc[op] = "calling" /\ pc[op] \in Running
      /\ "answered" \in Places /\ "answered" \in Running
      /\ pc' = [pc EXCEPT ![op] = "answered"] /\ lock' = lock /\ pc'[op] = "answered"
      /\ events' = events /\ eventTail' = eventTail /\ raw' = raw /\ rawTail' = rawTail
  BY DEF ProviderReturns, Goto, Running, Places, IInv, TypeOK, ledgers
<1>3. /\ StartIsMine /\ Open(events) /\ ~HasRaw(events, raw) /\ ~eventTail /\ ~rawTail
      /\ Len(calls) = Len(raw) + 1
  BY <1>2, HolderMemory DEF MemoryInv
<1>4. /\ Learnt(e) \in {"refused", "received", "unknown"}
      /\ Decision(e, mem.attempt) \in Reasons
      /\ Decision(e, mem.attempt) = "none" =>
             Learnt(e) = "refused" /\ mem.attempt <= MaxTransientRetries
      /\ Decision(e, mem.attempt) = "success" => Learnt(e) = "received"
      /\ Decision(e, mem.attempt) = "ambiguous_delivery" <=> Learnt(e) = "unknown"
  BY HolderMemory, DecisionFitsEvidence
<1>5. /\ LedgerInv' /\ calls' \in Seq(Calls) /\ Len(calls') = Len(raw') + 1
      /\ calls'[Len(calls')].learnt = Learnt(e)
  BY <1>1, <1>2, <1>3, <1>4, CallLearnt DEF IInv
<1>6. /\ mem' \in Memories /\ mem'.reason = Decision(e, mem.attempt)
      /\ mem'.ordinal = mem.ordinal /\ mem'.attempt = mem.attempt
  BY <1>1, <1>4, HolderMemory DEF Memories
<1>7. LedgerTypes'
  BY <1>2, <1>5 DEF IInv, TypeOK, LedgerTypes
<1>8. AnswerIsKept'
  BY <1>4, <1>5, <1>6 DEF AnswerIsKept
<1>9. StartIsMine'
  BY <1>2, <1>3, <1>6 DEF StartIsMine
<1>10. MemoryInv(op)'
  BY <1>2, <1>3, <1>5, <1>8, <1>9 DEF MemoryInv
<1>. QED
  BY <1>2, <1>5, <1>6, <1>7, <1>10, HolderStep

LEMMA RecordAttemptStep ==
    ASSUME IInv, NEW op \in Operations, RecordAttempt(op)
    PROVE  IInv'
<1>. DEFINE row == RawRow(Start(events), mem.reason)
<1>1. /\ pc[op] = "answered" /\ pc[op] \in Running
      /\ events' = events /\ eventTail' = eventTail /\ calls' = calls
      /\ StartIsMine /\ Open(events) /\ ~HasRaw(events, raw) /\ ~eventTail /\ ~rawTail
      /\ Len(calls) = Len(raw) + 1 /\ AnswerIsKept
  BY HolderMemory DEF RecordAttempt, AppendRaw, Running, MemoryInv
<1>2. raw' = Append(raw, row) =>
         /\ LedgerInv' /\ raw' \in Seq(RawRows)
         /\ HasRaw(events', raw') /\ Reason(events', raw') = mem.reason
  BY <1>1, RowRecorded DEF IInv
<1>. HIDE DEF row
<1>3. /\ \/ raw' = Append(raw, row) /\ rawTail' = rawTail
         \/ rawTail' = TRUE /\ raw' = raw
      /\ \/ raw' = Append(raw, row) /\ rawTail' = rawTail /\ Continue(op, "recorded")
         \/ Return(op, "failed")
  BY DEF RecordAttempt, AppendRaw, row
<1>4. LedgerTypes' /\ LedgerInv'
  <2>1. LedgerInv'
    BY <1>1, <1>2, <1>3, RowsUnchanged DEF IInv
  <2>2. raw' \in Seq(RawRows) /\ rawTail' \in BOOLEAN
    BY <1>2, <1>3 DEF IInv, TypeOK
  <2>. QED
    BY <1>1, <2>1, <2>2 DEF IInv, TypeOK, LedgerTypes
<1>5. CASE raw' = Append(raw, row) /\ rawTail' = rawTail /\ Continue(op, "recorded")
  <2>1. /\ pc' = [pc EXCEPT ![op] = "recorded"] /\ lock' = lock /\ mem' = mem
        /\ pc'[op] = "recorded" /\ "recorded" \in Places /\ "recorded" \in Running
    BY <1>5 DEF Continue, Goto, IInv, TypeOK, Places, Running
  <2>2. StartIsMine'
    BY <1>1, <2>1 DEF StartIsMine
  <2>3. MemoryInv(op)'
    BY <1>1, <1>2, <1>5, <2>1, <2>2 DEF MemoryInv
  <2>. QED
    BY <1>1, <1>4, <2>1, <2>3, HolderMemory, HolderStep
<1>6. CASE Return(op, "failed")
  BY <1>1, <1>4, <1>6, ReturnStep DEF Returned
<1>. QED
  BY <1>3, <1>5, <1>6

LEMMA FinishRequestStep ==
    ASSUME IInv, NEW op \in Operations, FinishRequest(op)
    PROVE  IInv'
<1>. DEFINE row == RequestFinished(op, FALSE, Start(events))
<1>1. /\ pc[op] = "recorded" /\ pc[op] \in Running
      /\ raw' = raw /\ rawTail' = rawTail /\ calls' = calls
      /\ StartIsMine /\ HasRaw(events, raw) /\ Reason(events, raw) = mem.reason
      /\ ~eventTail /\ ~rawTail
  BY HolderMemory DEF FinishRequest, AppendEvent, Running, MemoryInv
<1>2. row \in Rows /\ row.kind = "request_finished"
  <2>1. Start(events) \in Rows
    BY <1>1, LastRow DEF IInv, StartIsMine
  <2>. QED
    BY <2>1 DEF RequestFinished, Event, Rows
<1>. HIDE DEF row
<1>3. events' = Append(events, row) =>
         /\ LedgerInv' /\ RequestHistory(events') /\ Start(events') = Start(events)
         /\ HasRaw(events', raw') /\ Reason(events', raw') = Reason(events, raw)
         /\ ~Open(events')
  BY <1>1, <1>2, EventAppended DEF IInv, StartIsMine
<1>4. /\ \/ events' = Append(events, row) /\ eventTail' = eventTail
         \/ eventTail' = TRUE /\ events' = events
      /\ \/ events' = Append(events, row) /\ eventTail' = eventTail /\ Continue(op, "finished")
         \/ Return(op, "failed")
  BY DEF FinishRequest, AppendEvent, row
<1>5. LedgerTypes' /\ LedgerInv'
  BY <1>1, <1>2, <1>3, <1>4, EventWritten
<1>6. CASE events' = Append(events, row) /\ eventTail' = eventTail /\ Continue(op, "finished")
  <2>1. /\ pc' = [pc EXCEPT ![op] = "finished"] /\ lock' = lock /\ mem' = mem
        /\ pc'[op] = "finished" /\ "finished" \in Places /\ "finished" \in Running
    BY <1>6 DEF Continue, Goto, IInv, TypeOK, Places, Running
  <2>2. StartIsMine'
    BY <1>1, <1>3, <1>6, <2>1 DEF StartIsMine
  <2>3. MemoryInv(op)'
    BY <1>1, <1>3, <1>6, <2>1, <2>2 DEF MemoryInv
  <2>. QED
    BY <1>1, <1>5, <2>1, <2>3, HolderMemory, HolderStep
<1>7. CASE Return(op, "failed")
  BY <1>1, <1>5, <1>7, ReturnStep DEF Returned
<1>. QED
  BY <1>4, <1>6, <1>7

(* The position after a finished attempt, seen from the attempt's reason.      *)
LEMMA FinishedPosition ==
    ASSUME IInv, NEW op \in Operations, pc[op] \in {"finished", "completing"}
    PROVE  /\ StartIsMine /\ ~Open(events) /\ ~eventTail /\ ~rawTail
           /\ Reason(events, raw) = mem.reason
           /\ mem.reason \in Resolved => /\ NextOrdinal(events, raw) = mem.ordinal + 1
                                         /\ NextAttempt(events, raw) = 1
           /\ mem.reason = "none" => /\ NextOrdinal(events, raw) = mem.ordinal
                                     /\ NextAttempt(events, raw) = mem.attempt + 1
           /\ pc[op] = "completing" => NextOrdinal(events, raw) = PlanLength
<1>1. /\ StartIsMine /\ HasRaw(events, raw) /\ Reason(events, raw) = mem.reason
      /\ ~Open(events) /\ ~eventTail /\ ~rawTail
      /\ pc[op] = "completing" => mem.reason \in Resolved /\ mem.ordinal = PlanLength - 1
  BY HolderMemory DEF MemoryInv
<1>2. mem.reason \in Resolved => /\ NextOrdinal(events, raw) = mem.ordinal + 1
                                 /\ NextAttempt(events, raw) = 1
  BY <1>1 DEF StartIsMine, NextOrdinal, NextAttempt
<1>3. mem.reason = "none" => /\ NextOrdinal(events, raw) = mem.ordinal
                             /\ NextAttempt(events, raw) = mem.attempt + 1
  BY <1>1 DEF StartIsMine, NextOrdinal, NextAttempt, Resolved
<1>. QED
  BY <1>1, <1>2, <1>3, PlanIsNotEmpty

LEMMA EndStep ==
    ASSUME IInv, NEW op \in Operations, MarkStop(op) \/ CompleteGeneration(op)
    PROVE  IInv'
<1>1. /\ pc[op] \in {"finished", "completing"} /\ pc[op] \in Running
      /\ raw' = raw /\ rawTail' = rawTail /\ calls' = calls
  BY DEF MarkStop, CompleteGeneration, AppendEvent, Running
<1>2. CASE MarkStop(op)
  <2>. DEFINE row == Marker(MarkerOf(mem.reason), op, FALSE, Start(events))
  <2>1. Start(events) \in Rows
    BY <1>1, LastRow, FinishedPosition DEF IInv, StartIsMine
  <2>2. MarkerOf(mem.reason) \in {"authentication_stopped", "delivery_ambiguous"}
    BY <1>2 DEF MarkStop, MarkerOf
  <2>3. row \in Rows /\ row.kind \in {"authentication_stopped", "delivery_ambiguous"}
    BY <2>1, <2>2, HolderMemory DEF Marker, Event, Rows
  <2>. HIDE DEF row
  <2>4. /\ \/ events' = Append(events, row) /\ eventTail' = eventTail
           \/ eventTail' = TRUE /\ events' = events
        /\ Return(op, "operational_stop") \/ Return(op, "failed")
    BY <1>2 DEF MarkStop, AppendEvent, row
  <2>. QED
    BY <1>1, <2>3, <2>4, WriteAndReturn DEF Returned
<1>3. CASE CompleteGeneration(op)
  <2>. DEFINE row == GenerationCompleted(op, FALSE)
  <2>1. row \in Rows /\ row.kind = "generation_completed"
    BY HolderMemory DEF GenerationCompleted, Event, Rows
  <2>. HIDE DEF row
  <2>2. /\ \/ events' = Append(events, row) /\ eventTail' = eventTail
           \/ eventTail' = TRUE /\ events' = events
        /\ Return(op, "complete") \/ Return(op, "failed")
    BY <1>3 DEF CompleteGeneration, AppendEvent, row
  <2>3. NextOrdinal(events, raw) = PlanLength
    BY <1>3, FinishedPosition DEF CompleteGeneration
  <2>. QED
    BY <1>1, <2>1, <2>2, <2>3, WriteAndReturn DEF Returned
<1>. QED
  BY <1>2, <1>3

LEMMA NextItemStep ==
    ASSUME IInv, NEW op \in Operations, NextItem(op) \/ Backoff(op)
    PROVE  IInv'
<1>1. LedgerTypes' /\ LedgerInv'
  BY LedgersUnchanged DEF NextItem, Backoff
<1>2. /\ pc[op] = "finished" /\ pc[op] \in Running /\ lock' = lock
      /\ events' = events /\ eventTail' = eventTail /\ raw' = raw /\ rawTail' = rawTail
      /\ {"item", "completing"} \subseteq Places /\ {"item", "completing"} \subseteq Running
      /\ pc \in [Operations -> Places]
  BY DEF NextItem, Backoff, Continue, ledgers, Running, Places, IInv, TypeOK
<1>3. /\ StartIsMine /\ HasRaw(events, raw) /\ ~Open(events) /\ ~eventTail /\ ~rawTail
      /\ Reason(events, raw) = mem.reason
      /\ mem.reason \in Resolved => /\ NextOrdinal(events, raw) = mem.ordinal + 1
                                    /\ NextAttempt(events, raw) = 1
      /\ mem.reason = "none" => /\ NextOrdinal(events, raw) = mem.ordinal
                                /\ NextAttempt(events, raw) = mem.attempt + 1
  BY <1>2, FinishedPosition, HolderMemory DEF MemoryInv
<1>4. CASE NextItem(op) /\ mem.ordinal = PlanLength - 1
  <2>1. /\ pc' = [pc EXCEPT ![op] = "completing"] /\ mem' = mem /\ pc'[op] = "completing"
        /\ mem.reason \in Resolved
    BY <1>2, <1>4 DEF NextItem, Continue, Goto
  <2>2. MemoryInv(op)'
    BY <1>2, <1>3, <1>4, <2>1 DEF MemoryInv, StartIsMine
  <2>. QED
    BY <1>1, <1>2, <2>1, <2>2, HolderMemory, HolderStep
<1>5. CASE NextItem(op) /\ mem.ordinal # PlanLength - 1
  <2>1. /\ pc' = [pc EXCEPT ![op] = "item"] /\ pc'[op] = "item" /\ mem.reason \in Resolved
        /\ mem' = [mem EXCEPT !.ordinal = mem.ordinal + 1, !.attempt = 1, !.reason = "missing"]
    BY <1>2, <1>5 DEF NextItem, Goto
  <2>2. mem.ordinal + 1 \in Ordinals /\ 1 \in 1 .. MaxAttempts
    BY <1>5, HolderMemory, PlanIsNotEmpty, RetriesAreNatural DEF Ordinals, MaxAttempts
  <2>3. mem' \in Memories /\ mem'.ordinal = mem.ordinal + 1 /\ mem'.attempt = 1
    BY <2>1, <2>2, HolderMemory DEF Memories
  <2>4. PositionIsNext'
    BY <1>2, <1>3, <2>1, <2>3 DEF PositionIsNext
  <2>5. MemoryInv(op)'
    BY <1>2, <1>3, <2>1, <2>4 DEF MemoryInv
  <2>. QED
    BY <1>1, <1>2, <2>1, <2>3, <2>5, HolderStep
<1>6. CASE Backoff(op)
  <2>1. /\ pc' = [pc EXCEPT ![op] = "item"] /\ pc'[op] = "item" /\ mem.reason = "none"
        /\ mem' = [mem EXCEPT !.attempt = mem.attempt + 1, !.reason = "missing"]
        /\ mem.attempt < MaxAttempts
    BY <1>2, <1>6 DEF Backoff, Goto
  <2>2. mem.attempt + 1 \in 1 .. MaxAttempts
    BY <2>1, HolderMemory, RetriesAreNatural DEF MaxAttempts
  <2>3. mem' \in Memories /\ mem'.ordinal = mem.ordinal /\ mem'.attempt = mem.attempt + 1
    BY <2>1, <2>2, HolderMemory DEF Memories
  <2>4. PositionIsNext'
    BY <1>2, <1>3, <2>1, <2>3 DEF PositionIsNext
  <2>5. MemoryInv(op)'
    BY <1>2, <1>3, <2>1, <2>4 DEF MemoryInv
  <2>. QED
    BY <1>1, <1>2, <2>1, <2>3, <2>5, HolderStep
<1>. QED
  BY <1>4, <1>5, <1>6

LEMMA ExecuteStep ==
    ASSUME IInv, NEW op \in Operations, Execute(op) \/ Stop(op)
    PROVE  IInv'
BY StartExecutionStep, InterruptStep, BindProviderStep, StartRequestStep, LeaveStep,
   CallProviderStep, ProviderReturnsStep, RecordAttemptStep, FinishRequestStep,
   EndStep, NextItemStep DEF Execute, Stop

-----------------------------------------------------------------------------
(* Theorems *)

LEMMA InitInv == Init => IInv
<1>. SUFFICES ASSUME Init PROVE IInv
  OBVIOUS
<1>1. /\ 0 \in Ordinals /\ 0 \in 0 .. MaxAttempts /\ 0 \in Nat
  BY PlanIsNotEmpty, RetriesAreNatural DEF Ordinals, MaxAttempts
<1>2. Prepared \in Rows /\ Prepared.kind = "prepared"
  BY <1>1 DEF Prepared, Event, Rows
<1>3. /\ events = <<Prepared>> /\ raw = <<>> /\ calls = <<>>
      /\ events \in Seq(Rows) /\ Len(events) = 1 /\ events[1].kind = "prepared"
  BY <1>2 DEF Init
<1>4. TypeOK
  <2>1. raw \in Seq(RawRows) /\ calls \in Seq(Calls)
    BY <1>3
  <2>2. pc \in [Operations -> Places]
    BY DEF Init, Places
  <2>. QED
    BY <1>3, <2>1, <2>2, NoMemoryTyped DEF Init, TypeOK
<1>5. \A op \in Operations : pc[op] \notin Running
  BY DEF Init, Running
<1>6. \A K : "prepared" \notin K => IsLast(events, K, 0)
  BY <1>3 DEF IsLast
<1>7. LastsExist
  BY <1>3, <1>6 DEF LastsExist, HasLast, Starts, Requests, Completions
<1>8. ~RequestHistory(events) /\ ~Completed(events)
  BY <1>3, <1>6, LastIsIt DEF RequestHistory, LastStart, Completed
<1>9. StartIsCurrent /\ ItemsBeforeAreResolved /\ CompletionIsEarned
  BY <1>3, <1>8, PlanIsNotEmpty
     DEF StartIsCurrent, ItemsBeforeAreResolved, CompletionIsEarned, NextOrdinal, Ordinals
<1>10. /\ StartsAreAttempts /\ RawIsLearnt /\ CallsAscend /\ RawRowsAreCalls
       /\ CallsAreAnnounced /\ CallsFollowThePlan /\ NoCallAfterPossibleDelivery
  BY <1>3 DEF StartsAreAttempts, RawIsLearnt, CallsAscend, RawRowsAreCalls,
              CallsAreAnnounced, CallsFollowThePlan, NoCallAfterPossibleDelivery
<1>. QED
  BY <1>4, <1>5, <1>7, <1>9, <1>10, IdleMemory DEF IInv, SingleMutator, LedgerInv

LEMMA NextInv == IInv /\ [Next]_vars => IInv'
BY AcquireLockStep, RecoverStep, ExecuteStep, LeaveStep, StutterStep DEF Next, Step, Advance

(* The strengthening holds in every reachable state: preparation establishes   *)
(* it and every step of a resume, of a repair or of a dying process keeps it.  *)
THEOREM Inductive == Spec => []IInv
BY InitInv, NextInv, PTL DEF Spec

(* Every variable keeps its type.                                              *)
THEOREM TypeCorrect == Spec => []TypeOK
<1>1. IInv => TypeOK
  BY DEF IInv
<1>. QED
  BY <1>1, Inductive, PTL

(* At most one operation mutates the capsule: the one that holds the lock.     *)
THEOREM OneMutator == Spec => []SingleMutator
<1>1. IInv => SingleMutator
  BY DEF IInv
<1>. QED
  BY <1>1, Inductive, PTL

(* However many resumes, crashes and failed writes there are, the provider is  *)
(* not called for an item after a call for it that may have been delivered,    *)
(* nor at all after one whose delivery is unknown.                             *)
THEOREM NoRepeatedDelivery == Spec => []NoCallAfterPossibleDelivery
<1>1. IInv => NoCallAfterPossibleDelivery
  BY DEF IInv, LedgerInv
<1>. QED
  BY <1>1, Inductive, PTL

(* Every call was announced by a committed request_started row.                *)
THEOREM WriteAhead == Spec => []CallsAreAnnounced
<1>1. IInv => CallsAreAnnounced
  BY DEF IInv, LedgerInv
<1>. QED
  BY <1>1, Inductive, PTL

(* Raw rows are, in order, evidence of the calls that were made.               *)
THEOREM RawEvidence == Spec => []RawRowsAreCalls
<1>1. IInv => RawRowsAreCalls
  BY DEF IInv, LedgerInv
<1>. QED
  BY <1>1, Inductive, PTL

(* The calls walk the plan in order, with bounded and consecutive attempts.    *)
THEOREM PlanOrder == Spec => []CallsFollowThePlan
<1>1. IInv => CallsFollowThePlan
  BY DEF IInv, LedgerInv
<1>. QED
  BY <1>1, Inductive, PTL

(* A committed completion row means that every plan item is resolved.          *)
THEOREM EarnedCompletion == Spec => []CompletionIsEarned
<1>1. IInv => CompletionIsEarned
  BY DEF IInv, LedgerInv
<1>. QED
  BY <1>1, Inductive, PTL

(* The epoch's position in memory is the one the ledgers give, and they owe    *)
(* nothing.                                                                    *)
THEOREM CurrentPosition == Spec => []PositionIsCurrent
<1>1. IInv => PositionIsCurrent
  <2>. SUFFICES ASSUME IInv, NEW op \in Operations, pc[op] \in {"ready", "epoch", "item"}
                PROVE  /\ mem.ordinal = NextOrdinal(events, raw)
                       /\ mem.attempt = NextAttempt(events, raw)
                       /\ ~Open(events) /\ ~NeedsRepair(events, raw)
                       /\ ~eventTail /\ ~rawTail
    BY DEF PositionIsCurrent
  <2>1. PositionIsNext /\ ~eventTail /\ ~rawTail /\ mem.ordinal \in Ordinals
    BY HolderMemory DEF MemoryInv
  <2>2. ~NeedsFinish(events, raw)
    BY <2>1 DEF PositionIsNext, NeedsFinish
  <2>3. ~NeedsMarker(events, raw)
    BY <2>1 DEF PositionIsNext, NeedsMarker, MarkerOf, Reason, HasRaw, Resolved
  <2>4. ~NeedsCompletion(events, raw)
    BY <2>1, PlanIsNotEmpty DEF PositionIsNext, NeedsCompletion, Ordinals
  <2>. QED
    BY <2>1, <2>2, <2>3, <2>4 DEF PositionIsNext, NeedsRepair
<1>. QED
  BY <1>1, Inductive, PTL

(* Between a start and its raw row the ledgers read as an ambiguous delivery   *)
(* that no repair can settle.                                                  *)
THEOREM StartIsAmbiguous == Spec => []UnmatchedStartIsAmbiguous
<1>1. IInv => UnmatchedStartIsAmbiguous
  <2>. SUFFICES ASSUME IInv, NEW op \in Operations, pc[op] \in {"started", "calling", "answered"}
                PROVE  /\ Lifecycle(events, raw) = "AMBIGUOUS_INFLIGHT"
                       /\ ~NeedsRepair(events, raw)
    BY DEF UnmatchedStartIsAmbiguous
  <2>1. StartIsMine /\ Open(events) /\ ~HasRaw(events, raw) /\ mem.ordinal \in Ordinals
    BY HolderMemory DEF MemoryInv
  <2>2. Reason(events, raw) = "missing" /\ NextOrdinal(events, raw) = mem.ordinal
    BY <2>1 DEF Reason, NextOrdinal, StartIsMine, Resolved
  <2>3. ~NeedsRepair(events, raw)
    BY <2>1, <2>2, PlanIsNotEmpty
       DEF NeedsRepair, NeedsFinish, NeedsMarker, MarkerOf, NeedsCompletion, Ordinals
  <2>. QED
    BY <2>1, <2>3 DEF Lifecycle, RawlessOpen
<1>. QED
  BY <1>1, Inductive, PTL

(* In every reachable state the ledgers tell what the provider saw.            *)
THEOREM CallsAreTold == Spec => []LedgersTellTheCalls
BY WriteAhead, RawEvidence, StartIsAmbiguous, PTL DEF LedgersTellTheCalls

(* In every reachable state calls, position and completion follow the plan.    *)
THEOREM OnePlan == Spec => []PlanIsFollowed
BY PlanOrder, EarnedCompletion, CurrentPosition, PTL DEF PlanIsFollowed
=============================================================================
