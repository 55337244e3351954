-------------------------- MODULE EvaluationProofs --------------------------
(* Theorems about the programs outside the capsule.                            *)
(* ExploratoryRun, for every plan, prices, token bounds and budget: the        *)
(* arithmetic of a reservation, and the invariant of the money and of the      *)
(* results from which its four properties follow.                              *)
(* ScorePublication, for any sets of score and report commands: the invariant  *)
(* says, for each place in the code of score, which files are in the           *)
(* directory, which of them the command knows and whose the directory is.      *)
(* LegacyRunner, for any plan and any number of invocations: the rows are in   *)
(* plan order and the attempts of an item follow one another, so that an       *)
(* invocation resumes where the rows end, and the last call is the one of the  *)
(* last row or of the next.                                                    *)
EXTENDS MCEvaluation, FiniteSetTheorems, SequenceTheorems, TLAPS

-----------------------------------------------------------------------------
(* Prices *)

LEMMA Division ==
    ASSUME NEW a \in Nat, NEW b \in Nat \ {0}
    PROVE  a \div b \in Nat /\ b * (a \div b) <= a /\ a < b * (a \div b) + b
OBVIOUS

(* Rounding up costs less than one unit of money.                              *)
LEMMA PricedRoundsUp ==
    ASSUME ConstantsAreLegal, NEW t \in Nat, NEW r \in Nat
    PROVE  /\ Priced(t, r) \in Nat
           /\ t * r <= Unit * Priced(t, r) /\ Unit * Priced(t, r) < t * r + Unit
<1>1. t * r \in Nat /\ Unit \in Nat \ {0}
  BY DEF ConstantsAreLegal
<1>2. PICK a \in Nat : a = t * r + Unit - 1
  BY <1>1
<1>3. Priced(t, r) = a \div Unit
  BY <1>2 DEF Priced
<1>4. a \div Unit \in Nat /\ Unit * (a \div Unit) <= a /\ a < Unit * (a \div Unit) + Unit
  BY <1>1, Division
<1>5. PICK u \in Nat : u = Unit * (a \div Unit)
  BY <1>1, <1>4
<1>6. PICK tr \in Nat : tr = t * r
  BY <1>1
<1>. QED
  BY <1>1, <1>2, <1>3, <1>4, <1>5, <1>6

LEMMA Products ==
    ASSUME NEW a \in Nat, NEW b \in Nat, NEW c \in Nat
    PROVE  /\ a * b \in Nat /\ (a + b) * c = a * c + b * c
           /\ a <= b => a * c <= b * c /\ c * a <= c * b
           /\ c # 0 /\ c * a < c * (b + 1) => a <= b
OBVIOUS

LEMMA PricedIsMonotone ==
    ASSUME ConstantsAreLegal, NEW t \in Nat, NEW s \in Nat, NEW r \in Nat, t <= s
    PROVE  Priced(t, r) <= Priced(s, r)
<1>1. Unit \in Nat \ {0}
  BY DEF ConstantsAreLegal
<1>2. PICK p \in Nat, q \in Nat : p = Priced(t, r) /\ q = Priced(s, r)
  BY PricedRoundsUp
<1>3. PICK tr \in Nat, sr \in Nat : tr = t * r /\ sr = s * r /\ tr <= sr
  BY Products
<1>4. Unit * p < tr + Unit /\ sr <= Unit * q
  BY <1>2, <1>3, PricedRoundsUp
<1>5. PICK up \in Nat, uq \in Nat : up = Unit * p /\ uq = Unit * q /\ Unit * (q + 1) = uq + Unit
  BY <1>1
<1>6. Unit * p < Unit * (q + 1)
  BY <1>1, <1>3, <1>4, <1>5
<1>. QED
  BY <1>1, <1>2, <1>6, Products

LEMMA DearestBounds ==
    ASSUME ConstantsAreLegal
    PROVE  /\ Dearest \in Nat
           /\ Rates.input \in Nat /\ Rates.input <= Dearest
           /\ Rates.read \in Nat /\ Rates.read <= Dearest
           /\ Rates.write \in Nat /\ Rates.write <= Dearest
           /\ Rates.output \in Nat
<1>1. /\ Rates.input \in Nat /\ Rates.read \in Nat /\ Rates.write \in Nat /\ Rates.output \in Nat
  BY DEF ConstantsAreLegal
<1>2. \E r \in {Rates.input, Rates.read, Rates.write} :
          \A s \in {Rates.input, Rates.read, Rates.write} : s <= r
  BY <1>1
<1>3. /\ Dearest \in {Rates.input, Rates.read, Rates.write}
      /\ \A s \in {Rates.input, Rates.read, Rates.write} : s <= Dearest
  BY <1>2 DEF Dearest
<1>. QED
  BY <1>1, <1>3

(* The three kinds of input tokens, each at its own rate and rounded on its    *)
(* own, cost at most two more than all of them at the dearest.                 *)
LEMMA InputIsBounded ==
    ASSUME ConstantsAreLegal, NEW a \in Nat, NEW b \in Nat, NEW c \in Nat,
           a + b + c <= InputBound
    PROVE  Priced(a, Rates.input) + Priced(b, Rates.read) + Priced(c, Rates.write)
               <= Priced(InputBound, Dearest) + 2
<1>1. Unit \in Nat \ {0} /\ InputBound \in Nat
  BY DEF ConstantsAreLegal
<1>2. PICK d \in Nat, r \in Nat, s \in Nat, t \in Nat :
         /\ d = Dearest /\ r = Rates.input /\ s = Rates.read /\ t = Rates.write
         /\ r <= d /\ s <= d /\ t <= d
  BY DearestBounds
<1>3. PICK p \in Nat, q \in Nat, v \in Nat, w \in Nat :
         /\ p = Priced(a, r) /\ q = Priced(b, s) /\ v = Priced(c, t)
         /\ w = Priced(InputBound, d)
  BY <1>1, PricedRoundsUp
<1>4. PICK ar \in Nat, bs \in Nat, ct \in Nat, whole \in Nat :
         /\ ar = a * r /\ bs = b * s /\ ct = c * t /\ whole = InputBound * d
  BY <1>1, Products
<1>5. ar + bs + ct <= whole
  <2>1. PICK ad \in Nat, bd \in Nat, cd \in Nat : ad = a * d /\ bd = b * d /\ cd = c * d
    BY Products
  <2>2. ar <= ad /\ bs <= bd /\ ct <= cd
    BY <1>2, <1>4, <2>1, Products
  <2>3. (a + b + c) * d = ad + bd + cd /\ (a + b + c) * d <= whole
    BY <1>1, <1>4, <2>1, Products
  <2>. QED
    BY <2>1, <2>2, <2>3
<1>6. Unit * p < ar + Unit /\ Unit * q < bs + Unit /\ Unit * v < ct + Unit /\ whole <= Unit * w
  BY <1>1, <1>3, <1>4, PricedRoundsUp
<1>7. PICK up \in Nat, uq \in Nat, uv \in Nat, uw \in Nat :
         up = Unit * p /\ uq = Unit * q /\ uv = Unit * v /\ uw = Unit * w
  BY <1>1, Products
<1>8. Unit * (p + q + v) = up + uq + uv /\ Unit * (w + 2 + 1) = uw + Unit + Unit + Unit
  BY <1>1, <1>7
<1>9. Unit * (p + q + v) < Unit * (w + 2 + 1)
  BY <1>1, <1>5, <1>6, <1>7, <1>8
<1>10. p + q + v <= w + 2
  BY <1>1, <1>9, Products
<1>. QED
  BY <1>2, <1>3, <1>10

(* No usage the provider may state within the bounds costs more than was       *)
(* reserved.                                                                   *)
LEMMA CostFits ==
    ASSUME ConstantsAreLegal, NEW phase0 \in Phases, NEW cost \in Costs(phase0)
    PROVE  cost \in Nat /\ Reservation(phase0) \in Nat /\ cost <= Reservation(phase0)
<1>1. InputBound \in Nat /\ OutputLimit[phase0] \in Nat
  BY DEF ConstantsAreLegal
<1>2. PICK u \in Usages(phase0) : cost = Cost(u)
  BY DEF Costs
<1>3. PICK a \in Nat, b \in Nat, c \in Nat, o \in Nat :
         /\ a = u.input - u.cached - u.written /\ b = u.cached /\ c = u.written /\ o = u.output
         /\ a + b + c <= InputBound /\ o <= OutputLimit[phase0]
  BY <1>1 DEF Usages
<1>4. PICK p \in Nat, q \in Nat, v \in Nat, w \in Nat :
         /\ p = Priced(a, Rates.input) /\ q = Priced(b, Rates.read)
         /\ v = Priced(c, Rates.write) /\ w = Priced(o, Rates.output)
  BY DearestBounds, PricedRoundsUp
<1>5. PICK x \in Nat, y \in Nat :
         x = Priced(InputBound, Dearest) /\ y = Priced(OutputLimit[phase0], Rates.output)
  BY <1>1, DearestBounds, PricedRoundsUp
<1>6. p + q + v <= x + 2
  BY <1>3, <1>4, <1>5, InputIsBounded
<1>7. w <= y
  BY <1>1, <1>3, <1>4, <1>5, DearestBounds, PricedIsMonotone
<1>8. cost = p + q + v + w /\ Reservation(phase0) = x + y + 4
  BY <1>2, <1>3, <1>4, <1>5 DEF Cost, Reservation
<1>. QED
  BY <1>6, <1>7, <1>8

-----------------------------------------------------------------------------
(* The inductive invariant *)

Failed == {"unknown", "error"}
Forms == {"lost", "unreadable", "http_error", "no_usage", "response"}
Asking == pc \in {"calling", "answered"}
Unsettled == { i \in DOMAIN generation : ~Settled(i) }
             \cup { i \in DOMAIN judgment : judgment[i] \in Failed }

(* The ledger is the money; a reservation stands in full from before its       *)
(* request until the answer is settled, and for ever if it is not.             *)
MoneyInv ==
    /\ settled \in Nat /\ outstanding \in Nat /\ charged \in Nat /\ phase \in Phases
    /\ pc \in {"loop", "calling", "answered", "done", "dead"}
    /\ ledger = [settled |-> settled, outstanding |-> outstanding]
    /\ settled + outstanding <= Budget /\ charged <= settled + outstanding
    /\ pc \in {"loop", "done"} /\ stopReason = "none" => outstanding = 0
    /\ Asking => stopReason = "none" /\ outstanding = Reservation(phase)
    /\ pc = "calling" => charged <= settled
    /\ pc = "answered" => answer.form \in Forms
    /\ pc = "answered" /\ answer.form = "response" =>
           /\ answer.cost \in Nat /\ answer.cost <= Reservation(phase)
           /\ charged <= settled + answer.cost
    /\ stopReason # "charge_exceeds_reservation"

(* Judgments are of usable answers only, which no longer change.               *)
OrderInv ==
    /\ phase = "generation" => DOMAIN judgment = {} /\ judges = {}
    /\ DOMAIN judgment \subseteq Eligible /\ judges \subseteq Eligible
    /\ Asking /\ phase = "judgment" => current \in Eligible
    /\ pc = "answered" /\ answer.form = "response" => answer.text \in Texts

(* Whatever failed was the last to be asked.                                   *)
FailureInv ==
    /\ stopReason = "none" => Unsettled = {}
    /\ Unsettled \subseteq {current}

(* Every result that is no failure was sent by the provider.                   *)
EvidenceInv ==
    /\ DOMAIN generation \subseteq Items
    /\ Asking => current \in Items
    /\ \A i \in DOMAIN generation :
          \/ generation[i] \in Failed
          \/ /\ generation[i] \in {"pass", "fail", "unusable"}
             /\ [phase |-> "generation", item |-> i, text |-> generation[i]] \in sent
    /\ \A i \in DOMAIN judgment :
          \/ judgment[i] \in Failed
          \/ /\ judgment[i] \in {"pass", "fail", "invalid"}
             /\ [phase |-> "judgment", item |-> i, text |-> judgment[i]] \in sent
    /\ pc = "answered" /\ answer.form = "response" =>
          [phase |-> phase, item |-> current, text |-> answer.text] \in sent

IInv == MoneyInv /\ OrderInv /\ FailureInv /\ EvidenceInv

-----------------------------------------------------------------------------
(* Steps *)

LEMMA ReservationIsNatural ==
    ASSUME ConstantsAreLegal, NEW phase0 \in Phases
    PROVE  Reservation(phase0) \in Nat
<1>1. InputBound \in Nat /\ OutputLimit[phase0] \in Nat
  BY DEF ConstantsAreLegal
<1>2. /\ Priced(InputBound, Dearest) \in Nat
      /\ Priced(OutputLimit[phase0], Rates.output) \in Nat
  BY <1>1, DearestBounds, PricedRoundsUp
<1>. QED
  BY <1>2 DEF Reservation

LEMMA StopStep ==
    ASSUME IInv, Cutoff \/ Exhausted
    PROVE  IInv'
<1>1. /\ pc = "loop" /\ stopReason = "none"
      /\ stopReason' \in {"wall_clock_cutoff", "budget_exhausted"}
      /\ UNCHANGED <<tool, pc, phase, current, money, results, ledger, answer, provider>>
  BY DEF Cutoff, Exhausted
<1>2. MoneyInv'
  BY <1>1 DEF IInv, MoneyInv, Asking, money, provider
<1>3. OrderInv'
  BY <1>1 DEF IInv, OrderInv, Asking, Eligible, Texts, results
<1>4. FailureInv' /\ EvidenceInv'
  BY <1>1 DEF IInv, FailureInv, EvidenceInv, Unsettled, Settled, Asking, results, provider
<1>. QED
  BY <1>2, <1>3, <1>4 DEF IInv

LEMMA ReserveStep ==
    ASSUME ConstantsAreLegal, IInv, NEW i \in Items, Reserve(i)
    PROVE  IInv'
<1>1. /\ pc = "loop" /\ stopReason = "none" /\ Next1(i) /\ ~OverBudget
      /\ pc' = "calling" /\ current' = i
      /\ outstanding' = outstanding + Reservation(phase)
      /\ ledger' = [settled |-> settled, outstanding |-> outstanding']
      /\ judges' = judges \ {i}
      /\ UNCHANGED <<tool, phase, settled, stopReason, generation, judgment, answer, provider>>
  BY DEF Reserve
<1>2. Reservation(phase) \in Nat /\ Budget \in Nat /\ Reservation(phase)' = Reservation(phase)
  BY <1>1, ReservationIsNatural DEF IInv, MoneyInv, ConstantsAreLegal, Reservation
<1>3. MoneyInv'
  BY <1>1, <1>2 DEF IInv, MoneyInv, Asking, OverBudget, provider
<1>4. OrderInv'
  BY <1>1 DEF IInv, OrderInv, Asking, Eligible, Next1, MoneyInv, Phases
<1>5. FailureInv' /\ EvidenceInv'
  BY <1>1 DEF IInv, FailureInv, EvidenceInv, Unsettled, Settled, Asking, provider
<1>. QED
  BY <1>3, <1>4, <1>5 DEF IInv

LEMMA CallStep ==
    ASSUME ConstantsAreLegal, IInv, Call
    PROVE  IInv'
<1>1. /\ pc = "calling" /\ pc' = "answered"
      /\ UNCHANGED <<tool, phase, current, money, stopReason, results, ledger>>
  BY DEF Call
<1>2. PICK cost \in Costs(phase) :
         \/ \E form \in {"lost", "unreadable", "http_error", "no_usage"}, c \in {0, cost} :
              /\ charged' = charged + c
              /\ answer' = [form |-> form, text |-> "none", cost |-> 0]
              /\ UNCHANGED sent
         \/ \E text \in Texts :
              /\ charged' = charged + cost
              /\ answer' = [form |-> "response", text |-> text, cost |-> cost]
              /\ sent' = sent \cup {[phase |-> phase, item |-> current, text |-> text]}
  BY DEF Call
<1>3. /\ cost \in Nat /\ Reservation(phase) \in Nat /\ cost <= Reservation(phase)
      /\ Reservation(phase)' = Reservation(phase) /\ Budget \in Nat
  BY <1>1, CostFits DEF IInv, MoneyInv, Reservation, ConstantsAreLegal
<1>4. \/ answer'.form \in Forms \ {"response"} /\ charged' \in {charged, charged + cost}
         /\ sent' = sent
      \/ /\ answer'.form = "response" /\ answer'.cost = cost /\ answer'.text \in Texts
         /\ charged' = charged + cost
         /\ sent' = sent \cup {[phase |-> phase, item |-> current, text |-> answer'.text]}
  BY <1>2, <1>3 DEF Forms, IInv, MoneyInv
<1>5. MoneyInv'
  BY <1>1, <1>3, <1>4 DEF IInv, MoneyInv, Asking, money, Forms
<1>6. OrderInv'
  BY <1>1, <1>4 DEF IInv, OrderInv, Asking, Eligible, Texts, results
<1>7. FailureInv' /\ EvidenceInv'
  BY <1>1, <1>4 DEF IInv, FailureInv, EvidenceInv, Unsettled, Settled, Asking, results
<1>. QED
  BY <1>5, <1>6, <1>7 DEF IInv

(* A result is recorded for the item that was asked, and for no other.         *)
LEMMA RecordEffect ==
    ASSUME IInv, Asking, NEW status, Record(status)
    PROVE  /\ phase = "generation" =>
                /\ DOMAIN generation' = DOMAIN generation \cup {current}
                /\ \A i \in DOMAIN generation \cup {current} :
                       generation'[i] = IF i = current THEN status ELSE generation[i]
                /\ judgment' = judgment /\ DOMAIN judgment = {} /\ judges = {}
           /\ phase = "judgment" =>
                /\ DOMAIN judgment' = DOMAIN judgment \cup {current}
                /\ \A i \in DOMAIN judgment \cup {current} :
                       judgment'[i] = IF i = current THEN status ELSE judgment[i]
                /\ generation' = generation /\ current \in Eligible
           /\ phase \in Phases
BY DEF Record, Place, IInv, MoneyInv, OrderInv, Phases

LEMMA TerminalStep ==
    ASSUME IInv, Terminal
    PROVE  IInv'
<1>1. /\ pc = "answered" /\ ~Accounted /\ pc' = "loop" /\ Asking /\ ~Asking'
      /\ stopReason' = IF answer.form = "response" /\ answer.cost > Reservation(phase)
                          THEN "charge_exceeds_reservation" ELSE answer.form
      /\ UNCHANGED <<tool, phase, current, money, judges, ledger, provider>>
  BY DEF Terminal, Asking
<1>2. PICK status \in Failed : Record(status)
  BY DEF Terminal, Failed
<1>3. stopReason' \notin {"none", "charge_exceeds_reservation"} /\ stopReason = "none"
  BY <1>1 DEF IInv, MoneyInv, Forms
<1>4. MoneyInv'
  BY <1>1, <1>3 DEF IInv, MoneyInv, money, provider
<1>5. OrderInv'
  BY <1>1, <1>2, RecordEffect DEF IInv, OrderInv, Eligible, Failed, Phases
<1>6. Unsettled = {}
  BY <1>3 DEF IInv, FailureInv
<1>7. Unsettled' \subseteq {current}
  BY <1>1, <1>2, <1>6, RecordEffect DEF Unsettled, Settled, Failed, Phases
<1>8. FailureInv'
  BY <1>1, <1>3, <1>7 DEF FailureInv
<1>9. EvidenceInv'
  BY <1>1, <1>2, RecordEffect DEF IInv, EvidenceInv, provider, Phases
<1>. QED
  BY <1>4, <1>5, <1>8, <1>9 DEF IInv

LEMMA SettleStep ==
    ASSUME ConstantsAreLegal, IInv, Settle
    PROVE  IInv'
<1>1. /\ pc = "answered" /\ Accounted /\ pc' = "loop" /\ Asking /\ ~Asking'
      /\ settled' = settled + answer.cost
      /\ outstanding' = outstanding - Reservation(phase)
      /\ ledger' = [settled |-> settled', outstanding |-> outstanding']
      /\ UNCHANGED <<tool, phase, current, stopReason, judges, provider>>
      /\ answer.form = "response"
  BY DEF Settle, Asking, Accounted
<1>2. PICK status : status = answer.text
  OBVIOUS
<1>3. /\ Record(status) /\ status \in Texts /\ stopReason = "none"
      /\ [phase |-> phase, item |-> current, text |-> status] \in sent
  BY <1>1, <1>2 DEF Settle, IInv, MoneyInv, OrderInv, EvidenceInv
<1>4. Reservation(phase) \in Nat /\ Budget \in Nat
  BY ReservationIsNatural DEF IInv, MoneyInv, ConstantsAreLegal
<1>5. MoneyInv'
  BY <1>1, <1>4 DEF IInv, MoneyInv, provider
<1>6. Unsettled = {} /\ status \notin Failed
  BY <1>3 DEF IInv, FailureInv, Failed, Texts
<1>7. OrderInv'
  <2>1. CASE phase = "generation"
    BY <1>1, <1>3, <2>1, RecordEffect DEF IInv, OrderInv, Eligible
  <2>2. CASE phase = "judgment"
    BY <1>1, <1>3, <2>2, RecordEffect DEF IInv, OrderInv, Eligible
  <2>. QED
    BY <1>1, <1>3, <2>1, <2>2, RecordEffect DEF Phases
<1>8. Unsettled' = {}
  BY <1>1, <1>3, <1>6, RecordEffect DEF Unsettled, Settled, Failed, Phases
<1>9. FailureInv'
  BY <1>8 DEF FailureInv
<1>10. EvidenceInv'
  <2>1. CASE phase = "generation"
    BY <1>1, <1>3, <2>1, RecordEffect DEF IInv, EvidenceInv, provider, Texts
  <2>2. CASE phase = "judgment"
    BY <1>1, <1>3, <2>2, RecordEffect DEF IInv, EvidenceInv, provider, Texts
  <2>. QED
    BY <1>1, <1>3, <2>1, <2>2, RecordEffect DEF Phases
<1>. QED
  BY <1>5, <1>7, <1>9, <1>10 DEF IInv

LEMMA JudgePlanStep ==
    ASSUME IInv, JudgePlan
    PROVE  IInv'
<1>1. /\ pc = "loop" /\ phase = "generation" /\ pc' \in {"loop", "done"} /\ ~Asking'
      /\ phase' \in Phases
      /\ stopReason' # stopReason => stopReason' = "input_bound_exceeded"
      /\ judges' = judges \/ (phase' = "judgment" /\ judges' = Eligible)
      /\ phase' = "generation" => judges' = judges
      /\ UNCHANGED <<tool, current, money, generation, judgment, ledger, answer, provider>>
  BY DEF JudgePlan, LoopEnds, Asking, Phases, IInv, OrderInv
<1>2. MoneyInv'
  BY <1>1 DEF IInv, MoneyInv, money, provider
<1>3. OrderInv'
  BY <1>1 DEF IInv, OrderInv, Eligible
<1>4. FailureInv'
  BY <1>1 DEF IInv, FailureInv, Unsettled, Settled
<1>5. EvidenceInv'
  BY <1>1 DEF IInv, EvidenceInv, provider
<1>. QED
  BY <1>2, <1>3, <1>4, <1>5 DEF IInv

(* The run is over, or the process dies: the ledger stays.                     *)
LEMMA EndStep ==
    ASSUME IInv, Finish \/ Die
    PROVE  IInv'
<1>1. /\ pc' \in {"done", "dead"} /\ ~Asking' /\ (pc' = "done" => pc = "loop")
      /\ UNCHANGED <<tool, phase, current, money, stopReason, results, ledger, answer, provider>>
  BY DEF Finish, LoopEnds, Die, Asking
<1>2. MoneyInv'
  BY <1>1 DEF IInv, MoneyInv, money, provider
<1>3. OrderInv'
  BY <1>1 DEF IInv, OrderInv, Eligible, results
<1>4. FailureInv' /\ EvidenceInv'
  BY <1>1 DEF IInv, FailureInv, EvidenceInv, Unsettled, Settled, results, provider
<1>. QED
  BY <1>2, <1>3, <1>4 DEF IInv

LEMMA InitInv ==
    ASSUME ConstantsAreLegal, Init
    PROVE  IInv
<1>1. DOMAIN generation = {} /\ DOMAIN judgment = {}
  BY DEF Init, None
<1>. QED
  BY <1>1 DEF Init, IInv, MoneyInv, OrderInv, FailureInv, EvidenceInv, Unsettled, Eligible,
     Asking, Phases, ConstantsAreLegal

LEMMA NextInv ==
    ASSUME ConstantsAreLegal, IInv, [Next]_vars
    PROVE  IInv'
<1>1. CASE UNCHANGED vars
  <2>1. MoneyInv' /\ OrderInv'
    BY <1>1 DEF vars, money, results, provider, IInv, MoneyInv, OrderInv, Asking, Eligible,
       Reservation, Texts
  <2>2. FailureInv' /\ EvidenceInv'
    BY <1>1 DEF vars, money, results, provider, IInv, FailureInv, EvidenceInv, Unsettled,
       Settled, Asking
  <2>. QED
    BY <2>1, <2>2 DEF IInv
<1>2. CASE Next
  BY <1>2, StopStep, ReserveStep, CallStep, TerminalStep, SettleStep, JudgePlanStep, EndStep
     DEF Next
<1>. QED
  BY <1>1, <1>2

-----------------------------------------------------------------------------
(* Theorems *)

(* The invariant holds of every run, for every plan, prices and budget.        *)
THEOREM Invariance == ASSUME ConstantsAreLegal PROVE Spec => []IInv
<1>1. Init => IInv
  BY InitInv
<1>2. IInv /\ [Next]_vars => IInv'
  BY NextInv
<1>. QED
  BY <1>1, <1>2, PTL DEF Spec

(* The ledger on disk covers what the provider has charged, at every moment    *)
(* and wherever the tool dies, and stays within the budget.                    *)
THEOREM ChargesAreCovered == ASSUME ConstantsAreLegal PROVE Spec => []LedgerBoundsCharges
<1>1. IInv => LedgerBoundsCharges
  BY DEF IInv, MoneyInv, LedgerBoundsCharges
<1>. QED
  BY <1>1, Invariance, PTL

(* No usage within the bounds costs more than was reserved for it, whatever    *)
(* the rates and the unit they are stated for.                                 *)
THEOREM ReservationsSuffice == ASSUME ConstantsAreLegal PROVE Spec => []NoAnswerIsTooDear
<1>1. IInv => NoAnswerIsTooDear
  BY DEF IInv, MoneyInv, NoAnswerIsTooDear
<1>. QED
  BY <1>1, Invariance, PTL

(* At most one request of a run has an unknown price, and nothing is asked     *)
(* after it.                                                                   *)
THEOREM OneUnknown == ASSUME ConstantsAreLegal PROVE Spec => []OneUnknownAtMost
<1>1. IInv => OneUnknownAtMost
  <2>. SUFFICES ASSUME IInv PROVE OneUnknownAtMost
    OBVIOUS
  <2>1. IsFiniteSet({current}) /\ Cardinality({current}) = 1
    BY FS_Singleton
  <2>2. Unsettled \in SUBSET {current}
    BY DEF IInv, FailureInv
  <2>3. IsFiniteSet(Unsettled) /\ Cardinality(Unsettled) <= 1
    BY <2>1, <2>2, FS_Subset
  <2>4. DOMAIN judgment \subseteq Eligible
    BY DEF IInv, OrderInv
  <2>5. outstanding > 0 => pc \in {"calling", "answered", "dead"} \/ stopReason # "none"
    BY DEF IInv, MoneyInv
  <2>. QED
    BY <2>3, <2>4, <2>5 DEF OneUnknownAtMost, Unsettled, Failed
<1>. QED
  BY <1>1, Invariance, PTL

(* A comparison that is reported leaves no pair out: who is not counted was    *)
(* seen to fail.                                                               *)
THEOREM ReportsArePaired == ASSUME ConstantsAreLegal PROVE Spec => []NoPairIsMissing
<1>1. ConstantsAreLegal /\ IInv => NoPairIsMissing
  <2>. SUFFICES ASSUME ConstantsAreLegal, IInv, Coverage, NEW pair \in Pairs \ Paired
                PROVE  \E i \in Of(pair) : \E s \in sent :
                          s.item = i /\ (s.text \in {"fail", "unusable"})
    BY DEF NoPairIsMissing
  <2>1. PICK i \in Of(pair) : ~Passed(i)
    BY DEF Paired
  <2>2. i \in Items /\ Settled(i)
    BY DEF Of, Coverage
  <2>3. generation[i] = "pass" => i \in DOMAIN judgment /\ judgment[i] \in {"pass", "fail"}
    <3>. DEFINE Judged == { j \in DOMAIN judgment : judgment[j] \in {"pass", "fail"} }
    <3>1. Judged \in SUBSET Eligible /\ Cardinality(Judged) = Cardinality(Eligible)
      BY DEF IInv, OrderInv, Coverage
    <3>2. IsFiniteSet(Items) /\ Eligible \in SUBSET Items
      BY FS_Interval DEF Items, Eligible, IInv, EvidenceInv, ConstantsAreLegal
    <3>3. IsFiniteSet(Eligible)
      BY <3>2, FS_Subset
    <3>4. Judged = Eligible
      <4>. HIDE DEF Judged
      <4>. QED
        BY <3>1, <3>3, FS_Subset
    <3>. QED
      BY <2>2, <3>4 DEF Eligible, Settled
  <2>4. CASE generation[i] # "pass"
    <3>1. [phase |-> "generation", item |-> i, text |-> generation[i]] \in sent
          /\ generation[i] \in {"fail", "unusable"}
      BY <2>2, <2>4 DEF Settled, IInv, EvidenceInv, Failed
    <3>. QED
      BY <3>1
  <2>5. CASE generation[i] = "pass"
    <3>1. judgment[i] = "fail" /\ i \in DOMAIN judgment
      BY <2>1, <2>2, <2>3, <2>5 DEF Passed, Settled
    <3>2. [phase |-> "judgment", item |-> i, text |-> judgment[i]] \in sent
      BY <3>1 DEF IInv, EvidenceInv, Failed
    <3>. QED
      BY <3>1, <3>2
  <2>. QED
    BY <2>4, <2>5
<1>. QED
  BY <1>1, Invariance, PTL

-----------------------------------------------------------------------------
(* Types *)

ScorerPlaces ==
    {"new", "staged", "refused", "made", "reserved", "placed1", "recorded1", "placed2",
     "recorded2", "done", "undoSummary", "undoScored", "undoDirectory", "failed", "killed"}
ReporterPlaces == {"new", "refused", "loaded", "done", "killed"}

(* Places at which the directory is the command's own.                         *)
Holding ==
    {"made", "reserved", "placed1", "recorded1", "placed2", "recorded2", "done",
     "undoSummary", "undoScored", "undoDirectory"}

ScoreTypeInv ==
    /\ gate \in [Scorers -> {"hard", "semantic"}]
    /\ at \in [Scorers \cup Reporters -> ScorerPlaces \cup ReporterPlaces]
    /\ \A s \in Scorers : at[s] \in ScorerPlaces
    /\ \A r \in Reporters : at[r] \in ReporterPlaces
    /\ output \in Scorers \cup {NoOne}
    /\ placed \in [Names -> Scorers \cup {NoOne}]
    /\ known \in [Scorers -> SUBSET Names]
    /\ spoilt \in [Scorers -> BOOLEAN]
    /\ report \in [Reporters -> [of : Scorers \cup {NoOne}, gate : {"hard", "semantic"},
                                 finished : BOOLEAN]]

In(name, s) == placed[name] = s

DirectoryInv(s) ==
    /\ at[s] \in {"new", "staged", "refused"} => output # s
    /\ at[s] \in Holding => output = s
    /\ at[s] = "failed" /\ ~spoilt[s] => output # s
    /\ \A n \in Names : In(n, s) => output = s
    /\ In("summary.json", s) => In("scored.jsonl", s) \/ spoilt[s]

ForwardInv(s) ==
    /\ at[s] \in {"new", "staged", "made", "reserved"} =>
          known[s] = {} /\ ~In("scored.jsonl", s) /\ ~In("summary.json", s)
    /\ at[s] = "placed1" =>
          known[s] = {} /\ In("scored.jsonl", s) /\ ~In("summary.json", s)
    /\ at[s] = "recorded1" =>
          known[s] = {"scored.jsonl"} /\ In("scored.jsonl", s) /\ ~In("summary.json", s)
    /\ at[s] = "placed2" =>
          known[s] = {"scored.jsonl"} /\ In("scored.jsonl", s) /\ In("summary.json", s)
    /\ at[s] = "recorded2" =>
          known[s] = Names /\ In("scored.jsonl", s) /\ In("summary.json", s)
    /\ at[s] = "done" => In("scored.jsonl", s) /\ In("summary.json", s)

BackwardInv(s) ==
    /\ at[s] = "undoSummary" =>
          /\ In("summary.json", s) => In("scored.jsonl", s)
          /\ ~spoilt[s] => \A n \in Names : In(n, s) => n \in known[s]
    /\ at[s] = "undoScored" /\ ~spoilt[s] =>
          ~In("summary.json", s) /\ (In("scored.jsonl", s) => "scored.jsonl" \in known[s])
    /\ at[s] = "undoDirectory" /\ ~spoilt[s] =>
          ~In("summary.json", s) /\ ~In("scored.jsonl", s)

ScorerInv(s) == DirectoryInv(s) /\ ForwardInv(s) /\ BackwardInv(s)

ReportInv(r) ==
    /\ at[r] = "loaded" =>
          /\ report[r].of \in Scorers /\ report[r].gate = "hard"
          /\ report[r].finished => at[report[r].of] = "done"
    /\ at[r] = "done" =>
          \/ report[r].gate = gate[report[r].of]
          \/ report[r].gate = "hard" /\ ~report[r].finished

ScoreInv ==
    /\ ScoreTypeInv
    /\ \A s \in Scorers : ScorerInv(s)
    /\ \A r \in Reporters : ReportInv(r)

-----------------------------------------------------------------------------
(* Steps *)

(* A step of one score command that touches no file of another leaves what the *)
(* invariant says of the other commands.                                       *)
LEMMA Frame ==
    ASSUME CommandsAreLegal, ScoreInv, ScoreTypeInv', NEW s \in Scorers, ScorerInv(s)',
           \A c \in (Scorers \cup Reporters) \ {s} : at'[c] = at[c],
           \A t \in Scorers \ {s} : known'[t] = known[t] /\ spoilt'[t] = spoilt[t],
           \A t \in Scorers \ {s} : output' = t <=> output = t,
           \A t \in Scorers \ {s} : \A n \in Names : placed'[n] = t <=> placed[n] = t,
           at[s] = "done" => at'[s] = "done",
           UNCHANGED <<gate, report>>
    PROVE  ScoreInv'
<1>1. ASSUME NEW t \in Scorers PROVE ScorerInv(t)'
  <2>1. CASE t = s
    BY <2>1
  <2>2. CASE t # s
    <3>1. /\ at'[t] = at[t] /\ known'[t] = known[t] /\ spoilt'[t] = spoilt[t]
          /\ output' = t <=> output = t
          /\ \A n \in Names : In(n, t)' <=> In(n, t)
      BY <2>2 DEF In
    <3>2. ScorerInv(t) /\ {"scored.jsonl", "summary.json"} \subseteq Names
      BY DEF ScoreInv, Names
    <3>3. DirectoryInv(t)'
      BY <3>1, <3>2 DEF ScorerInv, DirectoryInv
    <3>4. ForwardInv(t)'
      BY <3>1, <3>2 DEF ScorerInv, ForwardInv
    <3>5. BackwardInv(t)'
      BY <3>1, <3>2 DEF ScorerInv, BackwardInv
    <3>. QED
      BY <3>3, <3>4, <3>5 DEF ScorerInv
  <2>. QED
    BY <2>1, <2>2
<1>2. ASSUME NEW r \in Reporters PROVE ReportInv(r)'
  <2>1. r # s /\ at'[r] = at[r] /\ ReportInv(r)
    BY DEF CommandsAreLegal, ScoreInv
  <2>2. \A t \in Scorers : at[t] = "done" => at'[t] = "done"
    OBVIOUS
  <2>. QED
    BY <2>1, <2>2 DEF ReportInv
<1>. QED
  BY <1>1, <1>2 DEF ScoreInv

(* So does a step of a report command.                                         *)
LEMMA ReporterFrame ==
    ASSUME CommandsAreLegal, ScoreInv, ScoreTypeInv', NEW r \in Reporters, ReportInv(r)',
           \A c \in (Scorers \cup Reporters) \ {r} : at'[c] = at[c],
           \A q \in Reporters \ {r} : report'[q] = report[q],
           UNCHANGED <<gate, output, placed, known, spoilt>>
    PROVE  ScoreInv'
<1>1. \A t \in Scorers : at'[t] = at[t]
  BY DEF CommandsAreLegal
<1>2. ASSUME NEW t \in Scorers PROVE ScorerInv(t)'
  BY <1>1 DEF ScoreInv, ScorerInv, DirectoryInv, ForwardInv, BackwardInv, In
<1>3. ASSUME NEW q \in Reporters \ {r} PROVE ReportInv(q)'
  BY <1>1 DEF ScoreInv, ReportInv
<1>. QED
  BY <1>2, <1>3 DEF ScoreInv

(* Goto changes the place of one command and keeps all types.                  *)
LEMMA PcType ==
    ASSUME CommandsAreLegal, ScoreTypeInv, NEW s \in Scorers, NEW place \in ScorerPlaces,
           Goto(s, place)
    PROVE  /\ at' \in [Scorers \cup Reporters -> ScorerPlaces \cup ReporterPlaces]
           /\ \A t \in Scorers : at'[t] \in ScorerPlaces
           /\ \A r \in Reporters : at'[r] \in ReporterPlaces
           /\ at'[s] = place
           /\ \A c \in (Scorers \cup Reporters) \ {s} : at'[c] = at[c]
<1>. DEFINE Commands == Scorers \cup Reporters
            Places == ScorerPlaces \cup ReporterPlaces
<1>1. at \in [Commands -> Places] /\ at' = [at EXCEPT ![s] = place]
      /\ place \in Places /\ s \in Commands
  BY DEF ScoreTypeInv, Goto
<1>2. at' \in [Commands -> Places] /\ at'[s] = place
      /\ \A c \in Commands \ {s} : at'[c] = at[c]
  <2>. HIDE DEF Commands, Places
  <2>. QED
    BY <1>1
<1>3. \A t \in Scorers : at'[t] \in ScorerPlaces
  BY <1>2 DEF ScoreTypeInv, CommandsAreLegal
<1>4. \A q \in Reporters : at'[q] \in ReporterPlaces
  BY <1>2 DEF ScoreTypeInv, CommandsAreLegal
<1>. QED
  BY <1>2, <1>3, <1>4

LEMMA ReporterPcType ==
    ASSUME CommandsAreLegal, ScoreTypeInv, NEW r \in Reporters, NEW place \in ReporterPlaces,
           Goto(r, place)
    PROVE  /\ at' \in [Scorers \cup Reporters -> ScorerPlaces \cup ReporterPlaces]
           /\ \A t \in Scorers : at'[t] \in ScorerPlaces
           /\ \A q \in Reporters : at'[q] \in ReporterPlaces
           /\ at'[r] = place
           /\ \A c \in (Scorers \cup Reporters) \ {r} : at'[c] = at[c]
<1>. DEFINE Commands == Scorers \cup Reporters
            Places == ScorerPlaces \cup ReporterPlaces
<1>1. at \in [Commands -> Places] /\ at' = [at EXCEPT ![r] = place]
      /\ place \in Places /\ r \in Commands
  BY DEF ScoreTypeInv, Goto
<1>2. at' \in [Commands -> Places] /\ at'[r] = place
      /\ \A c \in Commands \ {r} : at'[c] = at[c]
  <2>. HIDE DEF Commands, Places
  <2>. QED
    BY <1>1
<1>3. \A t \in Scorers : at'[t] \in ScorerPlaces
  BY <1>2 DEF ScoreTypeInv, CommandsAreLegal
<1>4. \A q \in Reporters : at'[q] \in ReporterPlaces
  BY <1>2 DEF ScoreTypeInv, CommandsAreLegal
<1>. QED
  BY <1>2, <1>3, <1>4

LEMMA StageStep ==
    ASSUME CommandsAreLegal, ScoreInv, NEW s \in Scorers, Stage(s)
    PROVE  ScoreInv'
<1>1. ScoreTypeInv /\ ScorerInv(s) /\ at[s] = "new"
      /\ UNCHANGED <<gate, output, placed, known, spoilt, report>>
  BY DEF ScoreInv, Stage
<1>2. PICK place \in {"refused", "staged"} : Goto(s, place)
  BY DEF Stage
<1>3. place \in ScorerPlaces
  BY DEF ScorerPlaces
<1>4. ScoreTypeInv' /\ at'[s] = place /\ \A c \in (Scorers \cup Reporters) \ {s} : at'[c] = at[c]
  BY <1>1, <1>2, <1>3, PcType DEF ScoreTypeInv
<1>5. ScorerInv(s)'
  BY <1>1, <1>4 DEF ScorerInv, DirectoryInv, ForwardInv, BackwardInv, Holding, In
<1>. QED
  BY <1>1, <1>4, <1>5, Frame

LEMMA MakeDirectoryStep ==
    ASSUME CommandsAreLegal, ScoreInv, NEW s \in Scorers, MakeDirectory(s)
    PROVE  ScoreInv'
<1>1. ScoreTypeInv /\ ScorerInv(s) /\ at[s] = "staged"
      /\ UNCHANGED <<gate, placed, known, spoilt, report>>
  BY DEF ScoreInv, MakeDirectory
<1>2. CASE output # NoOne
  <2>1. Goto(s, "refused") /\ output' = output
    BY <1>2 DEF MakeDirectory
  <2>2. "refused" \in ScorerPlaces
    BY DEF ScorerPlaces
  <2>3. ScoreTypeInv' /\ at'[s] = "refused"
        /\ \A c \in (Scorers \cup Reporters) \ {s} : at'[c] = at[c]
    BY <1>1, <2>1, <2>2, PcType DEF ScoreTypeInv
  <2>4. ScorerInv(s)'
    BY <1>1, <2>1, <2>3 DEF ScorerInv, DirectoryInv, ForwardInv, BackwardInv, Holding, In
  <2>. QED
    BY <1>1, <2>1, <2>3, <2>4, Frame
<1>3. CASE output = NoOne
  <2>1. Goto(s, "made") /\ output' = s
    BY <1>3 DEF MakeDirectory
  <2>2. "made" \in ScorerPlaces
    BY DEF ScorerPlaces
  <2>3. ScoreTypeInv' /\ at'[s] = "made"
        /\ \A c \in (Scorers \cup Reporters) \ {s} : at'[c] = at[c]
    BY <1>1, <2>1, <2>2, PcType DEF ScoreTypeInv
  <2>4. ScorerInv(s)'
    BY <1>1, <2>1, <2>3 DEF ScorerInv, DirectoryInv, ForwardInv, BackwardInv, Holding, In
  <2>5. \A t \in Scorers \ {s} : output' = t <=> output = t
    BY <1>3, <2>1 DEF CommandsAreLegal
  <2>. QED
    BY <1>1, <2>3, <2>4, <2>5, Frame
<1>. QED
  BY <1>2, <1>3

LEMMA RecordReservationStep ==
    ASSUME CommandsAreLegal, ScoreInv, NEW s \in Scorers, RecordReservation(s)
    PROVE  ScoreInv'
<1>1. ScoreTypeInv /\ ScorerInv(s) /\ at[s] = "made" /\ Goto(s, "reserved")
      /\ UNCHANGED <<gate, output, placed, known, spoilt, report>>
  BY DEF ScoreInv, RecordReservation
<1>2. "reserved" \in ScorerPlaces
  BY DEF ScorerPlaces
<1>3. ScoreTypeInv' /\ at'[s] = "reserved"
      /\ \A c \in (Scorers \cup Reporters) \ {s} : at'[c] = at[c]
  BY <1>1, <1>2, PcType DEF ScoreTypeInv
<1>4. ScorerInv(s)'
  BY <1>1, <1>3 DEF ScorerInv, DirectoryInv, ForwardInv, BackwardInv, Holding, In
<1>. QED
  BY <1>1, <1>3, <1>4, Frame

LEMMA RenameFilesStep ==
    ASSUME CommandsAreLegal, ScoreInv, NEW s \in Scorers, RenameFiles(s)
    PROVE  ScoreInv'
<1>1. ScoreTypeInv /\ ScorerInv(s)
  BY DEF ScoreInv
<1>2. CASE RenameInto(s, "reserved", "scored.jsonl", "placed1")
  <2>1. at[s] = "reserved" /\ Goto(s, "placed1") /\ placed' = [placed EXCEPT !["scored.jsonl"] = s]
        /\ UNCHANGED <<gate, output, known, spoilt, report>>
    BY <1>2 DEF RenameInto
  <2>2. placed'["scored.jsonl"] = s
        /\ \A n \in Names \ {"scored.jsonl"} : placed'[n] = placed[n]
    BY <1>1, <2>1 DEF ScoreTypeInv, Names
  <2>3. ScoreTypeInv' /\ at'[s] = "placed1"
        /\ \A c \in (Scorers \cup Reporters) \ {s} : at'[c] = at[c]
    BY <1>1, <2>1, PcType DEF ScoreTypeInv, ScorerPlaces
  <2>4. output = s
    BY <1>1, <2>1 DEF ScorerInv, DirectoryInv, Holding
  <2>5. ScorerInv(s)'
    BY <1>1, <2>1, <2>2, <2>3, <2>4
       DEF ScorerInv, DirectoryInv, ForwardInv, BackwardInv, Holding, In, Names
  <2>6. \A t \in Scorers \ {s} : \A n \in Names : placed'[n] = t <=> placed[n] = t
    BY <2>2, <2>4 DEF ScoreInv, ScorerInv, DirectoryInv, In
  <2>. QED
    BY <1>1, <2>1, <2>3, <2>5, <2>6, Frame
<1>3. CASE RecordPlaced(s, "placed1", "scored.jsonl", "recorded1")
  <2>1. at[s] = "placed1" /\ Goto(s, "recorded1")
        /\ known' = [known EXCEPT ![s] = known[s] \cup {"scored.jsonl"}]
        /\ UNCHANGED <<gate, output, placed, spoilt, report>>
    BY <1>3 DEF RecordPlaced
  <2>2. known'[s] = known[s] \cup {"scored.jsonl"} /\ known' \in [Scorers -> SUBSET Names]
        /\ \A t \in Scorers \ {s} : known'[t] = known[t]
    BY <1>1, <2>1 DEF ScoreTypeInv, Names
  <2>3. ScoreTypeInv' /\ at'[s] = "recorded1"
        /\ \A c \in (Scorers \cup Reporters) \ {s} : at'[c] = at[c]
    BY <1>1, <2>1, <2>2, PcType DEF ScoreTypeInv, ScorerPlaces
  <2>4. ScorerInv(s)'
    BY <1>1, <2>1, <2>2, <2>3
       DEF ScorerInv, DirectoryInv, ForwardInv, BackwardInv, Holding, In, Names
  <2>. QED
    BY <1>1, <2>1, <2>2, <2>3, <2>4, Frame
<1>4. CASE RenameInto(s, "recorded1", "summary.json", "placed2")
  <2>1. at[s] = "recorded1" /\ Goto(s, "placed2") /\ placed' = [placed EXCEPT !["summary.json"] = s]
        /\ UNCHANGED <<gate, output, known, spoilt, report>>
    BY <1>4 DEF RenameInto
  <2>2. placed'["summary.json"] = s
        /\ \A n \in Names \ {"summary.json"} : placed'[n] = placed[n]
    BY <1>1, <2>1 DEF ScoreTypeInv, Names
  <2>3. ScoreTypeInv' /\ at'[s] = "placed2"
        /\ \A c \in (Scorers \cup Reporters) \ {s} : at'[c] = at[c]
    BY <1>1, <2>1, PcType DEF ScoreTypeInv, ScorerPlaces
  <2>4. output = s
    BY <1>1, <2>1 DEF ScorerInv, DirectoryInv, Holding
  <2>5. ScorerInv(s)'
    BY <1>1, <2>1, <2>2, <2>3, <2>4
       DEF ScorerInv, DirectoryInv, ForwardInv, BackwardInv, Holding, In, Names
  <2>6. \A t \in Scorers \ {s} : \A n \in Names : placed'[n] = t <=> placed[n] = t
    BY <2>2, <2>4 DEF ScoreInv, ScorerInv, DirectoryInv, In
  <2>. QED
    BY <1>1, <2>1, <2>3, <2>5, <2>6, Frame
<1>5. CASE RecordPlaced(s, "placed2", "summary.json", "recorded2")
  <2>1. at[s] = "placed2" /\ Goto(s, "recorded2")
        /\ known' = [known EXCEPT ![s] = known[s] \cup {"summary.json"}]
        /\ UNCHANGED <<gate, output, placed, spoilt, report>>
    BY <1>5 DEF RecordPlaced
  <2>2. known'[s] = known[s] \cup {"summary.json"} /\ known' \in [Scorers -> SUBSET Names]
        /\ \A t \in Scorers \ {s} : known'[t] = known[t]
    BY <1>1, <2>1 DEF ScoreTypeInv, Names
  <2>3. ScoreTypeInv' /\ at'[s] = "recorded2"
        /\ \A c \in (Scorers \cup Reporters) \ {s} : at'[c] = at[c]
    BY <1>1, <2>1, <2>2, PcType DEF ScoreTypeInv, ScorerPlaces
  <2>4. ScorerInv(s)'
    BY <1>1, <2>1, <2>2, <2>3
       DEF ScorerInv, DirectoryInv, ForwardInv, BackwardInv, Holding, In, Names
  <2>. QED
    BY <1>1, <2>1, <2>2, <2>3, <2>4, Frame
<1>. QED
  BY <1>2, <1>3, <1>4, <1>5 DEF RenameFiles

LEMMA FinishStep ==
    ASSUME CommandsAreLegal, ScoreInv, NEW s \in Scorers, SyncDirectories(s)
    PROVE  ScoreInv'
<1>1. ScoreTypeInv /\ ScorerInv(s) /\ at[s] = "recorded2" /\ Goto(s, "done")
      /\ UNCHANGED <<gate, output, placed, known, spoilt, report>>
  BY DEF ScoreInv, SyncDirectories
<1>2. "done" \in ScorerPlaces
  BY DEF ScorerPlaces
<1>3. ScoreTypeInv' /\ at'[s] = "done"
      /\ \A c \in (Scorers \cup Reporters) \ {s} : at'[c] = at[c]
  BY <1>1, <1>2, PcType DEF ScoreTypeInv
<1>4. ScorerInv(s)'
  BY <1>1, <1>3 DEF ScorerInv, DirectoryInv, ForwardInv, BackwardInv, Holding, In
<1>. QED
  BY <1>1, <1>3, <1>4, Frame

LEMMA FailStep ==
    ASSUME CommandsAreLegal, ScoreInv, NEW s \in Scorers, Fail(s)
    PROVE  ScoreInv'
<1>1. ScoreTypeInv /\ ScorerInv(s) /\ at[s] \in Calling \cup Unrecorded
      /\ UNCHANGED <<gate, output, placed, known, report>>
  BY DEF ScoreInv, Fail
<1>2. PICK place \in {"failed", "undoSummary"} :
         Goto(s, place) /\ (place = "failed" <=> at[s] \in {"staged", "made"})
  BY DEF Fail
<1>3. PICK b \in BOOLEAN : (b <=> at[s] \in Unrecorded) /\ spoilt' = [spoilt EXCEPT ![s] = b]
  <2>. DEFINE b == at[s] \in Unrecorded
  <2>1. b \in BOOLEAN /\ spoilt' = [spoilt EXCEPT ![s] = b]
    BY DEF Fail
  <2>. QED
    BY <2>1
<1>6. /\ spoilt'[s] <=> at[s] \in Unrecorded
      /\ spoilt' \in [Scorers -> BOOLEAN]
      /\ \A t \in Scorers \ {s} : spoilt'[t] = spoilt[t]
  BY <1>1, <1>3 DEF ScoreTypeInv
<1>4. ScoreTypeInv' /\ at'[s] = place /\ \A c \in (Scorers \cup Reporters) \ {s} : at'[c] = at[c]
  <2>1. place \in ScorerPlaces
    BY DEF ScorerPlaces
  <2>. QED
    BY <1>1, <1>2, <1>6, <2>1, PcType DEF ScoreTypeInv
<1>5. ScorerInv(s)'
  BY <1>1, <1>2, <1>4, <1>6
     DEF ScorerInv, DirectoryInv, ForwardInv, BackwardInv, Holding, In, Names, Calling, Unrecorded
<1>. QED
  BY <1>1, <1>4, <1>5, <1>6, Frame DEF Calling, Unrecorded

LEMMA CleanupStep ==
    ASSUME CommandsAreLegal, ScoreInv, NEW s \in Scorers, Cleanup(s)
    PROVE  ScoreInv'
<1>1. ScoreTypeInv /\ ScorerInv(s)
  BY DEF ScoreInv
<1>2. CASE Unlink(s, "undoSummary", "summary.json", "undoScored")
  <2>1. at[s] = "undoSummary" /\ Goto(s, "undoScored")
        /\ UNCHANGED <<gate, output, known, report>>
    BY <1>2 DEF Unlink
  <2>2. \/ ~("summary.json" \in known[s] /\ In("summary.json", s)) /\ UNCHANGED <<placed, spoilt>>
        \/ /\ In("summary.json", s) /\ spoilt' = spoilt
           /\ placed' = [placed EXCEPT !["summary.json"] = NoOne]
        \/ placed' = placed /\ spoilt' = [spoilt EXCEPT ![s] = TRUE]
    BY <1>2 DEF Unlink, In
  <2>3. placed' \in [Names -> Scorers \cup {NoOne}] /\ spoilt' \in [Scorers -> BOOLEAN]
        /\ \A t \in Scorers \ {s} : spoilt'[t] = spoilt[t]
    BY <1>1, <2>2 DEF ScoreTypeInv
  <2>4. ScoreTypeInv' /\ at'[s] = "undoScored"
        /\ \A c \in (Scorers \cup Reporters) \ {s} : at'[c] = at[c]
    BY <1>1, <2>1, <2>3, PcType DEF ScoreTypeInv, ScorerPlaces
  <2>5. ASSUME NEW n \in Names \ {"summary.json"} PROVE In(n, s)' <=> In(n, s)
    <3>1. placed'[n] = placed[n]
      BY <1>1, <2>2, <2>5 DEF ScoreTypeInv
    <3>. QED
      BY <3>1 DEF In
  <2>8. \/ ~("summary.json" \in known[s] /\ In("summary.json", s)) 
           /\ (In("summary.json", s)' <=> In("summary.json", s)) /\ spoilt'[s] = spoilt[s]
        \/ ~In("summary.json", s)' /\ spoilt'[s] = spoilt[s]
        \/ (In("summary.json", s)' <=> In("summary.json", s)) /\ spoilt'[s]
    <3>1. "summary.json" \in Names /\ s # NoOne
      BY DEF Names, CommandsAreLegal
    <3>2. placed' = [placed EXCEPT !["summary.json"] = NoOne] => ~In("summary.json", s)'
      BY <1>1, <3>1 DEF ScoreTypeInv, In
    <3>3. spoilt' = [spoilt EXCEPT ![s] = TRUE] => spoilt'[s]
      BY <1>1 DEF ScoreTypeInv
    <3>4. placed' = placed => (In("summary.json", s)' <=> In("summary.json", s))
      BY DEF In
    <3>. QED
      BY <2>2, <3>2, <3>3, <3>4
  <2>6. ScorerInv(s)'
    <3>1. Names = {"scored.jsonl", "summary.json"} /\ at[s] \in Holding
      BY <2>1 DEF Names, Holding
    <3>2. DirectoryInv(s)'
      BY <1>1, <2>1, <2>4, <2>5, <2>8, <3>1 DEF ScorerInv, DirectoryInv, BackwardInv, Holding
    <3>3. ForwardInv(s)'
      BY <2>4 DEF ForwardInv
    <3>4. BackwardInv(s)'
      BY <1>1, <2>1, <2>4, <2>5, <2>8, <3>1 DEF ScorerInv, BackwardInv
    <3>. QED
      BY <3>2, <3>3, <3>4 DEF ScorerInv
  <2>7. \A t \in Scorers \ {s} : \A n \in Names : placed'[n] = t <=> placed[n] = t
    BY <1>1, <2>2 DEF ScoreTypeInv, In, CommandsAreLegal
  <2>. QED
    BY <1>1, <2>1, <2>3, <2>4, <2>6, <2>7, Frame
<1>3. CASE Unlink(s, "undoScored", "scored.jsonl", "undoDirectory")
  <2>1. at[s] = "undoScored" /\ Goto(s, "undoDirectory")
        /\ UNCHANGED <<gate, output, known, report>>
    BY <1>3 DEF Unlink
  <2>2. \/ ~("scored.jsonl" \in known[s] /\ In("scored.jsonl", s)) /\ UNCHANGED <<placed, spoilt>>
        \/ /\ In("scored.jsonl", s) /\ spoilt' = spoilt
           /\ placed' = [placed EXCEPT !["scored.jsonl"] = NoOne]
        \/ placed' = placed /\ spoilt' = [spoilt EXCEPT ![s] = TRUE]
    BY <1>3 DEF Unlink, In
  <2>3. placed' \in [Names -> Scorers \cup {NoOne}] /\ spoilt' \in [Scorers -> BOOLEAN]
        /\ \A t \in Scorers \ {s} : spoilt'[t] = spoilt[t]
    BY <1>1, <2>2 DEF ScoreTypeInv
  <2>4. ScoreTypeInv' /\ at'[s] = "undoDirectory"
        /\ \A c \in (Scorers \cup Reporters) \ {s} : at'[c] = at[c]
    BY <1>1, <2>1, <2>3, PcType DEF ScoreTypeInv, ScorerPlaces
  <2>5. ASSUME NEW n \in Names \ {"scored.jsonl"} PROVE In(n, s)' <=> In(n, s)
    <3>1. placed'[n] = placed[n]
      BY <1>1, <2>2, <2>5 DEF ScoreTypeInv
    <3>. QED
      BY <3>1 DEF In
  <2>8. \/ ~("scored.jsonl" \in known[s] /\ In("scored.jsonl", s)) 
           /\ (In("scored.jsonl", s)' <=> In("scored.jsonl", s)) /\ spoilt'[s] = spoilt[s]
        \/ ~In("scored.jsonl", s)' /\ spoilt'[s] = spoilt[s]
        \/ (In("scored.jsonl", s)' <=> In("scored.jsonl", s)) /\ spoilt'[s]
    <3>1. "scored.jsonl" \in Names /\ s # NoOne
      BY DEF Names, CommandsAreLegal
    <3>2. placed' = [placed EXCEPT !["scored.jsonl"] = NoOne] => ~In("scored.jsonl", s)'
      BY <1>1, <3>1 DEF ScoreTypeInv, In
    <3>3. spoilt' = [spoilt EXCEPT ![s] = TRUE] => spoilt'[s]
      BY <1>1 DEF ScoreTypeInv
    <3>4. placed' = placed => (In("scored.jsonl", s)' <=> In("scored.jsonl", s))
      BY DEF In
    <3>. QED
      BY <2>2, <3>2, <3>3, <3>4
  <2>6. ScorerInv(s)'
    <3>1. Names = {"scored.jsonl", "summary.json"} /\ at[s] \in Holding
      BY <2>1 DEF Names, Holding
    <3>2. DirectoryInv(s)'
      BY <1>1, <2>1, <2>4, <2>5, <2>8, <3>1 DEF ScorerInv, DirectoryInv, BackwardInv, Holding
    <3>3. ForwardInv(s)'
      BY <2>4 DEF ForwardInv
    <3>4. BackwardInv(s)'
      BY <1>1, <2>1, <2>4, <2>5, <2>8, <3>1 DEF ScorerInv, BackwardInv
    <3>. QED
      BY <3>2, <3>3, <3>4 DEF ScorerInv
  <2>7. \A t \in Scorers \ {s} : \A n \in Names : placed'[n] = t <=> placed[n] = t
    BY <1>1, <2>2 DEF ScoreTypeInv, In, CommandsAreLegal
  <2>. QED
    BY <1>1, <2>1, <2>3, <2>4, <2>6, <2>7, Frame
<1>4. CASE at[s] = "undoDirectory" /\ ~\E n \in {"undoSummary", "undoScored"} : at[s] = n
  <2>1. Goto(s, "failed") /\ UNCHANGED <<gate, placed, known, report>>
    BY <1>4 DEF Cleanup, Unlink
  <2>2. \/ /\ output = s /\ \A n \in Names : placed[n] = NoOne
           /\ output' = NoOne /\ spoilt' = spoilt
        \/ output' = output /\ spoilt' = [spoilt EXCEPT ![s] = TRUE]
    BY <1>4 DEF Cleanup, Unlink
  <2>3. /\ output' \in Scorers \cup {NoOne} /\ spoilt' \in [Scorers -> BOOLEAN]
        /\ \A t \in Scorers \ {s} : spoilt'[t] = spoilt[t]
        /\ \A t \in Scorers \ {s} : output' = t <=> output = t
    BY <1>1, <2>2 DEF ScoreTypeInv, CommandsAreLegal
  <2>4. ScoreTypeInv' /\ at'[s] = "failed"
        /\ \A c \in (Scorers \cup Reporters) \ {s} : at'[c] = at[c]
    BY <1>1, <2>1, <2>3, PcType DEF ScoreTypeInv, ScorerPlaces
  <2>5. \/ output' # s /\ \A n \in Names : ~In(n, s)'
        \/ output' = output /\ spoilt'[s] = TRUE
    BY <1>1, <2>1, <2>2 DEF ScoreTypeInv, In, CommandsAreLegal
  <2>6. ScorerInv(s)'
    BY <1>1, <1>4, <2>1, <2>4, <2>5
       DEF ScorerInv, DirectoryInv, ForwardInv, BackwardInv, Holding, In, Names
  <2>. QED
    BY <1>1, <1>4, <2>1, <2>3, <2>4, <2>6, Frame
<1>. QED
  BY <1>2, <1>3, <1>4 DEF Cleanup

LEMMA DieStep ==
    ASSUME CommandsAreLegal, ScoreInv, NEW c \in Scorers \cup Reporters, Kill(c)
    PROVE  ScoreInv'
<1>1. ScoreTypeInv /\ Goto(c, "killed") /\ at[c] \notin Resting
      /\ UNCHANGED <<gate, output, placed, known, spoilt, report>>
  BY DEF ScoreInv, Kill
<1>2. "killed" \in ScorerPlaces \cap ReporterPlaces
  BY DEF ScorerPlaces, ReporterPlaces
<1>3. CASE c \in Scorers
  <2>1. ScoreTypeInv' /\ at'[c] = "killed"
        /\ \A d \in (Scorers \cup Reporters) \ {c} : at'[d] = at[d]
    BY <1>1, <1>2, <1>3, PcType DEF ScoreTypeInv
  <2>2. ScorerInv(c)
    BY <1>3 DEF ScoreInv
  <2>3. ScorerInv(c)'
    BY <1>1, <2>1, <2>2 DEF ScorerInv, DirectoryInv, ForwardInv, BackwardInv, Holding, In
  <2>. QED
    BY <1>1, <1>3, <2>1, <2>3, Frame DEF Resting
<1>4. CASE c \in Reporters
  <2>1. ScoreTypeInv' /\ at'[c] = "killed"
        /\ \A d \in (Scorers \cup Reporters) \ {c} : at'[d] = at[d]
    BY <1>1, <1>2, <1>4, ReporterPcType DEF ScoreTypeInv
  <2>2. ReportInv(c)'
    BY <2>1 DEF ReportInv
  <2>. QED
    BY <1>1, <1>4, <2>1, <2>2, ReporterFrame
<1>. QED
  BY <1>3, <1>4

LEMMA LoadScoredStep ==
    ASSUME CommandsAreLegal, ScoreInv, NEW r \in Reporters, LoadScored(r)
    PROVE  ScoreInv'
<1>1. ScoreTypeInv /\ UNCHANGED <<gate, output, placed, known, spoilt>>
  BY DEF ScoreInv, LoadScored
<1>2. CASE placed["scored.jsonl"] = NoOne
  <2>1. Goto(r, "refused") /\ report' = report
    BY <1>2 DEF LoadScored
  <2>2. ScoreTypeInv' /\ at'[r] = "refused"
        /\ \A c \in (Scorers \cup Reporters) \ {r} : at'[c] = at[c]
    BY <1>1, <2>1, ReporterPcType DEF ScoreTypeInv, ReporterPlaces
  <2>3. ReportInv(r)'
    BY <2>2 DEF ReportInv
  <2>. QED
    BY <1>1, <2>1, <2>2, <2>3, ReporterFrame
<1>3. CASE placed["scored.jsonl"] # NoOne
  <2>1. PICK s \in Scorers : s = placed["scored.jsonl"]
    BY <1>1, <1>3 DEF ScoreTypeInv, Names
  <2>2. PICK finished \in BOOLEAN : finished <=> at[s] = "done"
    OBVIOUS
  <2>3. Goto(r, "loaded")
        /\ report' = [report EXCEPT ![r] = [of |-> s, gate |-> "hard", finished |-> finished]]
    BY <1>3, <2>1, <2>2 DEF LoadScored
  <2>4. report'[r] = [of |-> s, gate |-> "hard", finished |-> finished]
        /\ \A q \in Reporters \ {r} : report'[q] = report[q]
        /\ report' \in [Reporters -> [of : Scorers \cup {NoOne}, gate : {"hard", "semantic"},
                                      finished : BOOLEAN]]
    BY <1>1, <2>3 DEF ScoreTypeInv
  <2>5. ScoreTypeInv' /\ at'[r] = "loaded"
        /\ \A c \in (Scorers \cup Reporters) \ {r} : at'[c] = at[c]
    BY <1>1, <2>3, <2>4, ReporterPcType DEF ScoreTypeInv, ReporterPlaces
  <2>6. ReportInv(r)'
    BY <2>2, <2>4, <2>5 DEF ReportInv, CommandsAreLegal
  <2>. QED
    BY <1>1, <2>4, <2>5, <2>6, ReporterFrame
<1>. QED
  BY <1>2, <1>3

LEMMA RenderStep ==
    ASSUME CommandsAreLegal, ScoreInv, NEW r \in Reporters, Render(r)
    PROVE  ScoreInv'
<1>1. ScoreTypeInv /\ ReportInv(r) /\ at[r] = "loaded"
      /\ UNCHANGED <<gate, output, placed, known, spoilt>>
  BY DEF ScoreInv, Render
<1>2. /\ report[r].of \in Scorers /\ report[r].gate = "hard"
      /\ report[r].finished => at[report[r].of] = "done"
  BY <1>1 DEF ReportInv
<1>3. CASE placed["summary.json"] = NoOne /\ Goto(r, "done") /\ report' = report
  <2>1. ScoreTypeInv' /\ at'[r] = "done"
        /\ \A c \in (Scorers \cup Reporters) \ {r} : at'[c] = at[c]
    BY <1>1, <1>3, ReporterPcType DEF ScoreTypeInv, ReporterPlaces
  <2>2. ~report[r].finished
    BY <1>2, <1>3 DEF ScoreInv, ScorerInv, ForwardInv, In, CommandsAreLegal
  <2>3. ReportInv(r)'
    BY <1>2, <1>3, <2>1, <2>2 DEF ReportInv
  <2>. QED
    BY <1>1, <1>3, <2>1, <2>3, ReporterFrame
<1>4. CASE /\ Goto(r, "done")
           /\ report' = [report EXCEPT ![r].gate = gate[report[r].of]]
  <2>1. report' = [report EXCEPT ![r] = [report[r] EXCEPT !.gate = gate[report[r].of]]]
    BY <1>4
  <2>2. gate[report[r].of] \in {"hard", "semantic"}
    BY <1>1, <1>2 DEF ScoreTypeInv
  <2>3. /\ report'[r].of = report[r].of /\ report'[r].gate = gate[report[r].of]
        /\ \A q \in Reporters \ {r} : report'[q] = report[q]
        /\ report' \in [Reporters -> [of : Scorers \cup {NoOne}, gate : {"hard", "semantic"},
                                      finished : BOOLEAN]]
    BY <1>1, <2>1, <2>2 DEF ScoreTypeInv
  <2>4. ScoreTypeInv' /\ at'[r] = "done"
        /\ \A c \in (Scorers \cup Reporters) \ {r} : at'[c] = at[c]
    BY <1>1, <1>4, <2>3, ReporterPcType DEF ScoreTypeInv, ReporterPlaces
  <2>5. ReportInv(r)'
    BY <1>1, <2>3, <2>4 DEF ReportInv
  <2>. QED
    BY <1>1, <2>3, <2>4, <2>5, ReporterFrame
<1>5. CASE Goto(r, "refused") /\ report' = report
  <2>1. ScoreTypeInv' /\ at'[r] = "refused"
        /\ \A c \in (Scorers \cup Reporters) \ {r} : at'[c] = at[c]
    BY <1>1, <1>5, ReporterPcType DEF ScoreTypeInv, ReporterPlaces
  <2>2. ReportInv(r)'
    BY <2>1 DEF ReportInv
  <2>. QED
    BY <1>1, <1>5, <2>1, <2>2, ReporterFrame
<1>. QED
  BY <1>3, <1>4, <1>5 DEF Render

-----------------------------------------------------------------------------
(* Theorems *)

LEMMA ScoreInitInv == CommandsAreLegal /\ ScoreInit => ScoreInv
<1>. SUFFICES ASSUME CommandsAreLegal, ScoreInit PROVE ScoreInv
  OBVIOUS
<1>1. ScoreTypeInv
  BY DEF ScoreInit, ScoreTypeInv, NoReport, ScorerPlaces, ReporterPlaces
<1>2. ASSUME NEW s \in Scorers PROVE ScorerInv(s)
  BY DEF CommandsAreLegal, ScoreInit, ScorerInv, DirectoryInv, ForwardInv, BackwardInv, Holding, In,
         Names
<1>3. ASSUME NEW r \in Reporters PROVE ReportInv(r)
  BY DEF ScoreInit, ReportInv
<1>. QED
  BY <1>1, <1>2, <1>3 DEF ScoreInv

LEMMA ScoreNextInv == CommandsAreLegal /\ ScoreInv /\ [ScoreNext]_svars => ScoreInv'
<1>. SUFFICES ASSUME CommandsAreLegal, ScoreInv, [ScoreNext]_svars PROVE ScoreInv'
  OBVIOUS
<1>1. CASE \E s \in Scorers :
              \/ Stage(s) \/ MakeDirectory(s) \/ RecordReservation(s) \/ RenameFiles(s)
              \/ SyncDirectories(s) \/ Fail(s) \/ Cleanup(s) \/ Kill(s)
  BY <1>1, StageStep, MakeDirectoryStep, RecordReservationStep, RenameFilesStep, FinishStep, FailStep,
     CleanupStep, DieStep
<1>2. CASE \E r \in Reporters : LoadScored(r) \/ Render(r) \/ Kill(r)
  BY <1>2, LoadScoredStep, RenderStep, DieStep
<1>3. CASE UNCHANGED svars
  BY <1>3 DEF svars, ScoreInv, ScoreTypeInv, ScorerInv, DirectoryInv, ForwardInv, BackwardInv, In, ReportInv
<1>. QED
  BY <1>1, <1>2, <1>3 DEF ScoreNext

(* The invariant holds in every reachable state.                               *)
THEOREM ScoreInvariance ==
    ASSUME CommandsAreLegal
    PROVE  ScoreSpec => []ScoreInv
<1>1. ScoreInit => ScoreInv
  BY ScoreInitInv
<1>2. ScoreInv /\ [ScoreNext]_svars => ScoreInv'
  BY ScoreNextInv
<1>. QED
  BY <1>1, <1>2, PTL DEF ScoreSpec

(* However many score commands contend for one output, fail, are interrupted   *)
(* or die: files of two are never together, a summary is never without its     *)
(* scores but after a cleanup that could not finish, what reported success     *)
(* keeps both files, and a failure leaves the name free (_publish_score).      *)
THEOREM StayWhole ==
    ASSUME CommandsAreLegal
    PROVE  ScoreSpec => []ScoresStayWhole
<1>1. ScoreInv => ScoresStayWhole
  <2>. SUFFICES ASSUME ScoreInv PROVE ScoresStayWhole
    OBVIOUS
  <2>1. NeverMixed
    <3>. SUFFICES ASSUME NEW n \in Names, placed[n] # NoOne
                  PROVE  output = placed[n]
                         /\ (placed["scored.jsonl"] = output \/ spoilt[output])
      BY DEF NeverMixed
    <3>1. PICK s \in Scorers : s = placed[n]
      BY DEF ScoreInv, ScoreTypeInv
    <3>2. output = s /\ DirectoryInv(s)
      BY <3>1 DEF ScoreInv, ScorerInv, DirectoryInv, In
    <3>. QED
      BY <3>1, <3>2 DEF DirectoryInv, In, Names
  <2>2. FinishedStays
    BY DEF FinishedStays, ScoreInv, ScorerInv, ForwardInv, In, Names
  <2>3. FailureIsAtomic
    BY DEF FailureIsAtomic, ScoreInv, ScorerInv, DirectoryInv
  <2>. QED
    BY <2>1, <2>2, <2>3 DEF ScoresStayWhole
<1>. QED
  BY <1>1, ScoreInvariance, PTL

(* A report of any of them has the gate of the scores it shows, and falls back *)
(* to the hard gate only with scores whose command had not finished.           *)
THEOREM ReportHasItsGate ==
    ASSUME CommandsAreLegal
    PROVE  ScoreSpec => []GateIsReported
<1>1. ScoreInv => GateIsReported
  BY DEF ScoreInv, ReportInv, GateIsReported
<1>. QED
  BY <1>1, ScoreInvariance, PTL

-----------------------------------------------------------------------------
(* The rows of the legacy runner: in plan order, attempts of an item together  *)

LRows == [item : Legacy!Items, attempt : 1 .. Legacy!MaxAttempts, terminal : BOOLEAN,
          fault : {"none", "authentication", "transient", "permanent"},
          model : Models \cup {NoModel}, breaks : BOOLEAN]

NextItem(rows) ==
    IF Len(rows) = 0 THEN 1
    ELSE IF rows[Len(rows)].terminal THEN rows[Len(rows)].item + 1 ELSE rows[Len(rows)].item
NextAttempt(rows) ==
    IF Len(rows) = 0 THEN 1
    ELSE IF rows[Len(rows)].terminal THEN 1 ELSE rows[Len(rows)].attempt + 1

Retried(row) == row.fault = "transient" /\ row.attempt < Legacy!MaxAttempts
Judged(rows) == \A n \in 1 .. Len(rows) : rows[n].terminal <=> ~Retried(rows[n])
Ordered(rows) ==
    \A k, n \in 1 .. Len(rows) :
        k < n => \/ rows[k].item < rows[n].item
                 \/ /\ rows[k].item = rows[n].item /\ ~rows[k].terminal
                    /\ rows[n].attempt = rows[k].attempt + (n - k)
Joined(rows) ==
    \A n \in 1 .. Len(rows) : \A k \in n - rows[n].attempt + 1 .. n :
        k \in 1 .. Len(rows) /\ rows[k].item = rows[n].item
Resolved(rows) ==
    \A i \in Legacy!Items :
        i < NextItem(rows) => \E n \in 1 .. Len(rows) : rows[n].item = i /\ rows[n].terminal
StopIsLast(rows) == \A n \in 1 .. Len(rows) : rows[n].fault = "authentication" => n = Len(rows)

RowsInv(rows) ==
    rows \in Seq(LRows) /\ Judged(rows) /\ Ordered(rows) /\ Joined(rows) /\ Resolved(rows) /\ StopIsLast(rows)

LEMMA LegacyConstants ==
    /\ PlanLength \in Nat \ {0} /\ MaxTransientRetries \in Nat /\ NoModel \notin Models
    /\ Legacy!MaxAttempts \in Nat \ {0} /\ Legacy!Items = 1 .. PlanLength
BY AllConstantsAreLegal DEF Legacy!ConstantsAreLegal, Legacy!MaxAttempts, Legacy!Items

LEMMA RowIs ==
    ASSUME NEW rows, RowsInv(rows), NEW n \in 1 .. Len(rows)
    PROVE  /\ Len(rows) \in Nat /\ rows[n] \in LRows
           /\ rows[n].item \in 1 .. PlanLength /\ rows[n].attempt \in 1 .. Legacy!MaxAttempts
           /\ rows[n].item \in Nat /\ rows[n].attempt \in Nat /\ rows[n].terminal \in BOOLEAN
<1>1. rows \in Seq(LRows)
    BY DEF RowsInv
<1>2. Len(rows) \in Nat /\ rows[n] \in LRows
    BY <1>1
<1>. DEFINE row == rows[n]
<1>. HIDE DEF row
<1>3. row \in LRows => /\ row.item \in 1 .. PlanLength /\ row.attempt \in 1 .. Legacy!MaxAttempts
                        /\ row.item \in Nat /\ row.attempt \in Nat /\ row.terminal \in BOOLEAN
    BY LegacyConstants DEF LRows
<1>. QED BY <1>2, <1>3 DEF row

LEMMA NextIs ==
    ASSUME NEW rows, RowsInv(rows)
    PROVE  /\ NextItem(rows) \in 1 .. PlanLength + 1
           /\ NextAttempt(rows) \in 1 .. Legacy!MaxAttempts
           /\ \A n \in 1 .. Len(rows) :
                 /\ rows[n].item <= NextItem(rows)
                 /\ rows[n].item = NextItem(rows) => ~rows[n].terminal
<1>1. Len(rows) \in Nat
    BY DEF RowsInv
<1>2. CASE Len(rows) = 0
    BY <1>2, LegacyConstants DEF NextItem, NextAttempt
<1>3. CASE Len(rows) # 0
    <2>. DEFINE last == rows[Len(rows)]
    <2>1. Len(rows) \in 1 .. Len(rows)
        BY <1>1, <1>3
    <2>2. /\ last.item \in 1 .. PlanLength /\ last.attempt \in 1 .. Legacy!MaxAttempts
          /\ last.terminal \in BOOLEAN
        BY <2>1, RowIs
    <2>3. ~last.terminal => last.attempt < Legacy!MaxAttempts
        BY <2>1 DEF RowsInv, Judged, Retried
    <2>4. /\ NextItem(rows) = IF last.terminal THEN last.item + 1 ELSE last.item
          /\ NextAttempt(rows) = IF last.terminal THEN 1 ELSE last.attempt + 1
        BY <1>3 DEF NextItem, NextAttempt
    <2>5. ASSUME NEW n \in 1 .. Len(rows)
          PROVE  /\ rows[n].item <= last.item
                 /\ rows[n].item = last.item /\ n # Len(rows) => ~rows[n].terminal
        <3>1. rows[n].item \in Nat /\ last.item \in Nat
            BY <2>1, RowIs
        <3>2. n # Len(rows) => n < Len(rows)
            BY <1>1
        <3>. QED BY <2>1, <3>1, <3>2 DEF RowsInv, Ordered
    <2>. HIDE DEF last
    <2>6. NextItem(rows) \in 1 .. PlanLength + 1 /\ NextAttempt(rows) \in 1 .. Legacy!MaxAttempts
        BY <2>2, <2>3, <2>4, LegacyConstants
    <2>7. ASSUME NEW n \in 1 .. Len(rows)
          PROVE  /\ rows[n].item <= NextItem(rows)
                 /\ rows[n].item = NextItem(rows) => ~rows[n].terminal
        <3>1. rows[n].item \in Nat /\ rows[n].item <= last.item /\ last.item \in Nat
            BY <2>2, <2>5, RowIs
        <3>2. CASE last.terminal
            BY <2>4, <3>1, <3>2
        <3>3. CASE ~last.terminal
            <4>1. NextItem(rows) = last.item
                BY <2>4, <3>3
            <4>2. n = Len(rows) => ~rows[n].terminal
                BY <3>3 DEF last
            <4>. QED BY <2>5, <3>1, <4>1, <4>2
        <3>. QED BY <3>2, <3>3
    <2>. QED BY <2>6, <2>7
<1>. QED BY <1>1, <1>2, <1>3

(* One more row, of the next attempt.                                          *)
Follows(row, rows) ==
    /\ row \in LRows
    /\ row.item = NextItem(rows) /\ row.attempt = NextAttempt(rows)
    /\ row.terminal <=> ~Retried(row)

LEMMA OneMoreRow ==
    ASSUME NEW rows, RowsInv(rows), NEW row, Follows(row, rows), ~Legacy!AuthenticationSeen(rows)
    PROVE  /\ RowsInv(Append(rows, row))
           /\ NextItem(Append(rows, row)) = IF row.terminal THEN row.item + 1 ELSE row.item
           /\ NextAttempt(Append(rows, row)) = IF row.terminal THEN 1 ELSE row.attempt + 1
<1>. DEFINE new == Append(rows, row)
            N == Len(rows)
<1>1. /\ N \in Nat /\ Len(new) = N + 1 /\ new[N + 1] = row /\ \A n \in 1 .. N : new[n] = rows[n]
      /\ new \in Seq(LRows)
    BY DEF RowsInv, Follows
<1>2. /\ row.item \in 1 .. PlanLength /\ row.attempt \in 1 .. Legacy!MaxAttempts
      /\ row.terminal \in BOOLEAN
    BY LegacyConstants DEF Follows, LRows
<1>. HIDE DEF new
<1>3. /\ NextItem(new) = IF row.terminal THEN row.item + 1 ELSE row.item
      /\ NextAttempt(new) = IF row.terminal THEN 1 ELSE row.attempt + 1
    <2>. HIDE DEF N
    <2>1. Len(new) # 0 /\ new[Len(new)] = row
        BY <1>1
    <2>. QED BY <2>1 DEF NextItem, NextAttempt
<1>4. \A n \in 1 .. N + 1 : n \in 1 .. N \/ n = N + 1
    BY <1>1
<1>5. Judged(new)
    BY <1>1, <1>4 DEF Judged, RowsInv, Follows
<1>6. StopIsLast(new)
    BY <1>1, <1>4 DEF StopIsLast, Legacy!AuthenticationSeen
<1>7. \A n \in 1 .. N : rows[n].item \in Nat /\ rows[n].attempt \in Nat
    BY RowIs
<1>8. Ordered(new)
    <2>. SUFFICES ASSUME NEW k \in 1 .. N + 1, NEW n \in 1 .. N + 1, k < n
                  PROVE  \/ new[k].item < new[n].item
                         \/ /\ new[k].item = new[n].item /\ ~new[k].terminal
                            /\ new[n].attempt = new[k].attempt + (n - k)
        BY <1>1 DEF Ordered
    <2>1. k \in 1 .. N /\ new[k] = rows[k]
        BY <1>1
    <2>2. CASE n \in 1 .. N
        BY <1>1, <2>1, <2>2 DEF RowsInv, Ordered
    <2>3. CASE n = N + 1
        <3>1. N \in 1 .. N /\ N # 0
            BY <1>1, <2>1
        <3>. DEFINE last == rows[N]
        <3>2. /\ NextItem(rows) = IF last.terminal THEN last.item + 1 ELSE last.item
              /\ NextAttempt(rows) = IF last.terminal THEN 1 ELSE last.attempt + 1
            BY <3>1 DEF NextItem, NextAttempt
        <3>3. /\ row.item = IF last.terminal THEN last.item + 1 ELSE last.item
              /\ row.attempt = IF last.terminal THEN 1 ELSE last.attempt + 1
              /\ new[n] = row
            BY <1>1, <2>3, <3>2 DEF Follows
        <3>4. last.item \in Nat /\ last.attempt \in Nat /\ rows[k].item \in Nat /\ rows[k].attempt \in Nat
            BY <1>7, <2>1, <3>1
        <3>5. \/ rows[k].item < last.item
              \/ /\ rows[k].item = last.item /\ ~rows[k].terminal
                 /\ last.attempt = rows[k].attempt + (N - k)
              \/ k = N /\ rows[k] = last
            <4>1. k < N \/ k = N
                BY <1>1, <2>1
            <4>. QED BY <2>1, <3>1, <4>1 DEF RowsInv, Ordered
        <3>. HIDE DEF last
        <3>6. CASE last.terminal
            BY <2>1, <3>3, <3>4, <3>5, <3>6
        <3>7. CASE ~last.terminal
            <4>1. row.item = last.item /\ row.attempt = last.attempt + 1
                BY <3>3, <3>7
            <4>2. CASE rows[k].item < last.item
                BY <2>1, <3>3, <4>1, <4>2
            <4>3. CASE /\ rows[k].item = last.item /\ ~rows[k].terminal
                       /\ last.attempt = rows[k].attempt + (N - k)
                <5>1. new[k].item = new[n].item /\ ~new[k].terminal
                    BY <2>1, <3>3, <4>1, <4>3
                <5>2. row.attempt = rows[k].attempt + (N - k) + 1
                    BY <4>1, <4>3
                <5>3. rows[k].attempt + (N - k) + 1 = rows[k].attempt + (n - k)
                    BY <1>1, <2>1, <2>3, <3>4
                <5>. QED BY <2>1, <3>3, <5>1, <5>2, <5>3
            <4>4. CASE k = N /\ rows[k] = last
                BY <1>1, <2>1, <2>3, <3>3, <3>4, <3>7, <4>1, <4>4
            <4>. QED BY <3>5, <4>2, <4>3, <4>4
        <3>. QED BY <3>6, <3>7
    <2>. QED BY <1>4, <2>2, <2>3
<1>9. Joined(new)
    <2>. SUFFICES ASSUME NEW n \in 1 .. N + 1, NEW k \in n - new[n].attempt + 1 .. n
                  PROVE  k \in 1 .. N + 1 /\ new[k].item = new[n].item
        BY <1>1 DEF Joined
    <2>1. CASE n \in 1 .. N
        <3>1. k \in 1 .. N /\ rows[k].item = rows[n].item
            BY <1>1, <2>1 DEF RowsInv, Joined
        <3>. QED BY <1>1, <2>1, <3>1
    <2>2. CASE n = N + 1
        <3>1. new[n] = row
            BY <1>1, <2>2
        <3>2. CASE k = N + 1
            BY <1>1, <2>2, <3>2
        <3>3. CASE k # N + 1
            <4>. DEFINE last == rows[N]
            <4>1. k \in Int /\ k <= N /\ k >= N + 1 - row.attempt + 1 /\ row.attempt # 1
                BY <1>1, <1>2, <2>2, <3>1, <3>3
            <4>2. N # 0 /\ ~last.terminal /\ row.item = last.item /\ row.attempt = last.attempt + 1
                BY <4>1 DEF Follows, NextItem, NextAttempt
            <4>3. N \in 1 .. N /\ last.attempt \in Nat
                BY <1>1, <1>7, <4>2
            <4>4. k \in N - last.attempt + 1 .. N
                BY <1>1, <4>1, <4>2, <4>3
            <4>5. k \in 1 .. N /\ rows[k].item = last.item
                BY <4>3, <4>4 DEF RowsInv, Joined
            <4>. QED BY <1>1, <3>1, <4>2, <4>5
        <3>. QED BY <3>2, <3>3
    <2>. QED BY <1>4, <2>1, <2>2
<1>10. Resolved(new)
    <2>. SUFFICES ASSUME NEW i \in Legacy!Items, i < NextItem(new)
                  PROVE  \E n \in 1 .. N + 1 : new[n].item = i /\ new[n].terminal
        BY <1>1 DEF Resolved
    <2>1. i \in Nat
        BY LegacyConstants
    <2>2. CASE i < row.item
        <3>1. PICK n \in 1 .. N : rows[n].item = i /\ rows[n].terminal
            BY <2>2 DEF RowsInv, Resolved, Follows
        <3>. QED BY <1>1, <3>1
    <2>3. CASE row.terminal /\ i = row.item
        BY <1>1, <2>3
    <2>. QED BY <1>2, <1>3, <2>1, <2>2, <2>3
<1>11. RowsInv(new)
    BY <1>1, <1>5, <1>6, <1>8, <1>9, <1>10 DEF RowsInv
<1>. QED BY <1>3, <1>11 DEF new

-----------------------------------------------------------------------------
(* What the validation of an invocation makes of such rows *)

LEMMA SameLegacyCardinality ==
    ASSUME NEW S
    PROVE  Legacy!Cardinality(S) = Cardinality(S)
BY Zenon DEF Legacy!Cardinality, Cardinality

(* The rows of an item up to one of them are as many as its attempt says.      *)
LEMMA RankIsAttempt ==
    ASSUME NEW rows, RowsInv(rows), NEW n \in 1 .. Len(rows)
    PROVE  Legacy!Rank(rows, rows[n].item, n) = rows[n].attempt
<1>. DEFINE a == rows[n].attempt
            C == { k \in Legacy!Chain(rows, rows[n].item) : k <= n }
<1>1. n \in Nat /\ a \in Nat \ {0}
    BY RowIs
<1>2. \A k \in n - a + 1 .. n : k \in 1 .. Len(rows) /\ rows[k].item = rows[n].item
    BY DEF RowsInv, Joined
<1>3. ASSUME NEW k \in C PROVE k \in n - a + 1 .. n
    <2>1. k \in 1 .. Len(rows) /\ rows[k].item = rows[n].item /\ k <= n
        BY DEF Legacy!Chain
    <2>2. rows[k].attempt \in Nat \ {0} /\ rows[k].item \in Nat /\ k \in Nat
        BY <2>1, RowIs
    <2>3. k < n => a = rows[k].attempt + (n - k)
        BY <2>1, <2>2 DEF RowsInv, Ordered
    <2>. HIDE DEF a, C
    <2>4. CASE k < n
        <3>1. n - k < a
            BY <1>1, <2>2, <2>3, <2>4
        <3>. QED BY <1>1, <2>1, <2>2, <3>1
    <2>5. CASE k = n
        BY <1>1, <2>5
    <2>. QED BY <1>1, <2>1, <2>2, <2>4, <2>5
<1>4. C = n - a + 1 .. n
    <2>1. \A k \in n - a + 1 .. n : k <= n
        BY <1>1
    <2>2. \A k \in n - a + 1 .. n : k \in C
        BY <1>2, <2>1 DEF Legacy!Chain
    <2>. HIDE DEF C, a
    <2>. QED BY <1>3, <2>2
<1>5. Cardinality(n - a + 1 .. n) = a
    <2>. HIDE DEF a
    <2>1. n - a + 1 \in Int /\ n \in Int /\ ~(n - a + 1 > n) /\ n - (n - a + 1) + 1 = a
        BY <1>1
    <2>. QED BY <2>1, FS_Interval
<1>. QED BY <1>4, <1>5, SameLegacyCardinality DEF Legacy!Rank

LEMMA ChainsArePossible ==
    ASSUME NEW rows, RowsInv(rows), NEW i \in Legacy!Items
    PROVE  Legacy!ChainIsPossible(rows, i)
<1>. SUFFICES ASSUME NEW n \in Legacy!Chain(rows, i)
              PROVE  LET row == rows[n]
                     IN  /\ row.attempt = Legacy!Rank(rows, i, n) /\ row.attempt <= Legacy!MaxAttempts
                         /\ IF row.terminal
                            THEN /\ \A k \in Legacy!Chain(rows, i) : k <= n
                                 /\ row.fault = "transient" => row.attempt = Legacy!MaxAttempts
                            ELSE row.fault = "transient" /\ row.attempt < Legacy!MaxAttempts
    BY DEF Legacy!ChainIsPossible
<1>1. n \in 1 .. Len(rows) /\ rows[n].item = i
    BY DEF Legacy!Chain
<1>2. rows[n].attempt = Legacy!Rank(rows, i, n)
    BY <1>1, RankIsAttempt
<1>3. rows[n].attempt \in 1 .. Legacy!MaxAttempts /\ n \in Nat
    BY <1>1, RowIs
<1>4. rows[n].terminal <=> ~Retried(rows[n])
    BY <1>1 DEF RowsInv, Judged
<1>5. ASSUME rows[n].terminal, NEW k \in Legacy!Chain(rows, i) PROVE k <= n
    <2>1. k \in 1 .. Len(rows) /\ rows[k].item = i
        BY DEF Legacy!Chain
    <2>2. k \in Nat /\ i \in Nat
        BY <2>1, RowIs
    <2>3. ~(n < k)
        BY <1>1, <1>5, <2>1, <2>2 DEF RowsInv, Ordered
    <2>. QED BY <1>3, <2>2, <2>3
<1>6. /\ ~rows[n].terminal => rows[n].fault = "transient" /\ rows[n].attempt < Legacy!MaxAttempts
      /\ rows[n].terminal /\ rows[n].fault = "transient" => rows[n].attempt = Legacy!MaxAttempts
    BY <1>3, <1>4, LegacyConstants DEF Retried
<1>. QED BY <1>2, <1>3, <1>5, <1>6

(* So an invocation takes up the plan where the rows end.                      *)
Position(rows, i) ==
    IF i < NextItem(rows) THEN Legacy!Done
    ELSE IF i = NextItem(rows) THEN NextAttempt(rows) ELSE 1

LEMMA ResumesNext ==
    ASSUME NEW rows, RowsInv(rows), NEW i \in Legacy!Items
    PROVE  Legacy!ResumePosition(rows, i) = Position(rows, i)
<1>1. i \in Nat /\ NextItem(rows) \in Nat /\ Len(rows) \in Nat
    BY NextIs, LegacyConstants DEF RowsInv
<1>2. CASE i < NextItem(rows)
    <2>1. PICK n \in 1 .. Len(rows) : rows[n].item = i /\ rows[n].terminal
        BY <1>2 DEF RowsInv, Resolved
    <2>2. n \in Legacy!Chain(rows, i)
        BY <2>1 DEF Legacy!Chain
    <2>. QED BY <1>2, <2>1, <2>2 DEF Legacy!ResumePosition, Position
<1>3. CASE i >= NextItem(rows)
    <2>1. ASSUME NEW n \in Legacy!Chain(rows, i)
          PROVE  i = NextItem(rows) /\ ~rows[n].terminal
        <3>1. n \in 1 .. Len(rows) /\ rows[n].item = i
            BY DEF Legacy!Chain
        <3>. QED BY <1>1, <1>3, <3>1, NextIs
    <2>2. Legacy!ResumePosition(rows, i) = Cardinality(Legacy!Chain(rows, i)) + 1
        BY <2>1, SameLegacyCardinality DEF Legacy!ResumePosition
    <2>3. CASE Legacy!Chain(rows, i) = {}
        <3>1. Legacy!ResumePosition(rows, i) = 1
            BY <2>2, <2>3, FS_EmptySet
        <3>2. i = NextItem(rows) => NextAttempt(rows) = 1
            <4>. SUFFICES ASSUME i = NextItem(rows) PROVE NextAttempt(rows) = 1
                OBVIOUS
            <4>1. Len(rows) # 0 /\ ~rows[Len(rows)].terminal => Len(rows) \in Legacy!Chain(rows, i)
                BY <1>1 DEF NextItem, Legacy!Chain
            <4>. QED BY <2>3, <4>1 DEF NextAttempt
        <3>. QED BY <1>1, <1>3, <3>1, <3>2 DEF Position
    <2>4. CASE Legacy!Chain(rows, i) # {}
        <3>1. PICK n \in Legacy!Chain(rows, i) : TRUE
            BY <2>4
        <3>. DEFINE N == Len(rows)
        <3>2. n \in 1 .. N /\ rows[n].item = i /\ i = NextItem(rows) /\ N # 0
            BY <2>1, <3>1 DEF Legacy!Chain
        <3>3. N \in 1 .. N
            BY <1>1, <3>2
        <3>4. rows[N].item = i /\ ~rows[N].terminal
            <4>1. rows[N].item \in Nat /\ rows[n].item \in Nat
                BY <3>2, <3>3, RowIs
            <4>2. rows[n].item <= rows[N].item
                <5>1. n = N \/ n < N
                    BY <1>1, <3>2
                <5>. QED BY <3>2, <3>3, <4>1, <5>1 DEF RowsInv, Ordered
            <4>3. NextItem(rows) = IF rows[N].terminal THEN rows[N].item + 1 ELSE rows[N].item
                BY <3>2 DEF NextItem
            <4>. QED BY <3>2, <4>1, <4>2, <4>3
        <3>5. NextAttempt(rows) = rows[N].attempt + 1
            BY <3>2, <3>4 DEF NextAttempt
        <3>6. Legacy!Rank(rows, i, N) = rows[N].attempt
            BY <3>3, <3>4, RankIsAttempt
        <3>7. Legacy!Rank(rows, i, N) = Cardinality(Legacy!Chain(rows, i))
            <4>1. { k \in Legacy!Chain(rows, i) : k <= N } = Legacy!Chain(rows, i)
                BY <1>1 DEF Legacy!Chain
            <4>. QED BY <4>1, SameLegacyCardinality DEF Legacy!Rank
        <3>. QED BY <2>2, <3>2, <3>5, <3>6, <3>7, <1>1 DEF Position
    <2>. QED BY <2>3, <2>4
<1>. QED BY <1>1, <1>2, <1>3

LEMMA ModelsAreFinite ==
    ASSUME NEW rows, RowsInv(rows)
    PROVE  Legacy!Cardinality(Legacy!ReturnedModels(rows)) \in Nat
<1>. DEFINE S == { k \in 1 .. Len(rows) : rows[k].fault = "none" }
            f == [k \in S |-> rows[k].model]
<1>1. Len(rows) \in Nat
    BY DEF RowsInv
<1>2. IsFiniteSet(S)
    <2>1. IsFiniteSet(1 .. Len(rows))
        BY <1>1, FS_Interval
    <2>. QED BY <2>1, FS_Subset
<1>3. f \in Surjection(S, Legacy!ReturnedModels(rows))
    BY DEF Surjection, Legacy!ReturnedModels
<1>4. IsFiniteSet(Legacy!ReturnedModels(rows))
    <2>. HIDE DEF S, f
    <2>. QED BY <1>2, <1>3, FS_Surjection
<1>. QED BY <1>4, FS_CardinalityType, SameLegacyCardinality

(* Only what the provider has said can make the rows of a run unreadable.      *)
LEMMA OnlyAnswersSpoil ==
    ASSUME NEW rows, RowsInv(rows)
    PROVE  Legacy!ValidatePartial(rows) <=> ~Legacy!Spoiled(rows)
<1>1. \A n \in 1 .. Len(rows) : rows[n] # Legacy!Merged
    <2>. SUFFICES ASSUME NEW n \in 1 .. Len(rows) PROVE rows[n] # Legacy!Merged
        OBVIOUS
    <2>1. rows[n].item \in 1 .. PlanLength
        BY RowIs
    <2>2. Legacy!Merged.item = 0
        BY DEF Legacy!Merged
    <2>. QED BY <2>1, <2>2, LegacyConstants
<1>2. Legacy!ParseRawAttempts(rows) <=> ~Legacy!BrokenRow(rows)
    BY Zenon, <1>1 DEF Legacy!ParseRawAttempts, Legacy!BrokenRow
<1>3. Legacy!Cardinality(Legacy!ReturnedModels(rows)) <= 1
          <=> ~(Legacy!Cardinality(Legacy!ReturnedModels(rows)) > 1)
    BY ModelsAreFinite
<1>4. Legacy!ValidatePartial(rows) <=>
          /\ Legacy!ParseRawAttempts(rows)
          /\ Legacy!Cardinality(Legacy!ReturnedModels(rows)) <= 1
    BY ChainsArePossible DEF Legacy!ValidatePartial, RowsInv, StopIsLast
<1>. QED BY Zenon, <1>2, <1>3, <1>4 DEF Legacy!Spoiled

LEMMA DoneIsComplete ==
    ASSUME NEW rows, RowsInv(rows), NextItem(rows) = PlanLength + 1, ~Legacy!AuthenticationSeen(rows),
           ~Legacy!Spoiled(rows)
    PROVE  Legacy!ValidateComplete(rows)
<1>1. \A i \in Legacy!Items : Legacy!ResumePosition(rows, i) = Legacy!Done
    BY ResumesNext, LegacyConstants DEF Position
<1>. QED BY <1>1, OnlyAnswersSpoil DEF Legacy!ValidateComplete

-----------------------------------------------------------------------------
(* The runner *)

Key(i, a) == [item |-> i, attempt |-> a]
NextKey == Key(NextItem(raw), NextAttempt(raw))
LastKey == Key(raw[Len(raw)].item, raw[Len(raw)].attempt)
Asked == { calls[n] : n \in 1 .. Len(calls) }
LastCall == calls[Len(calls)]
UpToCall(c, d) == c.item < d.item \/ (c.item = d.item /\ c.attempt <= d.attempt)
Consecutive(c, d) ==
    \/ d = c
    \/ d.item = c.item /\ d.attempt = c.attempt + 1
    \/ d.item = c.item + 1 /\ d.attempt = 1

Unwritten == {"calling", "answered"}
AskingNow == {"request", "calling", "answered"}
Fresh(from) == \A i \in Legacy!Items : i >= from => positions[i] = 1

LTypes ==
    /\ tail \in BOOLEAN /\ positions \in [Legacy!Items -> Nat] /\ item \in Nat \ {0} /\ attempt \in Nat
    /\ cuts \in Nat
    /\ runnerAt \in {"none", "complete", "stopped", "incomplete", "refused", "recover", "next",
                     "request", "calling", "answered", "appended"}

(* What an invocation knows at each place: the rows end where it asks next.    *)
RunnerInv ==
    /\ runnerAt = "refused" => Legacy!Spoiled(raw)
    /\ runnerAt = "recover" => ~Legacy!Spoiled(raw)
    /\ runnerAt = "complete" => NextItem(raw) = PlanLength + 1
    /\ runnerAt \in {"complete", "next"} \cup AskingNow => ~Legacy!AuthenticationSeen(raw)
    /\ runnerAt \in {"complete", "next", "appended"} \cup AskingNow => ~tail
    /\ runnerAt = "recover" => item = 1
    /\ runnerAt \in {"recover", "next"} =>
          /\ item <= NextItem(raw)
          /\ \A i \in Legacy!Items : i >= item => positions[i] = Position(raw, i)
    /\ runnerAt \in AskingNow =>
          item = NextItem(raw) /\ attempt = NextAttempt(raw) /\ item \in Legacy!Items
    /\ runnerAt \in AskingNow \cup {"appended"} => Fresh(item + 1)
    /\ runnerAt = "answered" => reply \in Legacy!Answers
    /\ runnerAt = "appended" =>
          LET last == raw[Len(raw)]
          IN  /\ Len(raw) # 0 /\ last.item = item /\ last.attempt = attempt
              /\ last.terminal <=> ~Legacy!WillRetry
              /\ reply.fault # "authentication" => ~Legacy!AuthenticationSeen(raw)

(* The last call is that of the last row or, if it was cut, of the next one;   *)
(* every call that was cut is counted.                                         *)
CallsInv ==
    /\ calls \in Seq([item : Nat, attempt : Nat])
    /\ IsFiniteSet(Asked)
    /\ \A n \in 2 .. Len(calls) : Consecutive(calls[n - 1], calls[n])
    /\ \A n \in 1 .. Len(calls) : UpToCall(calls[n], LastCall)
    /\ Len(calls) = 0 => raw = <<>>
    /\ Len(calls) # 0 => LastCall = NextKey \/ (Len(raw) # 0 /\ LastCall = LastKey)
    /\ runnerAt \in Unwritten => Len(calls) # 0 /\ LastCall = NextKey
    /\ Len(calls) <= Cardinality(Asked) + cuts
    /\ runnerAt \notin Unwritten /\ Len(calls) # 0 /\ LastCall = NextKey =>
          Len(calls) + 1 <= Cardinality(Asked) + cuts

LInv == LTypes /\ RowsInv(raw) /\ RunnerInv /\ CallsInv

LEMMA CallsAreKept ==
    ASSUME CallsInv, UNCHANGED <<raw, calls, cuts>>, runnerAt' \notin Unwritten, runnerAt \notin Unwritten
    PROVE  CallsInv'
<1>1. Asked' = Asked /\ LastCall' = LastCall /\ NextKey' = NextKey /\ LastKey' = LastKey
    BY DEF Asked, LastCall, NextKey, LastKey
<1>. QED BY <1>1 DEF CallsInv

LEMMA BeginLegacy ==
    ASSUME LInv, Legacy!Begin
    PROVE  LInv'
<1>1. /\ UNCHANGED <<raw, tail, attempt, reply, calls, cuts>> /\ item' = 1
      /\ runnerAt \in Legacy!Ended
    BY DEF Legacy!Begin, Legacy!ledger
<1>2. RowsInv(raw)' /\ NextItem(raw) \in Nat /\ NextItem(raw) >= 1
    BY <1>1, NextIs, LegacyConstants DEF LInv
<1>3. CASE Legacy!ValidatePartial(raw)
    <2>1. positions' = [i \in Legacy!Items |-> Legacy!ResumePosition(raw, i)] /\ runnerAt' = "recover"
        BY <1>3 DEF Legacy!Begin
    <2>2. \A i \in Legacy!Items : positions'[i] = Position(raw, i) /\ Position(raw, i) \in Nat
        BY <2>1, NextIs, ResumesNext, LegacyConstants DEF LInv, Position, Legacy!Done
    <2>3. LTypes'
        BY <1>1, <2>1, <2>2 DEF LInv, LTypes
    <2>4. RunnerInv'
        <3>1. ~Legacy!Spoiled(raw)
            BY <1>3, OnlyAnswersSpoil DEF LInv
        <3>2. Legacy!Spoiled(raw)' = Legacy!Spoiled(raw)
            BY <1>1 DEF Legacy!Spoiled, Legacy!BrokenRow, Legacy!ReturnedModels
        <3>. QED BY <1>1, <1>2, <2>1, <2>2, <3>1, <3>2 DEF RunnerInv, AskingNow
    <2>5. CallsInv'
        BY <1>1, <2>1, CallsAreKept DEF LInv, Legacy!Ended, Unwritten
    <2>. QED BY <1>2, <2>3, <2>4, <2>5 DEF LInv
<1>4. CASE ~Legacy!ValidatePartial(raw)
    <2>1. positions' = positions /\ runnerAt' = "refused"
        BY <1>4 DEF Legacy!Begin
    <2>2. Legacy!Spoiled(raw) /\ Legacy!Spoiled(raw)' = Legacy!Spoiled(raw)
        <3>1. Legacy!Spoiled(raw)
            BY <1>4, OnlyAnswersSpoil DEF LInv
        <3>2. Legacy!Spoiled(raw)' = Legacy!Spoiled(raw)
            BY <1>1 DEF Legacy!Spoiled, Legacy!BrokenRow, Legacy!ReturnedModels
        <3>. QED BY <3>1, <3>2
    <2>3. LTypes'
        BY <1>1, <2>1 DEF LInv, LTypes
    <2>4. RunnerInv'
        BY <1>1, <2>1, <2>2 DEF RunnerInv, AskingNow
    <2>5. CallsInv'
        BY <1>1, <2>1, CallsAreKept DEF LInv, Legacy!Ended, Unwritten
    <2>. QED BY <1>2, <2>3, <2>4, <2>5 DEF LInv
<1>. QED BY <1>3, <1>4

LEMMA RecoverLegacy ==
    ASSUME LInv, Legacy!Recover
    PROVE  LInv'
<1>1. /\ UNCHANGED <<raw, positions, item, attempt, reply, calls, cuts>> /\ tail' = FALSE
      /\ runnerAt = "recover"
      /\ runnerAt' = IF Legacy!AuthenticationSeen(raw) THEN "stopped" ELSE "next"
    BY DEF Legacy!Recover, Legacy!memory
<1>2. LTypes' /\ RowsInv(raw)'
    BY <1>1 DEF LInv, LTypes
<1>3. Legacy!AuthenticationSeen(raw)' = Legacy!AuthenticationSeen(raw)
    BY <1>1 DEF Legacy!AuthenticationSeen
<1>4. RunnerInv'
    BY <1>1, <1>3 DEF LInv, RunnerInv, AskingNow
<1>5. CallsInv'
    BY <1>1, CallsAreKept DEF LInv, Unwritten
<1>. QED BY <1>2, <1>4, <1>5 DEF LInv

LEMMA TakeLegacy ==
    ASSUME LInv, Legacy!TakeItem
    PROVE  LInv'
<1>. DEFINE left == { i \in item .. PlanLength : positions[i] # Legacy!Done }
<1>1. /\ UNCHANGED <<raw, tail, positions, reply, calls, cuts>> /\ runnerAt = "next"
    BY DEF Legacy!TakeItem, Legacy!ledger
<1>2. /\ item \in Nat \ {0} /\ item <= NextItem(raw) /\ ~Legacy!AuthenticationSeen(raw) /\ ~tail
      /\ \A i \in Legacy!Items : i >= item => positions[i] = Position(raw, i)
    BY <1>1 DEF LInv, RunnerInv, LTypes
<1>3. /\ NextItem(raw) \in 1 .. PlanLength + 1 /\ NextAttempt(raw) \in 1 .. Legacy!MaxAttempts
      /\ RowsInv(raw)'
    BY <1>1, NextIs DEF LInv
<1>4. Legacy!AuthenticationSeen(raw)' = Legacy!AuthenticationSeen(raw)
    BY <1>1 DEF Legacy!AuthenticationSeen
<1>5. CASE left = {}
    <2>1. runnerAt' = "complete" /\ UNCHANGED <<item, attempt>>
        BY <1>5 DEF Legacy!TakeItem
    <2>2. NextItem(raw) = PlanLength + 1
        <3>. SUFFICES ASSUME NextItem(raw) # PlanLength + 1 PROVE FALSE
            OBVIOUS
        <3>1. NextItem(raw) \in Legacy!Items /\ NextItem(raw) >= item
            BY <1>2, <1>3, LegacyConstants
        <3>2. positions[NextItem(raw)] = NextAttempt(raw)
            BY <1>2, <1>3, <3>1 DEF Position
        <3>3. NextAttempt(raw) # Legacy!Done
            BY <1>3, LegacyConstants DEF Legacy!Done
        <3>4. NextItem(raw) \in item .. PlanLength
            BY <1>2, <3>1, LegacyConstants
        <3>. QED BY <1>5, <3>2, <3>3, <3>4
    <2>3. LTypes'
        BY <1>1, <2>1 DEF LInv, LTypes
    <2>4. RunnerInv'
        BY <1>1, <1>2, <1>4, <2>1, <2>2 DEF RunnerInv, AskingNow
    <2>5. CallsInv'
        BY <1>1, <2>1, CallsAreKept DEF LInv, Unwritten
    <2>. QED BY <1>3, <2>3, <2>4, <2>5 DEF LInv
<1>6. CASE left # {}
    <2>1. PICK i \in left : /\ \A j \in left : i <= j
                            /\ item' = i /\ attempt' = positions[i] /\ runnerAt' = "request"
        BY <1>6 DEF Legacy!TakeItem
    <2>2. i \in item .. PlanLength /\ positions[i] # Legacy!Done
        OBVIOUS
    <2>3. i \in Legacy!Items /\ i \in Nat /\ i >= item
        BY <1>2, <2>2, LegacyConstants
    <2>4. positions[i] = Position(raw, i)
        BY <1>2, <2>3
    <2>5. ~(i < NextItem(raw))
        BY <2>2, <2>4 DEF Position
    <2>6. i = NextItem(raw)
        <3>. SUFFICES ASSUME NextItem(raw) < i PROVE FALSE
            BY <1>3, <2>3, <2>5
        <3>. DEFINE n == NextItem(raw)
        <3>1. n \in Legacy!Items /\ n >= item /\ n \in item .. PlanLength
            BY <1>2, <1>3, <2>2, <2>3, LegacyConstants
        <3>2. positions[n] = NextAttempt(raw)
            BY <1>2, <1>3, <3>1 DEF Position
        <3>3. n \in left
            BY <1>3, <3>1, <3>2, LegacyConstants DEF Legacy!Done
        <3>4. i <= n
            BY <2>1, <3>3
        <3>. QED BY <1>3, <2>3, <3>4
    <2>7. attempt' = NextAttempt(raw) /\ item' = NextItem(raw) /\ runnerAt' = "request"
        BY <2>1, <2>4, <2>6, <1>3 DEF Position
    <2>8. \A j \in Legacy!Items : j >= i + 1 => positions[j] = 1
        <3>. SUFFICES ASSUME NEW j \in Legacy!Items, j >= i + 1 PROVE positions[j] = 1
            OBVIOUS
        <3>1. j \in Nat /\ j >= item /\ j > NextItem(raw)
            BY <1>2, <1>3, <2>3, <2>6, LegacyConstants
        <3>. QED BY <1>2, <1>3, <3>1 DEF Position
    <2>. HIDE DEF left
    <2>9. LTypes'
        BY <1>1, <1>2, <1>3, <2>3, <2>6, <2>7, LegacyConstants DEF LInv, LTypes
    <2>10. RunnerInv'
        BY <1>1, <1>2, <1>4, <2>3, <2>6, <2>7, <2>8 DEF RunnerInv, AskingNow, Fresh
    <2>11. CallsInv'
        BY <1>1, <2>7, CallsAreKept DEF LInv, Unwritten
    <2>. QED BY <1>3, <2>9, <2>10, <2>11 DEF LInv
<1>. QED BY <1>5, <1>6

LEMMA KeysFollow ==
    ASSUME RowsInv(raw), Len(raw) # 0
    PROVE  /\ Consecutive(LastKey, NextKey) /\ ~UpToCall(NextKey, LastKey)
           /\ UpToCall(LastKey, NextKey)
           /\ LastKey \in [item : Nat, attempt : Nat]
<1>. DEFINE last == raw[Len(raw)]
<1>1. last.item \in Nat /\ last.attempt \in Nat
    <2>1. Len(raw) \in 1 .. Len(raw)
        BY DEF RowsInv
    <2>. QED BY <2>1, RowIs
<1>2. /\ NextItem(raw) = IF last.terminal THEN last.item + 1 ELSE last.item
      /\ NextAttempt(raw) = IF last.terminal THEN 1 ELSE last.attempt + 1
    BY DEF NextItem, NextAttempt
<1>3. LastKey = Key(last.item, last.attempt)
    BY DEF LastKey
<1>. HIDE DEF last
<1>. QED BY <1>1, <1>2, <1>3 DEF NextKey, Key, Consecutive, UpToCall

LEMMA CallLegacy ==
    ASSUME LInv, Legacy!Call
    PROVE  LInv'
<1>. DEFINE N == Len(calls)
<1>1. /\ UNCHANGED <<raw, tail, positions, item, attempt, reply, cuts>> /\ runnerAt = "request"
      /\ runnerAt' = "calling" /\ calls' = Append(calls, [item |-> item, attempt |-> attempt])
    BY DEF Legacy!Call, Legacy!ledger, Legacy!memory
<1>2. /\ [item |-> item, attempt |-> attempt] = NextKey
      /\ NextKey \in [item : Nat, attempt : Nat] /\ NextKey' = NextKey /\ LastKey' = LastKey
    BY <1>1 DEF LInv, RunnerInv, AskingNow, NextKey, LastKey, Key, LTypes
<1>3. LTypes' /\ RowsInv(raw)'
    BY <1>1 DEF LInv, LTypes
<1>4. RunnerInv'
    BY <1>1 DEF LInv, RunnerInv, AskingNow, Fresh, Legacy!AuthenticationSeen
<1>5. /\ N \in Nat /\ Len(calls') = N + 1 /\ calls'[N + 1] = NextKey
      /\ \A n \in 1 .. N : calls'[n] = calls[n] /\ calls[n] \in [item : Nat, attempt : Nat]
      /\ calls' \in Seq([item : Nat, attempt : Nat])
    <2>. DEFINE K == [item : Nat, attempt : Nat]
    <2>1. calls \in Seq(K) /\ NextKey \in K /\ calls' = Append(calls, NextKey)
        BY <1>1, <1>2 DEF LInv, CallsInv
    <2>. HIDE DEF K
    <2>2. N \in Nat /\ \A n \in 1 .. N : calls[n] \in K
        BY <2>1
    <2>3. calls' \in Seq(K) /\ Len(calls') = N + 1
        BY <2>1
    <2>4. calls'[N + 1] = NextKey
        BY <2>1
    <2>5. \A n \in 1 .. N : calls'[n] = calls[n]
        BY <2>1
    <2>. QED BY <2>2, <2>3, <2>4, <2>5 DEF K
<1>6. \A n \in 1 .. N + 1 : n \in 1 .. N \/ n = N + 1
    BY <1>5
<1>7. LastCall' = NextKey /\ (N # 0 => LastCall = calls[N] /\ N \in 1 .. N)
    BY <1>5 DEF LastCall
<1>8. Asked' = Asked \cup {NextKey}
    <2>1. Asked' = { calls'[n] : n \in 1 .. N + 1 }
        BY <1>5 DEF Asked
    <2>2. Asked = { calls[n] : n \in 1 .. N }
        BY DEF Asked
    <2>. HIDE DEF N
    <2>3. ASSUME NEW c \in Asked' PROVE c \in Asked \cup {NextKey}
        <3>1. PICK n \in 1 .. N + 1 : c = calls'[n]
            BY <2>1, <2>3
        <3>. QED BY <1>5, <1>6, <2>2, <3>1
    <2>4. ASSUME NEW c \in Asked PROVE c \in Asked'
        <3>1. PICK n \in 1 .. N : c = calls[n]
            BY <2>2, <2>4
        <3>2. n \in 1 .. N + 1 /\ c = calls'[n]
            BY <1>5, <3>1
        <3>. QED BY <2>1, <3>2
    <2>5. NextKey \in Asked'
        <3>1. N + 1 \in 1 .. N + 1
            BY <1>5
        <3>. QED BY <1>5, <2>1, <3>1
    <2>. QED BY <2>3, <2>4, <2>5
<1>9. IsFiniteSet(Asked) /\ IsFiniteSet(Asked') /\ Cardinality(Asked) \in Nat
      /\ Cardinality(Asked') = IF NextKey \in Asked THEN Cardinality(Asked) ELSE Cardinality(Asked) + 1
    BY <1>8, FS_AddElement, FS_CardinalityType DEF LInv, CallsInv
<1>10. cuts \in Nat /\ N <= Cardinality(Asked) + cuts
    BY DEF LInv, CallsInv, LTypes
<1>11. N # 0 => /\ Consecutive(LastCall, NextKey) /\ UpToCall(LastCall, NextKey)
                /\ LastCall = NextKey \/ NextKey \notin Asked
    <2>. SUFFICES ASSUME N # 0, LastCall # NextKey
                  PROVE  /\ Consecutive(LastCall, NextKey) /\ UpToCall(LastCall, NextKey)
                         /\ NextKey \notin Asked
        BY <1>2 DEF Consecutive, UpToCall
    <2>1. Len(raw) # 0 /\ LastCall = LastKey
        BY DEF LInv, CallsInv
    <2>2. \A c \in Asked : UpToCall(c, LastCall)
        BY DEF LInv, CallsInv, Asked
    <2>. QED BY <2>1, <2>2, KeysFollow DEF LInv
<1>12. N + 1 <= Cardinality(Asked') + cuts
    <2>1. CASE N = 0
        <3>1. Asked = {}
            BY <2>1 DEF Asked
        <3>. QED BY <1>9, <1>10, <2>1, <3>1
    <2>2. CASE N # 0 /\ LastCall = NextKey
        BY <1>1, <1>9, <1>10, <2>2 DEF LInv, CallsInv, Unwritten
    <2>3. CASE N # 0 /\ NextKey \notin Asked
        BY <1>5, <1>9, <1>10, <2>3
    <2>. QED BY <1>11, <2>1, <2>2, <2>3
<1>13. \A n \in 2 .. N + 1 : Consecutive(calls'[n - 1], calls'[n])
    <2>. SUFFICES ASSUME NEW n \in 2 .. N + 1 PROVE Consecutive(calls'[n - 1], calls'[n])
        OBVIOUS
    <2>1. CASE n \in 2 .. N
        <3>1. n - 1 \in 1 .. N /\ n \in 1 .. N
            BY <1>5, <2>1
        <3>2. Consecutive(calls[n - 1], calls[n])
            BY <2>1 DEF LInv, CallsInv
        <3>. QED BY <1>5, <3>1, <3>2
    <2>2. CASE n = N + 1
        <3>1. n - 1 = N /\ N # 0 /\ N \in 1 .. N
            BY <1>5, <2>2
        <3>2. calls'[n - 1] = LastCall /\ calls'[n] = NextKey
            BY <1>5, <1>7, <2>2, <3>1
        <3>. QED BY <1>11, <3>1, <3>2
    <2>. QED BY <1>5, <2>1, <2>2
<1>14. \A n \in 1 .. N + 1 : UpToCall(calls'[n], NextKey)
    <2>. SUFFICES ASSUME NEW n \in 1 .. N + 1 PROVE UpToCall(calls'[n], NextKey)
        OBVIOUS
    <2>1. CASE n \in 1 .. N
        <3>1. UpToCall(calls[n], LastCall) /\ UpToCall(LastCall, NextKey)
            BY <1>5, <1>11, <2>1 DEF LInv, CallsInv
        <3>2. LastCall \in [item : Nat, attempt : Nat] /\ calls[n] \in [item : Nat, attempt : Nat]
            BY <1>5, <1>7, <2>1
        <3>. QED BY <1>2, <1>5, <2>1, <3>1, <3>2 DEF UpToCall
    <2>2. CASE n = N + 1
        BY <1>2, <1>5, <2>2 DEF UpToCall
    <2>. QED BY <1>6, <2>1, <2>2
<1>15. CallsInv'
    <2>. HIDE DEF N
    <2>1. Len(calls') # 0
        BY <1>5
    <2>. QED BY <1>1, <1>2, <1>5, <1>7, <1>9, <1>12, <1>13, <1>14, <2>1 DEF CallsInv, Unwritten
<1>. QED BY <1>3, <1>4, <1>15 DEF LInv

LEMMA AnswerLegacy ==
    ASSUME LInv, Legacy!Answer
    PROVE  LInv'
<1>1. /\ UNCHANGED <<raw, tail, positions, item, attempt, calls, cuts>> /\ runnerAt = "calling"
      /\ runnerAt' = "answered" /\ reply' \in Legacy!Answers
    BY DEF Legacy!Answer, Legacy!ledger
<1>2. LTypes' /\ RowsInv(raw)'
    BY <1>1 DEF LInv, LTypes
<1>3. RunnerInv'
    BY <1>1 DEF LInv, RunnerInv, AskingNow, Fresh, Legacy!AuthenticationSeen
<1>4. CallsInv'
    BY <1>1 DEF LInv, CallsInv, Unwritten, Asked, LastCall, NextKey, LastKey
<1>. QED BY <1>2, <1>3, <1>4 DEF LInv

(* The row of the call that was answered is the next one.                      *)
LEMMA RowFollows ==
    ASSUME LInv, runnerAt = "answered"
    PROVE  /\ Follows(Legacy!Row, raw) /\ ~Legacy!AuthenticationSeen(raw)
           /\ Legacy!Row.item = item /\ Legacy!Row.attempt = attempt
           /\ Legacy!Row.fault = reply.fault
           /\ Legacy!Row.terminal <=> ~Legacy!WillRetry
<1>1. /\ ~tail /\ item = NextItem(raw) /\ attempt = NextAttempt(raw) /\ item \in Legacy!Items
      /\ reply \in Legacy!Answers /\ ~Legacy!AuthenticationSeen(raw)
    BY DEF LInv, RunnerInv, AskingNow
<1>2. Legacy!Row = [item |-> item, attempt |-> attempt, terminal |-> ~Legacy!WillRetry,
                    fault |-> reply.fault, model |-> reply.model, breaks |-> reply.breaks]
    BY <1>1 DEF Legacy!Row
<1>3. attempt \in 1 .. Legacy!MaxAttempts
    BY <1>1, NextIs DEF LInv
<1>4. Legacy!WillRetry \in BOOLEAN
    BY DEF Legacy!WillRetry
<1>5. /\ reply.fault \in {"none", "authentication", "transient", "permanent"}
      /\ reply.model \in Models \cup {NoModel} /\ reply.breaks \in BOOLEAN
    BY <1>1 DEF Legacy!Answers
<1>6. Legacy!Row \in LRows
    BY <1>1, <1>2, <1>3, <1>4, <1>5 DEF LRows
<1>7. Legacy!WillRetry <=> Retried(Legacy!Row)
    BY <1>2 DEF Legacy!WillRetry, Retried
<1>. QED BY <1>1, <1>2, <1>6, <1>7 DEF Follows

LEMMA AppendLegacy ==
    ASSUME LInv, Legacy!AppendAttempt
    PROVE  LInv'
<1>. DEFINE row == Legacy!Row
<1>1. /\ UNCHANGED <<positions, item, attempt, reply, calls>> /\ runnerAt = "answered"
      /\ runnerAt' \in {"appended", "incomplete"}
      /\ \/ raw' = Append(raw, row) /\ tail' = FALSE /\ UNCHANGED cuts
         \/ /\ raw' = raw /\ tail' \in BOOLEAN /\ cuts' = cuts + 1 /\ runnerAt' = "incomplete"
    BY DEF Legacy!AppendAttempt, Legacy!memory
<1>2. LTypes'
    <2>. HIDE DEF row
    <2>1. cuts \in Nat /\ cuts' \in Nat
        BY <1>1 DEF LInv, LTypes
    <2>2. tail' \in BOOLEAN
        BY <1>1
    <2>3. UNCHANGED <<positions, item, attempt>> /\ runnerAt' \in {"appended", "incomplete"}
        BY <1>1
    <2>. QED BY <2>1, <2>2, <2>3 DEF LInv, LTypes
<1>3. /\ Len(calls) # 0 /\ LastCall = NextKey /\ item = NextItem(raw) /\ attempt = NextAttempt(raw)
      /\ Asked' = Asked /\ LastCall' = LastCall /\ Fresh(item + 1)
      /\ Len(calls) <= Cardinality(Asked) + cuts /\ cuts \in Nat
      /\ item \in Nat /\ attempt \in Nat
    BY <1>1 DEF LInv, LTypes, RunnerInv, AskingNow, CallsInv, Unwritten, Asked, LastCall
<1>4. CASE raw' = Append(raw, row) /\ tail' = FALSE /\ UNCHANGED cuts
    <2>1. /\ RowsInv(raw') /\ Len(raw') # 0 /\ raw'[Len(raw')] = row
          /\ \A n \in 1 .. Len(raw') : (n \in 1 .. Len(raw) /\ raw'[n] = raw[n]) \/ raw'[n] = row
          /\ NextItem(raw') = IF row.terminal THEN row.item + 1 ELSE row.item
          /\ NextAttempt(raw') = IF row.terminal THEN 1 ELSE row.attempt + 1
        <3>1. raw \in Seq(LRows) /\ row \in LRows /\ RowsInv(raw)
            BY <1>1, RowFollows DEF LInv, RowsInv, Follows
        <3>2. /\ RowsInv(Append(raw, row))
              /\ NextItem(Append(raw, row)) = IF row.terminal THEN row.item + 1 ELSE row.item
              /\ NextAttempt(Append(raw, row)) = IF row.terminal THEN 1 ELSE row.attempt + 1
            BY <1>1, <3>1, RowFollows, OneMoreRow
        <3>3. /\ Len(raw') = Len(raw) + 1 /\ Len(raw) \in Nat /\ raw'[Len(raw) + 1] = row
              /\ \A n \in 1 .. Len(raw) : raw'[n] = raw[n]
            <4>. HIDE DEF row
            <4>. QED BY <1>4, <3>1
        <3>4. Len(raw') # 0 /\ raw'[Len(raw')] = row
              /\ \A n \in 1 .. Len(raw') : (n \in 1 .. Len(raw) /\ raw'[n] = raw[n]) \/ raw'[n] = row
            <4>. HIDE DEF row
            <4>. QED BY <3>3
        <3>. QED BY <1>4, <3>2, <3>4
    <2>2. /\ row.item = item /\ row.attempt = attempt /\ row.fault = reply.fault
          /\ row.terminal <=> ~Legacy!WillRetry
          /\ ~Legacy!AuthenticationSeen(raw)
        BY <1>1, RowFollows
    <2>. HIDE DEF row
    <2>3. reply.fault # "authentication" => ~Legacy!AuthenticationSeen(raw')
        BY <2>1, <2>2 DEF Legacy!AuthenticationSeen
    <2>4. Legacy!WillRetry' <=> Legacy!WillRetry
        BY <1>1 DEF Legacy!WillRetry
    <2>5. RunnerInv'
        BY <1>1, <1>3, <1>4, <2>1, <2>2, <2>3, <2>4 DEF RunnerInv, AskingNow, Fresh, Legacy!AuthenticationSeen
    <2>6. LastCall' = LastKey' /\ LastCall' # NextKey'
        <3>1. LastKey' = Key(item, attempt) /\ NextKey = Key(item, attempt)
            BY <1>3, <2>1, <2>2 DEF LastKey, NextKey
        <3>2. NextKey' = IF row.terminal THEN Key(item + 1, 1) ELSE Key(item, attempt + 1)
            BY <2>1, <2>2 DEF NextKey
        <3>. QED BY <1>3, <3>1, <3>2 DEF Key
    <2>7. CallsInv'
        BY <1>1, <1>3, <1>4, <2>1, <2>6 DEF LInv, CallsInv, Unwritten
    <2>. QED BY <1>2, <2>1, <2>5, <2>7 DEF LInv
<1>5. CASE raw' = raw /\ cuts' = cuts + 1 /\ runnerAt' = "incomplete"
    <2>1. RunnerInv'
        BY <1>1, <1>5 DEF RunnerInv, AskingNow
    <2>2. NextKey' = NextKey /\ LastKey' = LastKey
        BY <1>5 DEF NextKey, LastKey
    <2>3. Len(calls) \in Nat /\ Cardinality(Asked) \in Nat
        BY FS_CardinalityType DEF LInv, CallsInv
    <2>4. Len(calls) + 1 <= Cardinality(Asked) + cuts' /\ Len(calls) <= Cardinality(Asked) + cuts'
        BY <1>3, <1>5, <2>3
    <2>5. CallsInv'
        BY <1>1, <1>3, <1>5, <2>2, <2>4 DEF LInv, CallsInv, Unwritten
    <2>. QED BY <1>2, <1>5, <2>1, <2>5 DEF LInv
<1>. QED BY <1>1, <1>4, <1>5

LEMMA GoOnLegacy ==
    ASSUME LInv, Legacy!AfterAppend
    PROVE  LInv'
<1>. DEFINE last == raw[Len(raw)]
<1>1. /\ UNCHANGED <<raw, tail, positions, reply, calls, cuts>> /\ runnerAt = "appended"
    BY DEF Legacy!AfterAppend, Legacy!ledger
<1>2. /\ ~tail /\ Fresh(item + 1) /\ Len(raw) # 0 /\ last.item = item /\ last.attempt = attempt
      /\ last.terminal <=> ~Legacy!WillRetry
      /\ reply.fault # "authentication" => ~Legacy!AuthenticationSeen(raw)
      /\ item \in Nat \ {0} /\ attempt \in Nat
    BY <1>1 DEF LInv, LTypes, RunnerInv, AskingNow
<1>3. /\ NextItem(raw) = IF last.terminal THEN item + 1 ELSE item
      /\ NextAttempt(raw) = IF last.terminal THEN 1 ELSE attempt + 1
    BY <1>2 DEF NextItem, NextAttempt
<1>4. RowsInv(raw)' /\ Len(raw) \in 1 .. Len(raw) /\ last.item \in Legacy!Items
    <2>1. Len(raw) \in 1 .. Len(raw)
        BY <1>2 DEF LInv, RowsInv
    <2>. QED BY <1>1, <2>1, RowIs, LegacyConstants DEF LInv
<1>5. Legacy!AuthenticationSeen(raw)' = Legacy!AuthenticationSeen(raw)
    BY <1>1 DEF Legacy!AuthenticationSeen
<1>. HIDE DEF last
<1>6. CASE reply.fault = "authentication"
    <2>1. runnerAt' = "stopped" /\ UNCHANGED <<item, attempt>>
        BY <1>6 DEF Legacy!AfterAppend
    <2>2. LTypes'
        BY <1>1, <2>1 DEF LInv, LTypes
    <2>3. RunnerInv'
        BY <1>1, <2>1 DEF RunnerInv, AskingNow
    <2>4. CallsInv'
        BY <1>1, <2>1, CallsAreKept DEF LInv, Unwritten
    <2>. QED BY <1>4, <2>2, <2>3, <2>4 DEF LInv
<1>7. CASE reply.fault # "authentication" /\ Legacy!WillRetry
    <2>1. runnerAt' = "request" /\ item' = item /\ attempt' = attempt + 1
        BY <1>7 DEF Legacy!AfterAppend
    <2>2. item' = NextItem(raw) /\ attempt' = NextAttempt(raw) /\ item' \in Legacy!Items
        BY <1>2, <1>3, <1>4, <1>7, <2>1
    <2>3. LTypes'
        BY <1>1, <1>2, <2>1 DEF LInv, LTypes
    <2>4. RunnerInv'
        BY <1>1, <1>2, <1>5, <1>7, <2>1, <2>2 DEF RunnerInv, AskingNow, Fresh
    <2>5. CallsInv'
        BY <1>1, <2>1, CallsAreKept DEF LInv, Unwritten
    <2>. QED BY <1>4, <2>3, <2>4, <2>5 DEF LInv
<1>8. CASE reply.fault # "authentication" /\ ~Legacy!WillRetry
    <2>1. runnerAt' = "next" /\ item' = item + 1 /\ attempt' = attempt
        BY <1>8 DEF Legacy!AfterAppend
    <2>2. item' = NextItem(raw) /\ NextAttempt(raw) = 1
        BY <1>2, <1>3, <1>8, <2>1
    <2>3. \A i \in Legacy!Items : i >= item' => positions[i] = Position(raw, i)
        <3>. SUFFICES ASSUME NEW i \in Legacy!Items, i >= item' PROVE positions[i] = Position(raw, i)
            OBVIOUS
        <3>1. i \in Nat /\ item' \in Nat
            BY <1>2, <2>1, LegacyConstants
        <3>2. positions[i] = 1
            BY <1>2, <2>1 DEF Fresh
        <3>3. ~(i < NextItem(raw))
            BY <2>2, <3>1
        <3>. QED BY <2>2, <3>2, <3>3 DEF Position
    <2>4. LTypes'
        BY <1>1, <1>2, <2>1 DEF LInv, LTypes
    <2>5. item' <= NextItem(raw)
        BY <1>2, <2>1, <2>2
    <2>6. RunnerInv'
        BY <1>1, <1>2, <1>5, <1>8, <2>1, <2>3, <2>5 DEF RunnerInv, AskingNow
    <2>7. CallsInv'
        BY <1>1, <2>1, CallsAreKept DEF LInv, Unwritten
    <2>. QED BY <1>4, <2>4, <2>6, <2>7 DEF LInv
<1>. QED BY <1>6, <1>7, <1>8

LEMMA DieLegacy ==
    ASSUME LInv, Legacy!Die
    PROVE  LInv'
<1>1. /\ UNCHANGED <<raw, tail, positions, item, attempt, reply, calls>> /\ runnerAt' = "incomplete"
      /\ cuts' = IF runnerAt \in {"calling", "answered"} THEN cuts + 1 ELSE cuts
    BY DEF Legacy!Die, Legacy!ledger, Legacy!memory
<1>2. LTypes' /\ RowsInv(raw)' /\ cuts \in Nat
    BY <1>1 DEF LInv, LTypes
<1>3. RunnerInv'
    BY <1>1 DEF RunnerInv, AskingNow
<1>4. CASE runnerAt \in Unwritten
    <2>1. cuts' = cuts + 1
        BY <1>1, <1>4 DEF Unwritten
    <2>2. Asked' = Asked /\ LastCall' = LastCall /\ NextKey' = NextKey /\ LastKey' = LastKey
        BY <1>1 DEF Asked, LastCall, NextKey, LastKey
    <2>3. /\ Len(calls) \in Nat /\ Cardinality(Asked) \in Nat
          /\ Len(calls) <= Cardinality(Asked) + cuts
        BY FS_CardinalityType DEF LInv, CallsInv
    <2>4. Len(calls) + 1 <= Cardinality(Asked) + cuts' /\ Len(calls) <= Cardinality(Asked) + cuts'
        BY <1>2, <2>1, <2>3
    <2>5. CallsInv'
        BY <1>1, <2>2, <2>4 DEF LInv, CallsInv, Unwritten
    <2>. QED BY <1>2, <1>3, <2>5 DEF LInv
<1>5. CASE runnerAt \notin Unwritten
    <2>1. CallsInv'
        BY <1>1, <1>5, CallsAreKept DEF LInv, Unwritten
    <2>. QED BY <1>2, <1>3, <2>1 DEF LInv
<1>. QED BY <1>4, <1>5

LEMMA LegacyBegins ==
    ASSUME Legacy!Init
    PROVE  LInv
<1>0. tail = FALSE /\ item = 1 /\ attempt = 1 /\ cuts = 0
    BY DEF Legacy!Init
<1>1. /\ raw = <<>> /\ tail = FALSE /\ runnerAt = "none" /\ positions = [i \in Legacy!Items |-> 1]
      /\ item = 1 /\ attempt = 1 /\ calls = <<>> /\ cuts = 0
    BY DEF Legacy!Init
<1>2. LTypes
    <2>1. positions \in [Legacy!Items -> Nat]
        <3>1. \A i \in Legacy!Items : positions[i] \in Nat
            BY <1>1
        <3>. QED BY <1>1, <3>1
    <2>2. tail \in BOOLEAN /\ runnerAt = "none" /\ item \in Nat \ {0} /\ attempt \in Nat /\ cuts \in Nat
        <3>1. tail \in BOOLEAN /\ runnerAt = "none"
            BY Zenon, <1>1
        <3>2. item \in Nat \ {0} /\ attempt \in Nat /\ cuts \in Nat
            BY <1>0
        <3>. QED BY <3>1, <3>2
    <2>. QED BY <2>1, <2>2 DEF LTypes
<1>3. Len(raw) = 0 /\ raw \in Seq(LRows) /\ NextItem(raw) = 1
    BY <1>1 DEF NextItem
<1>4. RowsInv(raw)
    <2>1. \A i \in Legacy!Items : ~(i < NextItem(raw))
        BY <1>3, LegacyConstants
    <2>. QED BY <1>3, <2>1 DEF RowsInv, Judged, Ordered, Joined, Resolved, StopIsLast
<1>5. RunnerInv
    BY <1>1 DEF RunnerInv, AskingNow
<1>6. CallsInv
    <2>1. Asked = {} /\ Len(calls) = 0 /\ calls \in Seq([item : Nat, attempt : Nat])
        BY <1>1 DEF Asked
    <2>2. IsFiniteSet(Asked) /\ Cardinality(Asked) = 0
        BY <2>1, FS_EmptySet
    <2>. QED BY <1>1, <2>1, <2>2 DEF CallsInv, Unwritten
<1>. QED BY <1>2, <1>4, <1>5, <1>6 DEF LInv

LEMMA LegacyStutters ==
    ASSUME LInv, UNCHANGED lvars
    PROVE  LInv'
<1>1. UNCHANGED <<raw, tail, runnerAt, positions, item, attempt, reply, calls, cuts>>
    BY DEF lvars
<1>. QED BY <1>1 DEF LInv, LTypes, RunnerInv, AskingNow, Fresh, CallsInv, Unwritten, Asked, LastCall,
       NextKey, LastKey, Legacy!WillRetry, Legacy!AuthenticationSeen, Legacy!Spoiled, Legacy!BrokenRow,
       Legacy!ReturnedModels

LEMMA LegacyInvariance == MCSpec => []LInv
<1>1. MCInit => LInv
    BY LegacyBegins DEF MCInit
<1>2. LInv /\ [MCNext]_<<part, lvars, svars, vars>> => LInv'
    <2>1. ASSUME LInv, Legacy!Next PROVE LInv'
        BY <2>1, BeginLegacy, RecoverLegacy, TakeLegacy, CallLegacy, AnswerLegacy, AppendLegacy,
           GoOnLegacy, DieLegacy DEF Legacy!Next
    <2>. QED BY <2>1, LegacyStutters DEF MCNext
<1>. QED BY <1>1, <1>2, PTL DEF MCSpec

(* However many invocations follow one another on one file and wherever they   *)
(* die: the next one accepts what is there and what is complete can be scored, *)
(* unless two models answered or an answer breaks its row, which the next one  *)
(* never accepts, and a call is repeated only where an invocation ended        *)
(* between the call and its committed row (run_to_jsonl).                      *)
THEOREM InvocationsAddUp == MCSpec => []LegacyRunsAddUp
<1>1. LInv => LegacyRunsAddUp
    <2>. SUFFICES ASSUME LInv PROVE LegacyRunsAddUp
        OBVIOUS
    <2>1. Legacy!ResumeAccepts
        BY DEF LInv, RunnerInv, Legacy!ResumeAccepts
    <2>2. Legacy!CompleteRunsScore
        BY DoneIsComplete DEF LInv, RunnerInv, Legacy!CompleteRunsScore
    <2>3. Legacy!RepeatsAreCuts
        BY SameLegacyCardinality DEF LInv, CallsInv, Consecutive, Asked, Legacy!RepeatsAreCuts
    <2>. QED BY <2>1, <2>2, <2>3 DEF LegacyRunsAddUp
<1>. QED BY <1>1, LegacyInvariance, PTL

(* No invocation asks again for an item that has a committed terminal row, nor *)
(* for anything after a committed authentication error.                        *)
THEOREM SettledIsNotAsked == MCSpec => NoCallWhenSettled
<1>1. LInv /\ [MCNext]_<<part, lvars, svars, vars>> =>
          [calls' # calls =>
              /\ ~Legacy!AuthenticationSeen(raw)
              /\ \A n \in 1 .. Len(raw) : raw[n].terminal => raw[n].item # item]_lvars
    <2>. SUFFICES ASSUME LInv, [MCNext]_<<part, lvars, svars, vars>>, calls' # calls
                  PROVE  /\ ~Legacy!AuthenticationSeen(raw)
                         /\ \A n \in 1 .. Len(raw) : raw[n].terminal => raw[n].item # item
        OBVIOUS
    <2>1. Legacy!Call
        BY DEF MCNext, lvars, Legacy!Next, Legacy!Begin, Legacy!Recover, Legacy!TakeItem, Legacy!Answer,
           Legacy!AppendAttempt, Legacy!AfterAppend, Legacy!Die
    <2>2. ~Legacy!AuthenticationSeen(raw) /\ item = NextItem(raw)
        BY <2>1 DEF LInv, RunnerInv, AskingNow, Legacy!Call
    <2>. QED BY <2>2, NextIs DEF LInv
<1>. QED BY <1>1, LegacyInvariance, PTL DEF MCSpec, NoCallWhenSettled
=============================================================================
