--------------------------- MODULE ExploratoryRun ---------------------------
(* The two exploratory tools: serial paid requests under one exposure budget,  *)
(* a durable reservation before each, and no retry or resume.  The pilot stops *)
(* at the first unusable answer; the comparison settles it, then has a second  *)
(* model judge every usable answer, and reports pairs of answers only when     *)
(* nothing is missing.                                                         *)
EXTENDS Naturals, Sequences, FiniteSets

CONSTANTS
    Plan,          \* sequence of [pair, arm]
    Unit,          \* tokens a rate is stated for (a million)
    Rates,         \* [input, read, write, output] per Unit
    InputBound,    \* input tokens a request is bounded by
    OutputLimit,   \* output tokens of [generation, judgment]
    Budget

Phases == {"generation", "judgment"}
Items == 1 .. Len(Plan)
Pairs == { Plan[i].pair : i \in Items }

ConstantsAreLegal ==
    /\ Plan \in Seq([pair : Pairs, arm : STRING]) /\ Unit \in Nat \ {0}
    /\ Rates \in [{"input", "read", "write", "output"} -> Nat]
    /\ InputBound \in Nat /\ OutputLimit \in [Phases -> Nat] /\ Budget \in Nat

-----------------------------------------------------------------------------
(* Money: every component is rounded up on its own.                            *)
Priced(tokens, rate) == (tokens * rate + Unit - 1) \div Unit

Dearest == CHOOSE r \in {Rates.input, Rates.read, Rates.write} :
               \A s \in {Rates.input, Rates.read, Rates.write} : s <= r

(* Variant: no allowance for the rounding of the four components.              *)
ReservationExact(phase) ==
    Priced(InputBound, Dearest) + Priced(OutputLimit[phase], Rates.output)

Reservation(phase) ==
    Priced(InputBound, Dearest) + Priced(OutputLimit[phase], Rates.output) + 4

(* Usages account_usage takes for consistent.                                  *)
Usages(phase) ==
    { u \in [input : 0 .. InputBound, cached : 0 .. InputBound, written : 0 .. InputBound,
             output : 0 .. OutputLimit[phase]] : u.cached + u.written <= u.input }

Cost(u) == Priced(u.input - u.cached - u.written, Rates.input) + Priced(u.cached, Rates.read)
               + Priced(u.written, Rates.write) + Priced(u.output, Rates.output)
Costs(phase) == { Cost(u) : u \in Usages(phase) }

VARIABLES
    tool,         \* "pilot" or "comparison"
    pc,           \* "loop", "calling", "answered", "judging", "done" or "dead"
    phase,
    current,      \* item of the request under way
    settled, outstanding, stopReason,
    generation,   \* results by item, for the items that have one
    judgment,
    judges,       \* items whose judgment is planned and not yet dispatched
    ledger,       \* [settled, outstanding] as the rows on disk add up
    answer,       \* what the transport returned, to be judged by its form
    charged,      \* what the provider has charged
    sent          \* the answers the provider gave, by phase and item

money == <<settled, outstanding>>
results == <<generation, judgment, judges>>
provider == <<charged, sent>>
vars == <<tool, pc, phase, current, money, stopReason, results, ledger, answer, provider>>

None == [none \in {} |-> 0]
Place(f, k, v) == [x \in DOMAIN f \cup {k} |-> IF x = k THEN v ELSE f[x]]
NoAnswer == [form |-> "none", text |-> "none", cost |-> 0]

Init ==
    /\ tool \in {"pilot", "comparison"}
    /\ pc = "loop" /\ phase = "generation" /\ current = 0
    /\ settled = 0 /\ outstanding = 0 /\ stopReason = "none"
    /\ generation = None /\ judgment = None /\ judges = {}
    /\ ledger = [settled |-> 0, outstanding |-> 0]
    /\ answer = NoAnswer /\ charged = 0 /\ sent = {}

-----------------------------------------------------------------------------
(* dispatch *)

Next1(i) ==
    \/ phase = "generation" /\ i = Cardinality(DOMAIN generation) + 1 /\ i \in Items
    \/ phase = "judgment" /\ i \in judges

Cutoff ==
    /\ pc = "loop" /\ stopReason = "none" /\ tool = "comparison"
    /\ \E i \in Items : Next1(i)
    /\ stopReason' = "wall_clock_cutoff"
    /\ UNCHANGED <<tool, pc, phase, current, money, results, ledger, answer, provider>>

OverBudget == settled + outstanding + Reservation(phase) > Budget

Exhausted ==
    /\ pc = "loop" /\ stopReason = "none"
    /\ \E i \in Items : Next1(i)
    /\ OverBudget
    /\ stopReason' = "budget_exhausted"
    /\ UNCHANGED <<tool, pc, phase, current, money, results, ledger, answer, provider>>

Reserve(i) ==
    /\ pc = "loop" /\ stopReason = "none" /\ Next1(i) /\ ~OverBudget
    /\ pc' = "calling" /\ current' = i
    /\ outstanding' = outstanding + Reservation(phase)
    /\ ledger' = [settled |-> settled, outstanding |-> outstanding']
    /\ judges' = judges \ {i}
    /\ UNCHANGED <<tool, phase, settled, stopReason, generation, judgment, answer, provider>>

(* The request leaves; whatever comes back, it may have been charged, within   *)
(* the frozen prices and the bound on its tokens.                              *)
Texts == IF phase = "generation" THEN {"pass", "fail", "unusable"} ELSE {"pass", "fail", "invalid"}
Call ==
    /\ pc = "calling" /\ pc' = "answered"
    /\ \E cost \in Costs(phase) :
         \/ \E form \in {"lost", "unreadable", "http_error", "no_usage"}, c \in {0, cost} :
              /\ charged' = charged + c
              /\ answer' = [form |-> form, text |-> "none", cost |-> 0]
              /\ UNCHANGED sent
         \/ \E text \in Texts :
              /\ charged' = charged + cost
              /\ answer' = [form |-> "response", text |-> text, cost |-> cost]
              /\ sent' = sent \cup {[phase |-> phase, item |-> current, text |-> text]}
    /\ UNCHANGED <<tool, phase, current, money, stopReason, results, ledger>>

(* Whether usage is certain; the pilot needs a usable text as well.            *)
Accounted ==
    /\ answer.form = "response" /\ answer.cost <= Reservation(phase)
    /\ tool = "pilot" => answer.text # "unusable"

Record(status) ==
    IF phase = "generation"
       THEN generation' = Place(generation, current, status) /\ UNCHANGED judgment
       ELSE judgment' = Place(judgment, current, status) /\ UNCHANGED generation

(* Variant: the reservation of a request that failed is given back.            *)
TerminalReleasing ==
    /\ pc = "answered" /\ ~Accounted /\ pc' = "loop"
    /\ stopReason' = IF answer.form = "response" /\ answer.cost > Reservation(phase)
                        THEN "charge_exceeds_reservation" ELSE answer.form
    /\ Record(IF answer.form = "http_error" THEN "error" ELSE "unknown")
    /\ outstanding' = outstanding - Reservation(phase)
    /\ ledger' = [ledger EXCEPT !.outstanding = outstanding']
    /\ answer' = NoAnswer
    /\ UNCHANGED <<tool, phase, current, settled, judges, provider>>

(* A Stop: the reservation stays and nothing is dispatched any more.           *)
Terminal ==
    /\ pc = "answered" /\ ~Accounted /\ pc' = "loop"
    /\ stopReason' = IF answer.form = "response" /\ answer.cost > Reservation(phase)
                        THEN "charge_exceeds_reservation" ELSE answer.form
    /\ Record(IF answer.form = "http_error" THEN "error" ELSE "unknown")
    /\ answer' = NoAnswer
    /\ UNCHANGED <<tool, phase, current, money, judges, ledger, provider>>

Settle ==
    /\ pc = "answered" /\ Accounted /\ pc' = "loop"
    /\ settled' = settled + answer.cost
    /\ outstanding' = outstanding - Reservation(phase)
    /\ ledger' = [settled |-> settled', outstanding |-> outstanding']
    /\ Record(answer.text)
    /\ answer' = NoAnswer
    /\ UNCHANGED <<tool, phase, current, stopReason, judges, provider>>

-----------------------------------------------------------------------------
(* The loop over the plan is over; the comparison plans the judgments of all   *)
(* usable answers, and makes them unless something stopped it before.          *)

Eligible == { i \in DOMAIN generation : generation[i] \in {"pass", "fail"} }
LoopEnds == pc = "loop" /\ (stopReason # "none" \/ ~\E i \in Items : Next1(i))

(* Variant: the answers at hand are judged although the run was stopped.       *)
JudgePlanRegardless ==
    /\ LoopEnds /\ phase = "generation" /\ tool = "comparison"
    /\ \/ phase' = "judgment" /\ judges' = Eligible /\ stopReason' = "none" /\ UNCHANGED pc
       \/ pc' = "done" /\ UNCHANGED <<phase, judges, stopReason>>
    /\ UNCHANGED <<tool, current, money, generation, judgment, ledger, answer, provider>>

JudgePlan ==
    /\ LoopEnds /\ phase = "generation" /\ tool = "comparison"
    /\ IF stopReason = "none"
          THEN \/ phase' = "judgment" /\ judges' = Eligible /\ UNCHANGED <<pc, stopReason>>
               \/ /\ Eligible # {} /\ stopReason' = "input_bound_exceeded"
                  /\ pc' = "done" /\ UNCHANGED <<phase, judges>>
          ELSE pc' = "done" /\ UNCHANGED <<phase, judges, stopReason>>
    /\ UNCHANGED <<tool, current, money, generation, judgment, ledger, answer, provider>>

Finish ==
    /\ LoopEnds /\ (phase = "judgment" \/ tool = "pilot") /\ pc' = "done"
    /\ UNCHANGED <<tool, phase, current, money, stopReason, results, ledger, answer, provider>>

(* The process is killed, or a file cannot be written.                         *)
Die ==
    /\ pc \notin {"done", "dead"} /\ pc' = "dead"
    /\ UNCHANGED <<tool, phase, current, money, stopReason, results, ledger, answer, provider>>

Next ==
    \/ Cutoff \/ Exhausted \/ \E i \in Items : Reserve(i)
    \/ Call \/ Terminal \/ Settle \/ JudgePlan \/ Finish \/ Die

Spec == Init /\ [][Next]_vars

-----------------------------------------------------------------------------
(* build_report *)

Settled(i) == i \in DOMAIN generation /\ generation[i] \notin {"unknown", "error"}

(* Variant: judgments that are missing or invalid do not matter.               *)
CoverageOfGenerations == \A i \in Items : Settled(i)

Coverage ==
    /\ \A i \in Items : Settled(i)
    /\ Cardinality({ i \in DOMAIN judgment : judgment[i] \in {"pass", "fail"} })
           = Cardinality(Eligible)

Passed(i) == /\ i \in DOMAIN generation /\ generation[i] = "pass"
             /\ i \in DOMAIN judgment /\ judgment[i] = "pass"
Of(pair) == { i \in Items : Plan[i].pair = pair /\ Plan[i].arm \in {"concise", "if"} }
Paired == { pair \in Pairs : \A i \in Of(pair) : Passed(i) }

-----------------------------------------------------------------------------
(* What the provider has charged is covered by what the ledger on disk says is *)
(* settled or outstanding, at every moment and after a death at any; and that  *)
(* never exceeds the budget.                                                   *)
LedgerBoundsCharges ==
    /\ charged <= ledger.settled + ledger.outstanding
    /\ ledger.settled + ledger.outstanding <= Budget

(* The price of any usage within the bounds is within its reservation, through *)
(* four roundings: an answer is never thrown away for its price.               *)
NoAnswerIsTooDear == stopReason # "charge_exceeds_reservation"

(* At most one request has an unknown price: after it nothing is asked, in     *)
(* either phase, and no answer is judged twice.                                *)
OneUnknownAtMost ==
    /\ Cardinality({ i \in DOMAIN generation : ~Settled(i) }
                   \cup { i \in DOMAIN judgment : judgment[i] \in {"unknown", "error"} }) <= 1
    /\ DOMAIN judgment \subseteq Eligible
    /\ outstanding > 0 => pc \in {"calling", "answered", "dead"} \/ stopReason # "none"

(* A reported comparison leaves no pair out for want of an answer or of a      *)
(* judgment: a pair that is not counted was seen to fail.                      *)
NoPairIsMissing ==
    pc = "done" /\ tool = "comparison" /\ Coverage =>
        \A pair \in Pairs \ Paired : \E i \in Of(pair) : \E s \in sent :
            s.item = i /\ (s.text \in {"fail", "unusable"})
=============================================================================
