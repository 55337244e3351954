---------------------------- MODULE LegacyRunner ----------------------------
(* run_to_jsonl: the runner of the `run` command, which has one ledger,        *)
(* raw.jsonl, and no write-ahead.  It validates the committed rows, drops a    *)
(* torn last line, skips what has a terminal row and asks for the rest in plan *)
(* order.  Invocations on one file follow one another and may die anywhere.    *)
EXTENDS Naturals, Sequences, FiniteSets

CONSTANTS
    PlanLength,           \* case, repetition and arm combinations of the run plan
    MaxTransientRetries,  \* manifest.retry.max_transient_retries
    Models,               \* model identifiers a provider may return
    NoModel,
    MaxRuns               \* bound on invocations

ConstantsAreLegal ==
    PlanLength \in Nat \ {0} /\ MaxTransientRetries \in Nat /\ NoModel \notin Models

VARIABLES
    raw, tail,  \* raw.jsonl: rows, and whether an unterminated line follows
    pc,         \* of the current invocation
    positions,  \* [Items -> next attempt, Done], derived once from the rows
    item, attempt, answer,
    calls,      \* what the provider was asked
    runs,       \* invocations so far
    cuts        \* calls whose row was not committed because the run ended

ledger == <<raw, tail>>
memory == <<positions, item, attempt, answer>>
vars == <<ledger, pc, memory, calls, runs, cuts>>

Items == 1 .. PlanLength
MaxAttempts == MaxTransientRetries + 1
Done == 0
NoAnswer == [fault |-> "unanswered", model |-> NoModel, breaks |-> FALSE]

Ended == {"none", "complete", "stopped", "incomplete", "refused"}

Init ==
    /\ raw = <<>> /\ tail = FALSE
    /\ pc = "none"
    /\ positions = [i \in Items |-> 1] /\ item = 1 /\ attempt = 1 /\ answer = NoAnswer
    /\ calls = <<>> /\ runs = 0 /\ cuts = 0

-----------------------------------------------------------------------------
(* Validation of the committed rows *)

(* The rows of an item, and which of them one is.                              *)
Chain(rows, i) == { n \in 1 .. Len(rows) : rows[n].item = i }
Rank(rows, i, n) == Cardinality({ k \in Chain(rows, i) : k <= n })

(* Attempts count from 1, a row that is retried is transient, a terminal row   *)
(* is last and, if transient, used the whole budget.                           *)
ChainIsPossible(rows, i) ==
    \A n \in Chain(rows, i) :
        LET row == rows[n]
        IN  /\ row.attempt = Rank(rows, i, n) /\ row.attempt <= MaxAttempts
            /\ IF row.terminal
                  THEN /\ \A k \in Chain(rows, i) : k <= n
                       /\ row.fault = "transient" => row.attempt = MaxAttempts
                  ELSE row.fault = "transient" /\ row.attempt < MaxAttempts

ResumePosition(rows, i) ==
    IF \E n \in Chain(rows, i) : rows[n].terminal THEN Done
    ELSE Cardinality(Chain(rows, i)) + 1

AuthenticationSeen(rows) == \E n \in 1 .. Len(rows) : rows[n].fault = "authentication"
ReturnedModels(rows) ==
    { rows[n].model : n \in { k \in 1 .. Len(rows) : rows[k].fault = "none" } }

(* A row appended to an unterminated line: no JSON.                            *)
Merged == [item |-> 0, attempt |-> 0, terminal |-> FALSE, fault |-> "malformed", model |-> NoModel,
           breaks |-> FALSE]

(* Rows are separated by more than what they were written with: splitlines()   *)
(* also ends a line at characters that JSON leaves as they are, so a row whose *)
(* text has one is two lines and neither is JSON.                              *)
ParseRawAttempts(rows) == \A n \in 1 .. Len(rows) : rows[n] # Merged /\ ~rows[n].breaks

ValidatePartial(rows) ==
    /\ ParseRawAttempts(rows)
    /\ \A i \in Items : ChainIsPossible(rows, i)
    /\ \A n \in 1 .. Len(rows) : rows[n].fault = "authentication" => n = Len(rows)
    /\ Cardinality(ReturnedModels(rows)) <= 1

(* What score requires of a run.                                               *)
ValidateComplete(rows) ==
    /\ ValidatePartial(rows)
    /\ ~AuthenticationSeen(rows)
    /\ \A i \in Items : ResumePosition(rows, i) = Done

-----------------------------------------------------------------------------
Begin ==
    /\ pc \in Ended \ {"refused"} /\ runs < MaxRuns
    /\ runs' = runs + 1
    /\ IF ValidatePartial(raw)
          THEN /\ positions' = [i \in Items |-> ResumePosition(raw, i)]
               /\ pc' = "recover"
          ELSE pc' = "refused" /\ UNCHANGED positions
    /\ item' = 1
    /\ UNCHANGED <<ledger, attempt, answer, calls, cuts>>

(* Variant: the file is opened for appending with the torn line in it.         *)
RecoverWithoutTruncating ==
    /\ pc = "recover"
    /\ pc' = IF AuthenticationSeen(raw) THEN "stopped" ELSE "next"
    /\ UNCHANGED <<ledger, memory, calls, runs, cuts>>

(* Drop an uncommitted tail; an authentication stop is final.                  *)
Recover ==
    /\ pc = "recover"
    /\ tail' = FALSE
    /\ pc' = IF AuthenticationSeen(raw) THEN "stopped" ELSE "next"
    /\ UNCHANGED <<raw, memory, calls, runs, cuts>>

(* The first item of the plan, from where the loop is, that is not done.       *)
TakeItem ==
    /\ pc = "next"
    /\ LET left == { i \in item .. PlanLength : positions[i] # Done }
       IN  IF left = {}
              THEN pc' = "complete" /\ UNCHANGED <<item, attempt>>
              ELSE \E i \in left :
                     /\ \A j \in left : i <= j
                     /\ item' = i /\ attempt' = positions[i]
                     /\ pc' = "request"
    /\ UNCHANGED <<ledger, positions, answer, calls, runs, cuts>>

Call ==
    /\ pc = "request"
    /\ calls' = Append(calls, [item |-> item, attempt |-> attempt])
    /\ pc' = "calling"
    /\ UNCHANGED <<ledger, memory, runs, cuts>>

(* A result names its model; an authentication error is never retryable.  What *)
(* an answer says may break the line of its row (U+0085, U+2028, U+2029).      *)
Answers == { a \in [fault : {"none", "authentication", "transient", "permanent"},
                    model : Models \cup {NoModel}, breaks : BOOLEAN] :
               a.fault = "none" <=> a.model # NoModel }
Answer ==
    /\ pc = "calling"
    /\ answer' \in Answers
    /\ pc' = "answered"
    /\ UNCHANGED <<ledger, positions, item, attempt, calls, runs, cuts>>

WillRetry == answer.fault = "transient" /\ attempt < MaxAttempts
Row == IF tail THEN Merged
       ELSE [item |-> item, attempt |-> attempt, terminal |-> ~WillRetry,
             fault |-> answer.fault, model |-> answer.model, breaks |-> answer.breaks]

(* The append commits the row, or the write or its fsync fails and the run     *)
(* ends, with none, a part or all of the row in the file.                      *)
AppendAttempt ==
    /\ pc = "answered"
    /\ \/ /\ raw' = Append(raw, Row) /\ tail' = FALSE /\ UNCHANGED cuts
          /\ pc' = "appended"
       \/ /\ \/ raw' = Append(raw, Row) /\ tail' = FALSE /\ UNCHANGED cuts
             \/ tail' \in BOOLEAN /\ cuts' = cuts + 1 /\ UNCHANGED raw
          /\ pc' = "incomplete"
    /\ UNCHANGED <<memory, calls, runs>>

(* Variant: after an authentication error the next item is asked for.          *)
AfterAppendGoesOn ==
    /\ pc = "appended"
    /\ IF WillRetry THEN attempt' = attempt + 1 /\ pc' = "request" /\ UNCHANGED item
       ELSE item' = item + 1 /\ pc' = "next" /\ UNCHANGED attempt
    /\ UNCHANGED <<ledger, positions, answer, calls, runs, cuts>>

AfterAppend ==
    /\ pc = "appended"
    /\ IF answer.fault = "authentication" THEN pc' = "stopped" /\ UNCHANGED <<item, attempt>>
       ELSE IF WillRetry THEN attempt' = attempt + 1 /\ pc' = "request" /\ UNCHANGED item
       ELSE item' = item + 1 /\ pc' = "next" /\ UNCHANGED attempt
    /\ UNCHANGED <<ledger, positions, answer, calls, runs, cuts>>

(* The process dies, or something raises, between any two steps.               *)
Die ==
    /\ pc \notin Ended
    /\ pc' = "incomplete"
    /\ cuts' = IF pc \in {"calling", "answered"} THEN cuts + 1 ELSE cuts
    /\ UNCHANGED <<ledger, memory, calls, runs>>

Next ==
    \/ Begin \/ Recover \/ TakeItem \/ Call \/ Answer \/ AppendAttempt
    \/ AfterAppend \/ Die

Spec == Init /\ [][Next]_vars
-----------------------------------------------------------------------------
(* Properties *)

(* Nothing an invocation leaves, however it ended, stops the next one but two  *)
(* things the provider has said: answers under two model names, or one that    *)
(* breaks its row.  After either no invocation works on the file again.        *)
BrokenRow(rows) == \E n \in 1 .. Len(rows) : rows[n].breaks
Spoiled(rows) == Cardinality(ReturnedModels(rows)) > 1 \/ BrokenRow(rows)

ResumeAccepts ==
    /\ pc = "refused" => Spoiled(raw)
    /\ pc = "recover" => ~Spoiled(raw)

(* Without a write-ahead an attempt may be repeated, but only one whose        *)
(* invocation ended between the call and its committed row; items are asked    *)
(* for in plan order and attempts consecutively across invocations.            *)
RepeatsAreCuts ==
    /\ Len(calls) <= Cardinality({ calls[n] : n \in 1 .. Len(calls) }) + cuts
    /\ \A n \in 2 .. Len(calls) :
          \/ calls[n] = calls[n - 1]
          \/ calls[n].item = calls[n - 1].item /\ calls[n].attempt = calls[n - 1].attempt + 1
          \/ calls[n].item = calls[n - 1].item + 1 /\ calls[n].attempt = 1

(* A key with a committed terminal row is never asked for again, and nothing   *)
(* is after a committed authentication error.                                  *)
NoCallWhenSettled ==
    [][calls' # calls =>
         /\ ~AuthenticationSeen(raw)
         /\ \A n \in 1 .. Len(raw) : raw[n].terminal => raw[n].item # item]_vars

(* A run reported complete can be scored unless the provider spoiled it; no    *)
(* torn line is left in it.                                                    *)
CompleteRunsScore == pc = "complete" => ~tail /\ (Spoiled(raw) \/ ValidateComplete(raw))
=============================================================================
