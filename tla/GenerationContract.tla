------------------------- MODULE GenerationContract -------------------------
(* What a generation capsule promises whoever pays for the provider calls:     *)
(* plan items are asked for one at a time and in plan order, an item is asked  *)
(* for again only after a definite refusal and at most MaxTransientRetries     *)
(* times, and an answer that never came, may not have arrived, or refused the  *)
(* credentials ends the run for good.  Journals, crashes and operations are    *)
(* left out; CapsuleJournal implements this (run contract).                    *)
EXTENDS Naturals

CONSTANTS PlanLength, MaxTransientRetries

VARIABLES
    item,    \* [Ordinals -> status of the item]
    asks,    \* [Ordinals -> how often the item was asked for]
    closed   \* whether the run is declared complete

cvars == <<item, asks, closed>>

Ordinals == 0 .. PlanLength - 1
Statuses == {"pending", "asked", "resolved", "uncertain", "unauthorized"}

Init ==
    /\ item = [i \in Ordinals |-> "pending"]
    /\ asks = [i \in Ordinals |-> 0]
    /\ closed = FALSE

Ask(i) ==
    /\ item[i] = "pending"
    /\ \A j \in Ordinals : j < i => item[j] = "resolved"
    /\ asks[i] <= MaxTransientRetries
    /\ item' = [item EXCEPT ![i] = "asked"]
    /\ asks' = [asks EXCEPT ![i] = @ + 1]
    /\ UNCHANGED closed

(* A refusal leaves the item to be asked for again, while retries remain.      *)
Answer(i) ==
    /\ item[i] = "asked"
    /\ \E status \in Statuses \ {"asked"} :
          /\ status = "pending" => asks[i] <= MaxTransientRetries
          /\ item' = [item EXCEPT ![i] = status]
    /\ UNCHANGED <<asks, closed>>

Close ==
    /\ \A i \in Ordinals : item[i] = "resolved"
    /\ closed' = TRUE
    /\ UNCHANGED <<item, asks>>

Next == Close \/ \E i \in Ordinals : Ask(i) \/ Answer(i)

Spec == Init /\ [][Next]_cvars
=============================================================================
