------------------------- MODULE MCCapsuleContract --------------------------
(* CapsuleJournal implements GenerationContract.  An item's status is what its *)
(* last committed rows say: a start without a raw row is an item asked for,    *)
(* whether the call is in flight or its operation is long dead.                *)
EXTENDS CapsuleJournal, FiniteSets

StartsOf(ev, i) == { k \in 1 .. Len(ev) : ev[k].kind = "request_started"
                                          /\ ev[k].item = i }

StatusOf(i) ==
    IF RequestHistory(events) /\ Start(events).item = i
    THEN CASE Reason(events, raw) = "missing" -> "asked"
           [] Reason(events, raw) = "none"    -> "pending"
           [] Reason(events, raw) \in Resolved -> "resolved"
           [] Reason(events, raw) = "ambiguous_delivery" -> "uncertain"
           [] OTHER                           -> "unauthorized"
    ELSE IF StartsOf(events, i) = {} THEN "pending" ELSE "resolved"

Contract == INSTANCE GenerationContract
            WITH item <- [i \in Ordinals |-> StatusOf(i)],
                 asks <- [i \in Ordinals |-> Cardinality(StartsOf(events, i))],
                 closed <- Completed(events)

(* Every step of a resume, a crash or a repair is a step of the contract or    *)
(* leaves it alone.                                                            *)
ImplementsContract == Contract!Spec
=============================================================================
