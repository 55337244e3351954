------------------------- MODULE DependencyClosure -------------------------
(* The installed distributions a capsule depends on: a work list from the      *)
(* roots on, in which a captured distribution is visited again if another one  *)
(* asks for more of its extras.                                                *)
EXTENDS Naturals, Sequences, FiniteSets, SequencesExt

CONSTANTS
    Distributions,      \* their canonical names
    Roots,              \* sequence of names
    Extras,             \* positive numbers, in the order of their spelling
    MaxRequirements,    \* requirements of all distributions that are tried
    MaxEvaluations      \* limit on the evaluations of requirements

Base == 0               \* the context of no extra, and the lack of a marker
Contexts == {Base} \cup Extras

ConstantsAreLegal ==
    /\ IsFiniteSet(Distributions) /\ Roots \in Seq(Distributions)
    /\ IsFiniteSet(Extras) /\ Extras \subseteq Nat \ {0}
    /\ {MaxRequirements, MaxEvaluations} \subseteq Nat

(* What "of" requires: "to[extras]; extra == when".  A distribution requires   *)
(* itself for more extras only.                                                *)
Requirements ==
    { r \in [of : Distributions, to : Distributions, when : Contexts, extras : SUBSET Extras] :
        Cardinality(r.extras) <= 1 /\ (r.of = r.to => r.extras # {}) }

VARIABLES
    requires,       \* the requirements of the installed distributions, each's together
    broken,         \* names not installed once, requirements whose version is not
    queue,
    requested,      \* requested_extras
    processed,      \* processed_contexts
    captured, evaluations,
    pc              \* "walking", "closed", "rejected" or "limited"

vars == <<requires, broken, queue, requested, processed, captured, evaluations, pc>>

Init ==
    /\ requires \in { list \in BoundedSeq(Requirements, MaxRequirements) :
                        \A i, j, k \in DOMAIN list :
                          i < j /\ j < k /\ list[i].of = list[k].of => list[j].of = list[i].of }
    /\ broken \in { b \in SUBSET (Distributions \cup ToSet(requires)) : Cardinality(b) <= 1 }
    /\ queue = Roots /\ pc = "walking"
    /\ requested = [n \in Distributions |-> {}] /\ processed = [n \in Distributions |-> {}]
    /\ captured = {} /\ evaluations = 0

-----------------------------------------------------------------------------
(* marker_matches: the contexts are tried in their order up to the first match *)

Selects(r, contexts) == r.when = Base \/ r.when \in contexts
Tried(r, contexts) ==
    IF r.when = Base THEN {} ELSE { c \in contexts : r.when \in contexts => c <= r.when }

(* Variant: a distribution once captured is not visited again.                 *)
WantsUncaptured(walk, r) == r.to \notin walk.captured

(* enqueue: whether "to" is put into the queue, if it is not there.            *)
Wants(walk, r) ==
    r.to \notin walk.captured \/ ~(r.extras \subseteq walk.requested[r.to])

Demand(walk, r, contexts) ==
    LET used == walk.evaluations + 1 + Cardinality(Tried(r, contexts))
    IN  IF walk.pc # "walking" THEN walk
        ELSE IF used > MaxEvaluations THEN [walk EXCEPT !.pc = "limited"]
        ELSE IF ~Selects(r, contexts) THEN [walk EXCEPT !.evaluations = used]
        ELSE IF {r.to, r} \cap broken # {} THEN [walk EXCEPT !.pc = "rejected"]
        ELSE [walk EXCEPT !.evaluations = used,
                          !.requested[r.to] = @ \cup r.extras,
                          !.queue = IF Wants(walk, r) /\ r.to \notin ToSet(@)
                                       THEN Append(@, r.to) ELSE @]

(* The requirements of a distribution, one after the other.                    *)
Demanded(start, name, contexts) ==
    LET walk[i \in 0 .. Len(requires)] ==
            IF i = 0 THEN start
            ELSE IF requires[i].of = name THEN Demand(walk[i - 1], requires[i], contexts)
            ELSE walk[i - 1]
    IN  walk[Len(requires)]

Asked(name) == {Base} \cup requested[name]
News(name) == Asked(name) \ processed[name]

Skip ==
    /\ pc = "walking" /\ queue # <<>>
    /\ News(Head(queue)) = {} /\ Head(queue) \in captured
    /\ queue' = Tail(queue)
    /\ UNCHANGED <<requires, broken, requested, processed, captured, evaluations, pc>>

Visit ==
    /\ pc = "walking" /\ queue # <<>>
    /\ LET name == Head(queue)
           contexts == News(name)
           start == [pc |-> IF name \in broken THEN "rejected" ELSE pc,
                     queue |-> Tail(queue), requested |-> requested,
                     captured |-> captured \cup {name}, evaluations |-> evaluations]
           walk == Demanded(start, name, contexts)
       IN  /\ contexts # {} \/ name \notin captured
           /\ pc' = walk.pc /\ queue' = walk.queue /\ requested' = walk.requested
           /\ captured' = walk.captured /\ evaluations' = walk.evaluations
           /\ processed' = [processed EXCEPT ![name] = @ \cup contexts]
    /\ UNCHANGED <<requires, broken>>

Close ==
    /\ pc = "walking" /\ queue = <<>> /\ pc' = "closed"
    /\ UNCHANGED <<requires, broken, queue, requested, processed, captured, evaluations>>

Next == Skip \/ Visit \/ Close

Spec == Init /\ [][Next]_vars

-----------------------------------------------------------------------------
(* The closure as it is defined: the least set of distributions, each with the *)
(* contexts in which it is asked for.                                          *)

Demands(pair) == { r \in ToSet(requires) : r.of = pair[1] /\ r.when \in {Base, pair[2]} }

Grown(pairs) ==
    pairs \cup UNION { {r.to} \X ({Base} \cup r.extras) :
                        r \in UNION { Demands(pair) : pair \in pairs } }

Closure ==
    LET reached[i \in 0 .. Cardinality(Distributions \X Contexts)] ==
            IF i = 0 THEN ToSet(Roots) \X {Base} ELSE Grown(reached[i - 1])
    IN  reached[Cardinality(Distributions \X Contexts)]

(* Each requirement twice for every context of its distribution.               *)
Work(pairs) ==
    2 * Cardinality({ w \in (DOMAIN requires) \X pairs : requires[w[1]].of = w[2][1] })

(* The walk ends with the closure, whatever the order in which extras are      *)
(* asked for; it is rejected only for a distribution or version the closure    *)
(* needs, and its work stays within what the closure calls for, so that no     *)
(* cycle of requirements uses up the limit.                                    *)
ClosureIsLeast ==
    LET needed == Closure
        demanded == UNION { Demands(pair) : pair \in needed }
        names == { pair[1] : pair \in needed }
    IN  /\ evaluations <= Work(needed)
        /\ pc = "closed" =>
             /\ UNION { {n} \X processed[n] : n \in Distributions } = needed
             /\ captured = names
             /\ broken \cap (names \cup demanded) = {}
        /\ pc = "rejected" => broken \cap (names \cup demanded) # {}
        /\ pc = "limited" => Work(needed) > MaxEvaluations
=============================================================================
