-------------------------- MODULE IdentityRegistry --------------------------
(* ExactIdentityRegistry: verification of histories of any length keeps every  *)
(* run, operation and session id it meets in an open-addressed table in a      *)
(* scratch file, to tell whether one is used twice.  The table doubles by      *)
(* migrating to a new region of the file.  A record is authenticated for its   *)
(* place, so that damage is noticed when it is read; an erased record looks    *)
(* like an empty slot and is only noticed by counting.                         *)
EXTENDS Naturals, FiniteSets

CONSTANTS
    Values, NoValue,
    Kinds,           \* of core declarations: run, operation, session
    Hashes,          \* images of the keyed digest that are tried
    InitialCapacity, \* a power of two, at least _MIN_CAPACITY
    MaxDamages       \* bound on records damaged from outside

ConstantsAreLegal ==
    /\ NoValue \notin Values
    /\ Kinds \subseteq {"run", "operation", "session"}
    /\ Hashes \subseteq Nat /\ InitialCapacity \in Nat \ {0}

VARIABLES
    hash,                   \* [Values -> Hashes]: the digest under this registry's key
    table,                  \* the file: records by absolute slot
    base, capacity, count,  \* the current region and how many it holds
    state,                  \* "open", "failed" or "closed"
    accepted,               \* [Values -> tag of its accepted declaration, or "empty"]
    mistaken,               \* some answer was not what the accepted ones say
    damages

registry == <<table, base, capacity, count, state>>
vars == <<hash, registry, accepted, mistaken, damages>>

Record(v, tag) == [value |-> v, tag |-> tag]
Empty == Record(NoValue, "empty")
Damaged == Record(NoValue, "damaged")

Init ==
    /\ hash \in [Values -> Hashes]
    /\ table = [slot \in 0 .. InitialCapacity - 1 |-> Empty]
    /\ base = 0 /\ capacity = InitialCapacity /\ count = 0
    /\ state = "open"
    /\ accepted = [v \in Values |-> "empty"] /\ mistaken = FALSE
    /\ damages = 0

-----------------------------------------------------------------------------
(* Slots are probed in order up to the first that is empty, damaged or has the *)
(* value: a lookup ends there, or fails.                                       *)
Slot(b, c, v, p) == b + ((hash[v] + p) % c)
Ends(t, b, c, v, p) ==
    LET r == t[Slot(b, c, v, p)] IN r \in {Empty, Damaged} \/ r.value = v
Place(t, b, c, v) ==
    Slot(b, c, v, CHOOSE p \in 0 .. c - 1 :
                      Ends(t, b, c, v, p) /\ \A q \in 0 .. p - 1 : ~Ends(t, b, c, v, q))
Found(t, b, c, v) ==
    IF \E p \in 0 .. c - 1 : Ends(t, b, c, v, p) THEN t[Place(t, b, c, v)] ELSE Damaged

Occupied(t, b, c) == { slot \in b .. b + c - 1 : t[slot] # Empty }
ScanFails(t, b, c, n) ==
    \/ \E slot \in b .. b + c - 1 : t[slot] = Damaged
    \/ Cardinality(Occupied(t, b, c)) # n

(* Variant: records keep their slot in the larger region.                      *)
MigratedInPlace ==
    [ slot \in 0 .. base + 3 * capacity - 1 |->
        IF slot < base + capacity THEN table[slot]
        ELSE IF slot < base + 2 * capacity THEN table[slot - capacity] ELSE Empty ]

(* The records of the region inserted, in slot order, in one twice as large    *)
(* that follows it: the file after each slot.                                  *)
Moves ==
    LET new == base + capacity
        size == 2 * capacity
        grown == [ slot \in 0 .. new + size - 1 |->
                     IF slot < new THEN table[slot] ELSE Empty ]
        after[n \in 0 .. capacity] ==
            IF n = 0 THEN grown
            ELSE LET r == table[base + n - 1]
                 IN  IF r = Empty THEN after[n - 1]
                     ELSE [after[n - 1] EXCEPT ![Place(after[n - 1], new, size, r.value)] = r]
    IN  after

Migrated == Moves[capacity]

IsCrowded == (count + 1) * 2 > capacity

-----------------------------------------------------------------------------
Fails == state' = "failed" /\ UNCHANGED <<table, base, capacity, count>>

(* Store a value that was not found, in a larger table if this one is crowded. *)
Store(v, tag) ==
    IF ~IsCrowded
       THEN /\ table' = [table EXCEPT ![Place(table, base, capacity, v)] = Record(v, tag)]
            /\ count' = count + 1
            /\ UNCHANGED <<base, capacity, state>>
       ELSE IF ScanFails(table, base, capacity, count) THEN Fails
       ELSE LET new == base + capacity
                size == 2 * capacity
                moved == Migrated
            IN  IF ScanFails(moved, new, size, count) THEN Fails
                ELSE /\ table' = [moved EXCEPT ![Place(moved, new, size, v)] = Record(v, tag)]
                     /\ base' = new /\ capacity' = size
                     /\ count' = count + 1
                     /\ UNCHANGED state

(* The declaration is answered: the caller learns of a collision, or that the  *)
(* value is accepted.  An exact answer only depends on what was accepted.      *)
Answer(v, tag, collides, exact) ==
    /\ mistaken' = (mistaken \/ (state' = "open" /\ collides # exact))
    /\ accepted' = IF state' = "open" /\ ~collides /\ accepted[v] = "empty"
                      THEN [accepted EXCEPT ![v] = tag] ELSE accepted
    /\ UNCHANGED <<hash, damages>>

DeclareCore(v, tag) ==
    /\ state = "open"
    /\ LET r == Found(table, base, capacity, v)
       IN  /\ CASE r = Damaged -> Fails
                [] r = Empty   -> Store(v, tag)
                [] OTHER       -> UNCHANGED registry
           /\ Answer(v, tag, r # Empty, accepted[v] # "empty")

(* A seal may use an operation's id, and no other twice.  One whose value is    *)
(* the id of its own seal operation collides before it is looked up, and leaves *)
(* everything as it is.                                                        *)
DeclareSeal(v) ==
    /\ state = "open"
    /\ LET r == Found(table, base, capacity, v)
       IN  /\ CASE r = Damaged -> Fails
                [] r = Empty   -> Store(v, "seal")
                [] OTHER       -> UNCHANGED registry
           /\ Answer(v, "seal", r.tag \notin {"empty", "operation"},
                     accepted[v] \notin {"empty", "operation"})

(* The current table is scanned once more before its answers count.            *)
Close ==
    /\ state = "open"
    /\ state' = IF ScanFails(table, base, capacity, count) THEN "failed" ELSE "closed"
    /\ UNCHANGED <<hash, table, base, capacity, count, accepted, mistaken, damages>>

(* From outside, a record is overwritten or erased.                            *)
Damage ==
    /\ state = "open" /\ damages < MaxDamages
    /\ damages' = damages + 1
    /\ \E slot \in Occupied(table, base, capacity), r \in {Empty, Damaged} :
          table' = [table EXCEPT ![slot] = r]
    /\ UNCHANGED <<hash, base, capacity, count, state, accepted, mistaken>>

Next ==
    \/ \E v \in Values : (\E tag \in Kinds : DeclareCore(v, tag)) \/ DeclareSeal(v)
    \/ Close \/ Damage

Spec == Init /\ [][Next]_vars
-----------------------------------------------------------------------------
(* Properties *)

(* On an undamaged file every declaration is answered exactly, across          *)
(* collisions of digests, wrapped probes and migrations, and none fails.       *)
ExactUnlessDamaged == damages = 0 => ~mistaken /\ state # "failed"

(* If closing succeeds every answer was exact, whatever happened to the file.  *)
CleanCloseIsExact == state = "closed" => ~mistaken
=============================================================================
