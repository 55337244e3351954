--------------------------- MODULE MCVerification ---------------------------
(* Two parts of verification that share no state, one behaviour for each: the  *)
(* descriptors through which both ledgers are read and appended, and the       *)
(* registry of identities.  "subject" says which one runs.                     *)
EXTENDS JournalBinding

CONSTANTS Values, NoValue, Kinds, Hashes, InitialCapacity, MaxDamages

VARIABLES subject, hash, table, first, capacity, count, state, declared, mistaken, damages

registry == <<hash, table, first, capacity, count, state, declared, mistaken, damages>>

Registry == INSTANCE IdentityRegistry WITH base <- first, accepted <- declared

ASSUME AllConstantsAreLegal == ConstantsAreLegal /\ Registry!ConstantsAreLegal

(* Values are told apart by their digests only, and those are any: it is       *)
(* enough to declare 1 .. n in their order of first use.                       *)
InOrder(v) == \A u \in Values : u < v => declared[u] # "empty"
RegistryNext ==
    \/ \E v \in Values : /\ InOrder(v)
                          /\ \/ \E tag \in Kinds : Registry!DeclareCore(v, tag)
                             \/ Registry!DeclareSeal(v)
    \/ Registry!Close \/ Registry!Damage

RegistryUnused ==
    /\ hash = 0 /\ table = 0 /\ first = 0 /\ capacity = 0 /\ count = 0 /\ state = 0
    /\ declared = 0 /\ mistaken = 0 /\ damages = 0

MCInit ==
    \/ subject = "registry" /\ Registry!Init /\ Init
    \/ subject = "journal" /\ Init /\ RegistryUnused

MCNext ==
    \/ subject = "registry" /\ RegistryNext /\ UNCHANGED <<subject, vars>>
    \/ subject = "journal" /\ Next /\ UNCHANGED <<subject, registry>>

MCSpec == MCInit /\ [][MCNext]_<<subject, vars, registry>>

-----------------------------------------------------------------------------
(* On an undamaged file every declaration of an identity is answered exactly,  *)
(* across collisions of digests, wrapped probes and migrations; on a damaged   *)
(* one, a registry that can be closed has answered exactly as well.            *)
AnswersAreExact ==
    subject = "registry" => Registry!ExactUnlessDamaged /\ Registry!CleanCloseIsExact
=============================================================================
