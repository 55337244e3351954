-------------------------- MODULE CapsulePlanning --------------------------
(* The case index and the generation plan.  The rules of the index are written *)
(* twice: the materializer applies them to captured files, and the planner to  *)
(* the rows it is given.  The plan is one block per case and repetition, and   *)
(* within a block every arm in an order that looks random.                     *)
EXTENDS Naturals, Sequences, FiniteSets, SequencesExt

CONSTANTS
    Sources,        \* number of case files
    Datasets, Stems, Scenarios, Arms, Repetitions,
    MaxRecords,     \* records of one file that are tried
    PlanRows,       \* limit on the rows of a plan
    TokensPerRow, PlanTokens

SourceOrdinals == 0 .. Sources - 1
Locales == {"en", "ru"}
CaseIds == [stem : Stems, suffix : Locales]

ConstantsAreLegal ==
    /\ {Sources, Repetitions, MaxRecords} \subseteq Nat \ {0}
    /\ {PlanRows, TokensPerRow, PlanTokens} \subseteq Nat
    /\ IsFiniteSet(Arms) /\ Arms # {}

(* Digests are the tuples they are made of.                                    *)
ScenarioUid(dataset, scenario) == <<dataset, scenario>>
CaseUid(dataset, scenario, id, locale) == <<ScenarioUid(dataset, scenario), id, locale>>

IndexRow(source, record, dataset, id, scenario, locale) ==
    [source |-> source, record |-> record, dataset |-> dataset, id |-> id,
     scenario |-> scenario, locale |-> locale,
     scenarioUid |-> ScenarioUid(dataset, scenario),
     uid |-> CaseUid(dataset, scenario, id, locale)]

(* Rows that may be handed to the planner; the second is said to be another    *)
(* dataset's.                                                                  *)
SubmittedRows ==
    UNION { LET row == IndexRow(s, n, d, id, scenario, locale)
            IN  {row, [row EXCEPT !.uid = CaseUid(e, scenario, id, locale)]} :
            s \in SourceOrdinals, n \in 0 .. MaxRecords - 1, d \in Datasets, e \in Datasets,
            id \in CaseIds, scenario \in Scenarios, locale \in Locales }

VARIABLES
    owned,      \* case_file_ordinals of each dataset of the manifest
    rows,       \* index rows the planner has read
    plan,
    pc          \* "reading", "planning", "planned" or "rejected"

vars == <<owned, rows, plan, pc>>

Init ==
    /\ owned \in [Datasets -> SUBSET SourceOrdinals]
    /\ rows = <<>> /\ plan = <<>> /\ pc = "reading"

-----------------------------------------------------------------------------
(* _manifest_datasets_by_source                                                *)

HasOwners ==
    /\ UNION { owned[d] : d \in Datasets } = SourceOrdinals
    /\ \A d, e \in Datasets : d # e => owned[d] \cap owned[e] = {}
Owner(source) == CHOOSE d \in Datasets : source \in owned[d]

(* materialize_case_index                                                      *)

Group(row) == <<row.dataset, row.scenario>>
LocalesOf(index, group) ==
    { index[i].locale : i \in { j \in DOMAIN index : Group(index[j]) = group } }
EveryScenarioIsTranslated(index) ==
    \A i \in DOMAIN index : LocalesOf(index, Group(index[i])) = Locales

IndexOf(files) ==
    FlattenSeq([i \in 1 .. Sources |->
        [k \in DOMAIN files[i - 1] |->
            LET case == files[i - 1][k]
            IN  IndexRow(i - 1, k - 1, Owner(i - 1), case.id, case.scenario, case.locale)]])

(* Variant: a scenario may have one language twice.                            *)
IsConsistentWithoutLocales(index) ==
    /\ \A i \in DOMAIN index : index[i].id.suffix = index[i].locale
    /\ \A i, j \in DOMAIN index : i < j => index[i].id # index[j].id

IsConsistent(index) ==
    /\ \A i \in DOMAIN index : index[i].id.suffix = index[i].locale
    /\ \A i, j \in DOMAIN index : i < j =>
         /\ index[i].id # index[j].id /\ index[i].uid # index[j].uid
         /\ <<Group(index[i]), index[i].locale>> # <<Group(index[j]), index[j].locale>>
         /\ index[i].scenarioUid = index[j].scenarioUid => Group(index[i]) = Group(index[j])

(* The files a sequence of rows says it comes from.                            *)
FilesOf(index) ==
    [s \in SourceOrdinals |->
        FlattenSeq([i \in DOMAIN index |-> IF index[i].source = s THEN <<index[i]>> ELSE <<>>])]

IsMaterialized(index) ==
    HasOwners /\ IsConsistent(index) /\ IndexOf(FilesOf(index)) = index

-----------------------------------------------------------------------------
(* _validate_case_index_cross_rows: row after row, each against those before.  *)
(* A row that does not agree ends the validation, and the plan with it.         *)

Position(row) == row.source * MaxRecords + row.record
ReadOf(source) == Cardinality({ i \in DOMAIN rows : rows[i].source = source })

Agrees(row) ==
    /\ HasOwners
    /\ rows # <<>> => Position(row) > Position(Last(rows))
    /\ row.record = ReadOf(row.source)
    /\ row.dataset = Owner(row.source)
    /\ \A i \in DOMAIN rows : rows[i].id # row.id /\ rows[i].uid # row.uid
    /\ row.id.suffix = row.locale
    /\ row.scenarioUid = ScenarioUid(row.dataset, row.scenario)
    /\ row.uid = CaseUid(row.dataset, row.scenario, row.id, row.locale)
    /\ \A i \in DOMAIN rows :
         /\ rows[i].scenarioUid = row.scenarioUid => Group(rows[i]) = Group(row)
         /\ Group(rows[i]) = Group(row) => rows[i].locale # row.locale

ReadRow(row) ==
    /\ pc = "reading" /\ Agrees(row)
    /\ rows' = Append(rows, row)
    /\ UNCHANGED <<owned, plan, pc>>

IsComplete ==
    /\ rows # <<>>
    /\ { rows[i].source : i \in DOMAIN rows } = SourceOrdinals
    /\ EveryScenarioIsTranslated(rows)

Cardinal == Len(rows) * Repetitions * Cardinality(Arms)
Fits == Cardinal <= PlanRows /\ Cardinal * TokensPerRow <= PlanTokens

EndRows ==
    /\ pc = "reading"
    /\ pc' = IF IsComplete /\ Fits THEN "planning" ELSE "rejected"
    /\ UNCHANGED <<owned, rows, plan>>

-----------------------------------------------------------------------------
(* materialize_plan                                                            *)

BlockId(uid, repetition) == <<uid, repetition>>

Blocks == { plan[i].block : i \in DOMAIN plan }
Current == Len(plan) \div Cardinality(Arms)
CurrentCase == rows[Current \div Repetitions + 1]
Repetition == Current % Repetitions

PlanBlock ==
    /\ pc = "planning" /\ Len(plan) < Cardinal
    /\ LET block == BlockId(CurrentCase.uid, Repetition)
       IN  IF block \in Blocks
              THEN pc' = "rejected" /\ UNCHANGED plan
              ELSE /\ \E order \in SetToSeqs(Arms) :
                        plan' = plan \o [i \in DOMAIN order |->
                            [ordinal |-> Len(plan) + i - 1, block |-> block,
                             uid |-> CurrentCase.uid, repetition |-> Repetition,
                             arm |-> order[i], position |-> i - 1]]
                   /\ UNCHANGED pc
    /\ UNCHANGED <<owned, rows>>

EndPlan ==
    /\ pc = "planning" /\ Len(plan) = Cardinal /\ pc' = "planned"
    /\ UNCHANGED <<owned, rows, plan>>

Next == (\E row \in SubmittedRows : ReadRow(row)) \/ EndRows \/ PlanBlock \/ EndPlan

Spec == Init /\ [][Next]_vars

-----------------------------------------------------------------------------
(* The two statements of the rules accept the same rows, one by one: nothing   *)
(* prepared is refused later, and no other index is ever planned.              *)
IndexRulesAgree ==
    pc = "reading" => \A row \in SubmittedRows : Agrees(row) <=> IsMaterialized(Append(rows, row))

(* Wherever execution stops, at most one block has some of its arms only; the  *)
(* whole plan asks for every case, repetition and arm once, within its limits, *)
(* and no consistent index that fits is refused.                               *)
PlanIsPaired ==
    /\ \A stop \in 0 .. Len(plan) :
         Cardinality({ b \in Blocks :
             { plan[i].arm : i \in { j \in 1 .. stop : plan[j].block = b } } \notin {{}, Arms} }) <= 1
    /\ pc = "planned" =>
         /\ { <<r.uid, r.repetition, r.arm>> : r \in ToSet(plan) } =
              { rows[i].uid : i \in DOMAIN rows } \X (0 .. Repetitions - 1) \X Arms
         /\ \A i \in DOMAIN plan : plan[i].ordinal = i - 1
         /\ Len(plan) <= PlanRows /\ Len(plan) * TokensPerRow <= PlanTokens
    /\ pc = "rejected" => ~(IsComplete /\ Fits)
=============================================================================
