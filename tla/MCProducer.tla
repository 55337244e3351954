----------------------------- MODULE MCProducer -----------------------------
(* What goes into a capsule, one behaviour for each: the installed             *)
(* distributions, the code that is run, the plan, and the redacted outputs.    *)
(* They share no state, so "part" says which one runs.                         *)
EXTENDS CapsulePlanning

CONSTANTS a, b, Distributions, Roots, Extras, MaxRequirements, MaxEvaluations,
          Packages, Extensions, Contents, Foreign, MaxChanges,
          Width, MaxText, MaxPattern, MaxPatterns, Batch, Limit, MarkerWidth

VARIABLES part,
          requires, broken, queue, requested, processed, captured, evaluations,
          disk, hooks, changes, read, policy, stage, todo, importing, loaded, executed, strangers, seen,
          value, patterns, occurrences, sourceIndex, count, buffer, byteLength, retained

closure == <<requires, broken, queue, requested, processed, captured, evaluations>>
runtime == <<disk, hooks, changes, read, policy, stage, todo, importing, loaded, executed, strangers, seen>>
planning == <<owned, rows, plan>>
output == <<value, patterns, occurrences, sourceIndex, count, buffer, byteLength, retained>>

(* b is visited before a asks for its extras.                                  *)
MCRoots == <<b, a>>
MCPackages == << <<"runner">>, <<"source", "extension">> >>
(* A character of one byte and one of two.                                     *)
MCWidth == [x |-> 1, y |-> 2]

Runtime == INSTANCE RuntimeProvenance
Closure == INSTANCE DependencyClosure
Output == INSTANCE OutputSanitizer

ASSUME AllConstantsAreLegal ==
    /\ ConstantsAreLegal /\ Closure!ConstantsAreLegal
    /\ Runtime!ConstantsAreLegal /\ Output!ConstantsAreLegal

ClosureUnused ==
    /\ requires = 0 /\ broken = 0 /\ queue = 0 /\ requested = 0 /\ processed = 0
    /\ captured = 0 /\ evaluations = 0
RuntimeUnused ==
    /\ disk = 0 /\ hooks = 0 /\ changes = 0 /\ read = 0 /\ policy = 0 /\ stage = 0
    /\ todo = 0 /\ importing = 0 /\ loaded = 0 /\ executed = 0
    /\ strangers = 0 /\ seen = 0
PlanningUnused == owned = 0 /\ rows = 0 /\ plan = 0
OutputUnused ==
    /\ value = 0 /\ patterns = 0 /\ occurrences = 0 /\ sourceIndex = 0 /\ count = 0
    /\ buffer = 0 /\ byteLength = 0 /\ retained = 0

MCInit ==
    \/ part = "closure" /\ Closure!Init /\ RuntimeUnused /\ PlanningUnused /\ OutputUnused
    \/ part = "runtime" /\ Runtime!Init /\ pc = 0 /\ ClosureUnused /\ PlanningUnused /\ OutputUnused
    \/ part = "planning" /\ Init /\ ClosureUnused /\ RuntimeUnused /\ OutputUnused
    \/ part = "output" /\ Output!Init /\ ClosureUnused /\ RuntimeUnused /\ PlanningUnused

MCNext ==
    \/ part = "closure" /\ Closure!Next /\ UNCHANGED <<part, runtime, planning, output>>
    \/ part = "runtime" /\ Runtime!Next /\ UNCHANGED <<part, pc, closure, planning, output>>
    \/ part = "planning" /\ Next /\ UNCHANGED <<part, closure, runtime, output>>
    \/ part = "output" /\ Output!Next /\ UNCHANGED <<part, closure, runtime, planning>>

MCSpec == MCInit /\ [][MCNext]_<<part, pc, closure, runtime, planning, output>>

-----------------------------------------------------------------------------
(* The captured dependencies are the least closure of the roots, whatever the  *)
(* order in which extras are asked for, and finding it takes no more work than *)
(* the closure calls for.                                                      *)
DependenciesAreExact == part = "closure" => Closure!ClosureIsLeast

(* A request is made, and its answer recorded, only while all that the import  *)
(* guard found is the code the capsule records, the import state is as the     *)
(* guard left it, and other code has run only by imports no hook is told of.   *)
GuardRunsRecordedCode == part = "runtime" => Runtime!GuardRunsRecordedCode

(* That code was installed all at one time.                                    *)
OneInstallation == part = "runtime" => Runtime!OneInstallation

(* The planner accepts the rows the materializer makes, one by one, and the    *)
(* plan pairs the arms of every case wherever execution stops.                 *)
PlanIsSound ==
    part = "planning" => IndexRulesAgree /\ PlanIsPaired

(* The streamed redaction is the redaction by scanning, and is retained whole  *)
(* exactly if it fits.                                                         *)
RedactionsAgree == part = "output" => Output!RedactionsAgree
=============================================================================
