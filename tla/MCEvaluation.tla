---------------------------- MODULE MCEvaluation ----------------------------
(* The programs outside the capsule, one behaviour for each: the legacy runner *)
(* over its JSON lines, score and report commands on one output, and the       *)
(* exploratory tools.  They share no file, so "part" says which one runs.      *)
EXTENDS ExploratoryRun, ScorePublication

CONSTANTS PlanLength, MaxTransientRetries, Models, NoModel, MaxRuns

VARIABLES part, raw, tail, runnerAt, positions, item, attempt, reply, calls, runs, cuts

lvars == <<raw, tail, runnerAt, positions, item, attempt, reply, calls, runs, cuts>>

Legacy == INSTANCE LegacyRunner WITH pc <- runnerAt, answer <- reply

(* One pair and a third arm, and rates at which rounding matters.              *)
MCPlan == << [pair |-> 1, arm |-> "concise"], [pair |-> 1, arm |-> "baseline"],
             [pair |-> 1, arm |-> "if"] >>
MCRates == [input |-> 1, read |-> 1, write |-> 1, output |-> 1]
MCOutputLimit == [generation |-> 1, judgment |-> 1]

ASSUME AllConstantsAreLegal ==
    ConstantsAreLegal /\ CommandsAreLegal /\ Legacy!ConstantsAreLegal

(* The programs that do not run are as they would begin, all in one way.       *)
MCInit ==
    /\ part \in {"legacy", "score", "exploratory"}
    /\ Legacy!Init /\ ScoreInit /\ Init
    /\ part # "score" => gate = [s \in Scorers |-> "hard"]
    /\ part # "exploratory" => tool = "pilot"

MCNext ==
    \/ part = "legacy" /\ Legacy!Next /\ UNCHANGED <<part, svars, vars>>
    \/ part = "score" /\ ScoreNext /\ UNCHANGED <<part, lvars, vars>>
    \/ part = "exploratory" /\ Next /\ UNCHANGED <<part, lvars, svars>>

MCSpec == MCInit /\ [][MCNext]_<<part, lvars, svars, vars>>

-----------------------------------------------------------------------------
(* What an invocation of the legacy runner leaves, the next one accepts and    *)
(* score can read, unless the provider answered under two model names or with  *)
(* a character that breaks a row, after which no invocation works on the file; *)
(* without a write-ahead an attempt is repeated only where an invocation ended *)
(* between the call and its committed row.                                     *)
LegacyRunsAddUp ==
    Legacy!ResumeAccepts /\ Legacy!CompleteRunsScore /\ Legacy!RepeatsAreCuts

(* Nothing settled is asked again by the legacy runner.                        *)
NoCallWhenSettled ==
    [][calls' # calls =>
         /\ ~Legacy!AuthenticationSeen(raw)
         /\ \A n \in 1 .. Len(raw) : raw[n].terminal => raw[n].item # item]_lvars
=============================================================================
