-------------------------- MODULE ScorePublication --------------------------
(* The score command publishes scored.jsonl and summary.json in a directory it *)
(* creates under its final name, one file after the other, and takes back what *)
(* it placed when a step fails.  The report command reads the directory, and   *)
(* takes a missing summary for a score by the hard gate.  Commands run side by *)
(* side and may fail, be interrupted or die at every step.                     *)
EXTENDS Naturals, FiniteSets

CONSTANTS
    Scorers, Reporters,  \* invocations, with one --output
    NoOne                \* no directory, no file

CommandsAreLegal == Scorers \cap Reporters = {} /\ NoOne \notin Scorers

VARIABLES
    gate,    \* [Scorers -> "hard" or "semantic"]: whether it has judgments
    at,      \* [Scorers \cup Reporters -> place in the code]
    output,  \* the scorer whose directory has the name, or NoOne
    placed,  \* [Names -> scorer whose file is in the directory, or NoOne]
    known,   \* [Scorers -> what its published_files lists]
    spoilt,  \* [Scorers -> its cleanup was incomplete]
    report   \* [Reporters -> [of, gate, finished]]

svars == <<gate, at, output, placed, known, spoilt, report>>

Names == {"scored.jsonl", "summary.json"}
Goto(c, place) == at' = [at EXCEPT ![c] = place]
NoReport == [of |-> NoOne, gate |-> "hard", finished |-> FALSE]

ScoreInit ==
    /\ gate \in [Scorers -> {"hard", "semantic"}]
    /\ at = [c \in Scorers \cup Reporters |-> "new"]
    /\ output = NoOne
    /\ placed = [n \in Names |-> NoOne]
    /\ known = [s \in Scorers |-> {}]
    /\ spoilt = [s \in Scorers |-> FALSE]
    /\ report = [r \in Reporters |-> NoReport]

-----------------------------------------------------------------------------
(* score *)

(* Both files are written and synced in a staging directory.                   *)
Stage(s) ==
    /\ at[s] = "new"
    /\ Goto(s, IF output # NoOne THEN "refused" ELSE "staged")
    /\ UNCHANGED <<gate, output, placed, known, spoilt, report>>

(* mkdir: one of several scorers gets the name.                                *)
MakeDirectory(s) ==
    /\ at[s] = "staged"
    /\ IF output # NoOne
          THEN Goto(s, "refused") /\ UNCHANGED output
          ELSE Goto(s, "made") /\ output' = s
    /\ UNCHANGED <<gate, placed, known, spoilt, report>>

RecordReservation(s) ==
    /\ at[s] = "made"
    /\ Goto(s, "reserved")
    /\ UNCHANGED <<gate, output, placed, known, spoilt, report>>

RenameInto(s, from, name, to) ==
    /\ at[s] = from
    /\ placed' = [placed EXCEPT ![name] = s]
    /\ Goto(s, to)
    /\ UNCHANGED <<gate, output, known, spoilt, report>>

RecordPlaced(s, from, name, to) ==
    /\ at[s] = from
    /\ known' = [known EXCEPT ![s] = @ \cup {name}]
    /\ Goto(s, to)
    /\ UNCHANGED <<gate, output, placed, spoilt, report>>

(* Variant: the summary is placed first.                                       *)
RenameFilesSwapped(s) ==
    \/ RenameInto(s, "reserved", "summary.json", "placed1")
    \/ RecordPlaced(s, "placed1", "summary.json", "recorded1")
    \/ RenameInto(s, "recorded1", "scored.jsonl", "placed2")
    \/ RecordPlaced(s, "placed2", "scored.jsonl", "recorded2")

RenameFiles(s) ==
    \/ RenameInto(s, "reserved", "scored.jsonl", "placed1")
    \/ RecordPlaced(s, "placed1", "scored.jsonl", "recorded1")
    \/ RenameInto(s, "recorded1", "summary.json", "placed2")
    \/ RecordPlaced(s, "placed2", "summary.json", "recorded2")

(* The two directory syncs, each of which may fail.                            *)
SyncDirectories(s) ==
    /\ at[s] = "recorded2"
    /\ Goto(s, "done")
    /\ UNCHANGED <<gate, output, placed, known, spoilt, report>>

(* Places where a call is made that may raise, and those where only an         *)
(* interrupt can: the effect of a call is there, its record is not.            *)
Calling == {"staged", "reserved", "recorded1", "recorded2"}
Unrecorded == {"made", "placed1", "placed2"}

(* Without a reservation there is nothing to take back.                        *)
Fail(s) ==
    /\ at[s] \in Calling \cup Unrecorded
    /\ Goto(s, IF at[s] \in {"staged", "made"} THEN "failed" ELSE "undoSummary")
    /\ spoilt' = [spoilt EXCEPT ![s] = at[s] \in Unrecorded]
    /\ UNCHANGED <<gate, output, placed, known, report>>

(* A file is removed if it is known and still the one placed.  An error is     *)
(* suppressed.                                                                 *)
Unlink(s, from, name, to) ==
    /\ at[s] = from
    /\ IF name \in known[s] /\ placed[name] = s
          THEN \/ placed' = [placed EXCEPT ![name] = NoOne] /\ UNCHANGED spoilt
               \/ spoilt' = [spoilt EXCEPT ![s] = TRUE] /\ UNCHANGED placed
          ELSE UNCHANGED <<placed, spoilt>>
    /\ Goto(s, to)
    /\ UNCHANGED <<gate, output, known, report>>

(* Files in reverse order, then the directory, which must be empty.            *)
Cleanup(s) ==
    \/ Unlink(s, "undoSummary", "summary.json", "undoScored")
    \/ Unlink(s, "undoScored", "scored.jsonl", "undoDirectory")
    \/ /\ at[s] = "undoDirectory"
       /\ \/ output = s /\ (\A n \in Names : placed[n] = NoOne)
             /\ output' = NoOne /\ UNCHANGED spoilt
          \/ spoilt' = [spoilt EXCEPT ![s] = TRUE] /\ UNCHANGED output
       /\ Goto(s, "failed")
       /\ UNCHANGED <<gate, placed, known, report>>

-----------------------------------------------------------------------------
(* report *)

LoadScored(r) ==
    /\ at[r] = "new"
    /\ IF placed["scored.jsonl"] = NoOne
          THEN Goto(r, "refused") /\ UNCHANGED report
          ELSE /\ report' = [report EXCEPT ![r] =
                     [of |-> placed["scored.jsonl"], gate |-> "hard",
                      finished |-> at[placed["scored.jsonl"]] = "done"]]
               /\ Goto(r, "loaded")
    /\ UNCHANGED <<gate, output, placed, known, spoilt>>

(* Variant: a summary there is believed.                                       *)
RenderUnverified(r) ==
    /\ at[r] = "loaded"
    /\ IF placed["summary.json"] = NoOne THEN UNCHANGED report
       ELSE report' = [report EXCEPT ![r].gate = gate[placed["summary.json"]]]
    /\ Goto(r, "done")
    /\ UNCHANGED <<gate, output, placed, known, spoilt>>

(* A summary must be what the scores, with its own gate, recompute to.  One    *)
(* that is removed between the look and the load is an error.                  *)
Render(r) ==
    /\ at[r] = "loaded"
    /\ \/ /\ placed["summary.json"] = NoOne
          /\ Goto(r, "done") /\ UNCHANGED report
       \/ /\ placed["summary.json"] = report[r].of
          /\ report' = [report EXCEPT ![r].gate = gate[report[r].of]]
          /\ Goto(r, "done")
       \/ Goto(r, "refused") /\ UNCHANGED report
    /\ UNCHANGED <<gate, output, placed, known, spoilt>>

-----------------------------------------------------------------------------
Resting == {"new", "refused", "done", "failed", "killed"}
Kill(c) ==
    /\ at[c] \notin Resting
    /\ Goto(c, "killed")
    /\ UNCHANGED <<gate, output, placed, known, spoilt, report>>

ScoreNext ==
    \/ \E s \in Scorers :
          \/ Stage(s) \/ MakeDirectory(s) \/ RecordReservation(s) \/ RenameFiles(s)
          \/ SyncDirectories(s) \/ Fail(s) \/ Cleanup(s) \/ Kill(s)
    \/ \E r \in Reporters : LoadScored(r) \/ Render(r) \/ Kill(r)

ScoreSpec == ScoreInit /\ [][ScoreNext]_svars
-----------------------------------------------------------------------------
(* Properties *)

(* What is in the directory is its owner's, and a summary is there without its *)
(* scores only after a cleanup that could not finish.                          *)
NeverMixed ==
    \A n \in Names : placed[n] # NoOne =>
        output = placed[n] /\ (placed["scored.jsonl"] = output \/ spoilt[output])

(* A score that reported success keeps both its files, whatever other scorers  *)
(* and their cleanups do.                                                      *)
FinishedStays ==
    \A s \in Scorers : at[s] = "done" => \A n \in Names : placed[n] = s

(* After a failure whose cleanup met no error the name is free for another     *)
(* run; only an interrupt between an effect and its record leaves it taken.    *)
FailureIsAtomic == \A s \in Scorers : at[s] = "failed" /\ ~spoilt[s] => output # s

(* Together: what the commands that contend for one output leave there.        *)
ScoresStayWhole == NeverMixed /\ FinishedStays /\ FailureIsAtomic

(* A report has the gate of the very scores it shows, also when other commands *)
(* publish and take back meanwhile; the fallback to the hard gate only happens *)
(* with scores whose command had not finished when they were read.             *)
GateIsReported ==
    \A r \in Reporters :
        at[r] = "done" => \/ report[r].gate = gate[report[r].of]
                          \/ report[r].gate = "hard" /\ ~report[r].finished
=============================================================================
