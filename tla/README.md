# Laconian in TLA+

Laconian measures how tersely a language model answers. `laconian_eval` prepares a
*generation capsule* (a directory with the manifest, the cases, the plan and two empty
ledgers), drives a provider through the plan while it journals every call, verifies
capsules, and scores and reports results. This directory specifies the parts of it that
are hard to test: what happens when an operation dies, fails to write, races another one
or meets what an earlier one left behind.

## The system

| Component | State | Operations | Hard because | Correct when |
|---|---|---|---|---|
| Write-ahead journal and resume: `capsule/execution.py`, `recovery.py`, `journal.py`, `events.py` | `events.jsonl`, `raw.jsonl`, the exclusive kernel lock, memory of the running operation | take the lock, plan a repair, truncate torn tails, append recovered rows, run an epoch (start, call, record, finish, retry, stop, complete, interrupt, block) | any step may be the last; several resumes contend; a call may have been delivered without evidence | no call is repeated after one that may have been delivered; every crash is repairable |
| History acceptor: `capsule/history.py` | compact state of two streaming passes | accept a row of `events.jsonl`, consume a raw row, derive requirements and lifecycle | every reader and every resume depends on it | it accepts all that a crash can leave and derives what resumes assume |
| Byte capacity: `capsule/limits.py`, `_CapacityBudget` in `execution.py`, crash reservation in `recovery.py` | bytes used and reserved | reserve, consume, release | a run may meet the limit anywhere | an epoch can always write its end; a repair always fits |
| Preparation, publication and locks: `capsule/prepare.py`, `filesystem.py` | staging directory, published directory, creator lock and capsule lock files | create staging, write, sync, publish by exclusive rename, verify, clean up | a preparer may die anywhere; publication may fail after the rename; power loss | what has a run id is whole and stays |
| Verification: `capsule/verify.py` | none; holds a shared lock | take the shared lock, snapshot, scan twice, report | it runs beside resumes and preparations | a capsule in use is not reported broken |
| Identity registry: `capsule/verification_scratch.py` | an open-addressed table in a scratch file | declare an identity, migrate, close | collisions, migrations, damage | answers are exact, or closing fails |
| Provider adapters and evidence: `providers/openai.py`, `capsule/attempts.py` | attempt counter of the item | classify an exception, parse a response, normalize, decide retry, stop or result | an unknown delivery must never be retried | nothing is asked again that was carried out |
| Legacy runner: `runner.py` | one JSONL file of attempts | validate and resume, drop a torn tail, ask, append | no write-ahead record of a call | only cut attempts are repeated; what completes can be scored |
| Score and report commands: `cli.py` | one output directory of two files | stage, reserve, place, clean up; read | two files under one name, placed one after the other, beside a reader | never a mixture of scores |
| Planning: `capsule/planning.py` | none | build the case index, validate one row by row, lay out the plan | the same rules are written twice; execution may stop after any item | what is prepared is accepted later; arms stay paired |
| Input capture: `capsule/capture.py`, `bounded_io.py`, `posix.py` | what was read, by source; bytes spent | read authored inputs, derive the artifacts | somebody edits the sources meanwhile | a source has one content, except that an arm reads for itself |
| Source provenance: `provenance.py` | work list of distributions | close the requirements, capture runner and installed files, project them | extras asked for late, files replaced between two looks | the closure is exact; what is captured was installed all at one time |
| Import policy: `import_policy.py` | files owned by their identity, the fixed import state | adopt a capture, install guard and audit hook, find, validate and execute modules, revalidate | files and import state change and change back | the guard has run only recorded code when something is recorded |
| Sanitizer: `capsule/sanitizer.py` | searches, buffer, retained batches | redact credentials from an output, or from a diagnostic | overlapping patterns, a limit met in mid-stream | it redacts what a scan of the whole text would |
| Models, schemas, encoding: `record_models.py`, `manifest_models.py`, `schema.py`, `canonical.py`, `models.py`, `yaml_io.py` | none | parse, validate, encode | | |
| Cases, arms, scoring, judging, reporting | none | load, judge, score, summarize | statistics over records | pairs are complete, gates agree |
| Exploratory tools: `tools/exploratory_pilot.py`, `exploratory_comparison.py`, `exploratory_protocol.py` | a budget, a ledger on disk, results | reserve, ask, account, judge, report pairs | a lost answer may have been charged; the tool may die anywhere | charges stay within the ledger, the ledger within the budget |
| Plugin release: `tools/build_plugin_release.py`; skill text, website, documents, data | none | build an archive | | |

They interact through files and one kernel lock. `prepare` publishes a capsule whose
`events.jsonl` has a `prepared` row. Each `resume` opens that directory, takes the
exclusive lock, lets the acceptor validate both ledgers, repairs them, and then alternates
between appends and provider calls. `verify` takes the lock shared and runs the acceptor.
The `run` command drives the same providers with the legacy runner into one
file of its own; `score` and `report` read what either left and meet in one output
directory. Nothing else is shared between the programs; there are no threads, and the only
callbacks are the provider and the import machinery, into which the guard is hooked. What
none of them controls is the rest of the machine: an editor over the sources or a capsule,
a package manager over the installed files, a program that ignores the lock.

What makes the core correct: no provider call is repeated after one that may have been
delivered; every call is announced before it is made; raw rows are evidence of calls;
calls walk the plan; a crash at any step leaves ledgers that the acceptor accepts and a
resume can repair; a settled capsule stays settled; an operation ends and frees the lock.

## Modules

`CapsuleJournal` is the core. A ledger is a sequence of committed rows and a flag for a torn
fragment after the last newline (`journal.py:_rows`, tail bytes). A row keeps the fields
that recovery and the acceptor read: kind, operation, whether it is a recovered row, plan
ordinal, attempt number, call sequence. Identifiers that the code derives from these
(attempt ids, event ids, hashes) are left out: they are equal exactly when the fields are.
An operation is one invocation of `resume_capsule`; its `pc` names the point in
`_resume_capsule`, `_resume_locked` and `_execute_provider_ready`:

| pc | code | actions that leave it |
|---|---|---|
| `new` | before `try_acquire_mutator_lock` | `AcquireLock` (or busy) |
| `locked` | `_make_mutator_session_v1`, `plan_recovery_v1` | `PlanRecovery` |
| `planned` | `_capture_runtime_authority` | `RefuseRuntime`, `BeginRepair` |
| `recovering` | `_apply_recovery_plan_v1` | `TruncateEvents`, `TruncateRaw`, `AppendRecovered`, `FinishRepair` |
| `ready` | start of `_execute_provider_ready` | `StartExecution` |
| `epoch` | guard, checkpoints, `_bind_provider` | `BindProvider`, `Block`, `Interrupt` |
| `item` | top of the attempt loop | `StartRequest`, `Interrupt` |
| `started` | checkpoint after the durable start | `CallProvider`, `LeaveAmbiguous` |
| `calling` | `binding.provider.generate` | `ProviderReturns` |
| `answered` | checkpoints, normalization, decision | `RecordAttempt`, `LeaveAmbiguous` |
| `recorded` | after the raw row | `FinishRequest` |
| `finished` | after `request_finished` | `MarkStop`, `NextItem`, `Backoff`, `Interrupt` (during the sleep) |
| `completing` | after the loop | `CompleteGeneration` |

`Fail` leaves every running point: the process is killed, a `KeyboardInterrupt` escapes, or
a check raises. All of it that survives is the ledgers. An append either commits, or fails
with none, a fragment, or all of the row in the file and ends the operation, because the
transaction is poisoned. `calls` is what the provider saw, with what the program learnt of
each call; it is not state of the program.

`AttemptDecision` is the decision table that journal and adapters share: from the
certainty and fault of an attempt and its number to a terminal reason or a retry
(`_attempt_decision`), and what the program has learnt of the call (`Learnt`).

`CapsuleHistory` holds the two streaming acceptors of `history.py` as functions of the number
of rows read:
`_validate_event_ledger_v1` (grammar of one ledger), `_validate_history_v1` (both), the
recovery requirements and `derive_lifecycle_v1`. `CapsuleJournal` uses direct definitions
of the same facts (last start, its raw row); `HistoryAccepted`
says that nothing reachable is rejected and that the two agree on it.

`GenerationContract` is the abstract specification: an item is pending, asked, resolved,
uncertain or unauthorized; items are asked one at a time in plan order, again only after a
refusal and within the retry limit. `MCCapsuleContract` gives the refinement mapping from
the ledgers.

`CapsuleDurability` adds what is on stable storage: for each ledger the number of rows known
to be synced, and a power loss that keeps any prefix containing them.

`CapsuleCapacity` composes `CapsuleJournal` with the byte limit: the same actions, with the
bytes of the ledgers, the reserve of the epoch (`_CapacityBudget`: 4 event rows and a raw row
for an attempt, 2 more for the epoch), the check before an epoch and before each attempt,
and `plan_recovery_v1`'s room for up to two crashes of the repair and a later seal request.
Rows have symbolic sizes up to the reserve; truncation gives a fragment's bytes back, so
only complete rows are counted.

`CapsulePublication` is a results root. A preparation (`prepare_capsule`, `OwnedStaging`) goes
through `creating`, `staged`, `probed`, `locked`, `written`, `treeSynced`, `marked`, `ready`,
`renamed`, `published`, `visible`, `verified`; before `published` a failure runs the cleanup,
after it the capsule stays (`post_publish`). `at` is the directory's name, `has` its parts
(lock file, artifacts, completion marker), `synced` and `kept` the same on stable storage.
`Open`, `TryMutatorLock`, `BeginPreflight`, `Preflight`, `BindRoot`, `OpenSession`, `Revalidate`,
`AppendRow` are a resume up to its ledgers, `TrySharedLock`, `BeginVerify`, `EndVerify` a
verification. A resume compares the whole identity of the results root, times included, with
what it was when the resume bound it; a verification only which directory it is. `changes` counts
the entries each actor makes, renames or removes there and stands for that identity. So a
preparation or a probe beside a resume does cost it its session (`unstable`, or at a call
boundary a runtime that is said to differ); `NoFalseAlarm` says that nothing else does. The creator lock and
the capsule's lock of a preparation are released in one step.

`IdentityRegistry` is `ExactIdentityRegistry`: the slots of the scratch file in all regions,
lookups by linear probing, migration to a region twice as large, scans, and the answers to
`declare_core` and `declare_seal`. The keyed digest is any function into `Hashes`. `Damage`
overwrites or erases a record from outside; a record authenticates only in its own slot.

`ProviderDelivery` follows one call from what the SDK raised or returned to the decision:
exception classes with their bases and status (`_classify_api_error`), response shapes
(`_parse_response`), `normalize_provider_outcome`, `AttemptDecision`. Whether the provider
carried the request out is `carriedOut`; the one thing assumed of it is that a request
answered by a 4xx other than 408, or never sent for want of a key, was not carried out.

`LegacyRunner` is `run_to_jsonl`: `Begin` is the validation of committed rows and the resume
positions derived from them, `Recover` the dropping of a torn tail, then `TakeItem`, `Call`,
`Answer`, `AppendAttempt`, `AfterAppend`; `Die` at any place. The `run` command always makes
a new directory, so a second invocation on one file happens through the function. Two model
names may be returned only where the adapter does not check the name. Rows are written as one
line each (`_append_attempt`) and read back with `splitlines()` (`_parse_raw_attempts`), which also
splits at U+0085, U+2028 and U+2029; JSON leaves these as they are, so an answer that has one
(`breaks`) makes a row that no later invocation, and no score, accepts.

`ScorePublication` is `_publish_score_output`, its cleanup and `_report`: `mkdir` takes the
name, two renames fill it, `known` is what the cleanup may undo. An interrupt between an
effect and its record may leave the name taken (`spoilt`). Power loss is not modelled, so
the syncs only matter as steps that may fail.

`JournalBinding` is below the journal: the two ledger files as inodes and names, with stamps
of a coarse clock. `_snapshot_journal_pair`, `open_journal_transaction`, `_append_framed`,
the session of `recovery.py` and its revalidation are sequences of looks at the file system
(`todo`): a look at a path, a descriptor, a row, the directories either binds a new
identity or must repeat the one its side is bound to. A session and its revalidation look at the
capsule's directory and at the results root it stands in (`_validate_verified_root_binding`).
`Edit` is a program that ignores the lock and rewrites a ledger in place or saves another under
its name; `Beside` is a preparation, or a resume of another capsule, that makes or removes an entry
of the results root. A session it costs is `refused` as "neighbour"; the code reports it like any
unstable snapshot. `accepted` holds the
pairs an operation has accepted, `held` those the two names have led to since it began.

`CapsuleEvidence` follows the bytes: authored sources are read one by one beside an editor
(`CaptureInput`; cases, replay and protocols share one snapshot of a source, a member of an arm
is read for itself), everything in the capsule is derived from what was
read (`Prepare`, which the runner's own bytes may stop), and verification reads the capsule file by file beside another editor
(`Load`), derives every document anew, and reads the ledgers and the root again at the end.
A file is the version of its bytes, its size and the digests it states; `Derived` says which
document states which digests. An editor may also derive documents anew.

`CapsulePlanning` has the rules of the case index twice, as the code does: `IsMaterialized`
over captured files (`materialize_case_index`), `ReadRow` over given rows
(`_validate_case_index_cross_rows`). `PlanBlock` appends one block of `materialize_plan`,
with its arms in any order. Digests are the tuples they are made of.

`DependencyClosure` is the work list of `capture_dependency_closure`: `Visit` takes a
distribution from the queue with the contexts it was not yet tried in, and its requirements
ask for others and for extras of others.

`RuntimeProvenance` is the code a session runs. Each phase (`Authority`, `Checkpoint`) is a
sequence of steps over the installed files: read, look again, adopt into the policy, compare
with the capsule, check an owned identity, check the import state. `FindSpec`, `BeginModule`,
`ExecuteModule` and `EndModule` are one import through audit hook, guard and loader: a source is
executed from the captured bytes, an extension from the file. `Install` is others, at any step;
`ChangeHooks` is code of the provider or of an import. The audit hook sees what raises the
`import` event: import statements, names of submodules in them, and `__import__` do;
`importlib.import_module` raises none. So a finder that code puts in before the guard can answer
such an import, and be taken out again before the next checkpoint (`Audit`, `Finder`);
`EndForeignModule` leaves its module in `sys.modules` as what it is, which a checkpoint sees, or
with the spec of a file of its name, or not at all. The design document says "A provider/SDK therefore
cannot remove or precede the guard and then lazy load uncommitted code before the next post-call
check", and then that this is no sandbox; what holds is `GuardRunsRecordedCode`.

`OutputSanitizer` is `sanitize_output`: one search per credential, their occurrences merged
by a heap, the output emitted in batches that are retained while they fit. `Replaced` is the
other implementation, `_replace_patterns`, for diagnostics.

`ExploratoryRun` is both exploratory tools: `Reserve` writes a reservation before `Call`,
`Terminal` settles it or leaves it outstanding, `JudgePlan` plans the judgments of the
comparison, `Paired` and `Coverage` its report. `charged` is what the provider charged,
whether the tool learnt of it or not.

Modules whose parts share no state are checked in one run each, by a module that runs one of
them per behaviour: `MCVerification` (binding and registry), `MCProducer` (planning, closure,
runtime, sanitizer), `MCEvaluation` (legacy runner, score, exploratory tools). Their unused
variables are constant.

The theorems are in modules of their own. `CapsuleJournalProofs` is about the journal;
`CapsuleDurabilityProofs` (repair, history acceptors, power loss) and `CapsuleRefinementProofs`
(the contract and the byte limit) rest on it. `CapsulePublicationProofs` and
`CapsuleEvidenceProofs` are about the component of their name, `VerificationProofs` about the
two of `MCVerification`, `EvaluationProofs` about the three of `MCEvaluation`, and
`ProducerProofs` about `ProviderDelivery` and the four of `MCProducer`.

## Runs

| Run | Instance | Checks |
|---|---|---|
| `journal` | 2 operations, 2 items, 1 retry, weak fairness | `NoCallAfterPossibleDelivery`, `LedgersTellTheCalls`, `PlanIsFollowed`, `SettledIsForever`; `ImplementsContract`; `LockIsReleased` |
| `durability` | 3 operations (symmetric), 1 item, 1 retry, 1 power loss | `RepairSucceeds`, `HistoryAccepted` while no power is lost (a repair dies, and the repair of that repair dies); `SafeAfterPowerLoss` |
| `finish_durable` | 2 operations, 1 item, 1 power loss | violated: see below |
| `capacity` | 3 operations, 2 items, 1 retry, event rows as large as the reserve or a quarter of it, 3 headrooms | `EpochCanEnd`, `RepairFits` |
| `publication` | 2 preparations, 2 run ids, 1 resume, 1 verification, 1 power loss | `PublishedIsWhole`, `NeverReplaced`, `SessionsAreDurable`, `NoFalseAlarm` |
| `publication_liveness` | 2 preparations, 1 power loss, weak fairness | `PreparationsEnd` |
| `evidence` | 4 inputs from 2 sources, 2 sizes, 1 edit of a source, 2 edits of the capsule | `OneContentPerSource`, `ValidMeansOneTree`, `CapsulePinsTheTree`, `UntouchedIsValid` |
| `verification` | binding: ledgers of 2 and 0 rows, 3 operations, 2 changes from outside, 2 ticks; registry: 5 values, 2 digest images, 2 migrations, 1 damage | `AcceptedPairExisted`, `QuietFilesAreAccepted`; `AnswersAreExact` |
| `producer` | closure: 2 distributions, 2 extras, 3 requirements; runtime: 3 files in 2 packages, 2 changes; planning: 2 files, 2 datasets, 3 arms, 2 repetitions; outputs: 7 characters, 2 credentials of up to 3 | `DependenciesAreExact`; `GuardRunsRecordedCode`, `OneInstallation`; `PlanIsSound`; `RedactionsAgree` |
| `provider_delivery` | every exception, status and response shape, 3 retries | `RepeatedWithoutEffect`, `StopIsWarranted` |
| `provider_denied` | the same, 1 retry | violated: see below |
| `evaluation` | legacy: 3 invocations, 2 items, 2 retries, 2 model names; score: 3 commands, 1 report; exploratory: 3 items, one pair, rates that round | `LegacyRunsAddUp`, `NoCallWhenSettled`; `ScoresStayWhole`, `GateIsReported`; `LedgerBoundsCharges`, `NoAnswerIsTooDear`, `OneUnknownAtMost`, `NoPairIsMissing` |

Bounds. Two items give a next and a last item; one retry gives a first, a last and an
exhausted attempt; two operations let one continue after the other at every point, and
overlap at the lock; three let a repair be interrupted and repaired again, and a third run
the provider afterwards. Nothing else of the journal is bounded. Deadlock is not an error where
operations return: when every one has, the system has stopped.

The other bounds: the headrooms of `capacity` are the least an epoch accepts, one that a
second attempt meets exactly, and plenty, so that every check is met exactly, missed by one
and passed. `MaxLosses = 1`: after a power loss
the disk is what a fresh start finds, and a preparation runs only once. `MaxAppends = 1`
lets a verification see the ledgers before and after a change. `MaxRuns = 3` allows the
resume of a resume. Five values from a table of four slots force two migrations with
colliding and wrapping probes (`Hashes` 3 and 12 start at the last and the first slot and
part at the second migration). One damage is what a count can still miss by one; that two
opposite damages are not missed either is shown by the proof, for any number of them. Three scorers let one fail, one finish and one be late.
Three retries give every sequence of three answers before a last one.

Of `evidence`: a case file and a member of an arm that protocols name as well are the sources with
two roles; sizes 1 and 2, and a runner of 1, under limits of 2, 3 and 6 meet every limit and miss it
by one; two edits of the capsule
change a file and derive a document anew, or change a file and change it back. Of
`verification`: two rows let a pass see an edit between its rows, three operations are a
session, an append and a revalidation, two edits within one tick restore what was there, and
an edit and a change beside the capsule can be told apart.
(With four edits in one tick, found while proving, the pair that is accepted need not have
stood exactly so at any moment: one file may have been longer when the other was as read. So
`AcceptedPairExisted` speaks of what the two ledgers began with.)
Of `producer`: the second distribution asks for an extra of the first, which has been visited
by then; two changes replace a file and put it back; three records allow every conflict of
two rows after a legal one, 18 plan rows are met exactly and exceeded by the token limit, which
is the lower one; seven characters of one and two bytes hold two overlapping occurrences, and
8 retained bytes are met exactly by some outputs and passed by others in mid-batch. Of
`evaluation`: a unit of 2 with rates of 1 rounds every component up, and a budget of 24
suffices for three generations and not for all judgments.

Fairness (`journal`, `publication_liveness`) is weak fairness of each operation's
own steps: an operation is a single thread that runs on unless it dies, its system calls
end, and a provider call ends by its timeout if not before. Repair loops, retries and the
wait for the creator lock need nothing more. `Fail`, `Die` and `PowerLoss` are not fair:
nothing need fail.

`RepairFits` rests on event rows that are much smaller than the reserve of 1 MiB for the
largest one. Each crash of a repair may leave an audit row, which the room for two crashes
covers only by that difference; so the property speaks of rows of at most a quarter of the
reserve, one of which for each operation fits the reserve too. With rows of a kilobyte that is
a thousand operations; with 3 operations, as in the run, the quarter says more.

`finish_durable` shows a disagreement with the design document, section 11: "After the
provider returns, the runner appends and fsyncs the raw attempt, then appends and fsyncs
`request_finished`." A process that dies between the write and the fsync of the raw row (or
whose fsync fails) leaves a complete row that the next resume reads, accepts, and builds a
recovered `request_finished` on; that row is fsynced but `raw.jsonl` is not, since opening a
ledger does not sync it. A later power loss may then keep the finish without its raw row, a
history the acceptor rejects for good. No call is repeated by it (`durability`).

`provider_denied` shows a disagreement with the same document, line 676: "A provider-returned
authentication error is recorded, stops before later plan items". A 401 whose request or
response identifier may not be stored is normalized to the constant error
`unsafe_provider_metadata`, a permanent one of certainty `definitely_rejected`; the item ends
as `provider_rejected` and the run goes on to the next item. With identifiers that can be
stored the run stops.

## Proofs

`CapsuleJournalProofs` assumes what `CapsuleJournal` assumes: the free lock is no operation,
the plan is not empty, the retry limit is natural. Any number of operations, items and
retries is covered.

The safety properties are not inductive: that a call is not repeated rests on the start row
written before it, on what the ledgers say of the last start, and on the position in
memory. The inductive invariant `IInv` is

- `TypeOK` and `SingleMutator`;
- `LedgerInv`, about ledgers and calls alone: the last start announces the last call or the
  next one, the raw rows reach up to it or miss exactly it (`StartIsCurrent`), an item
  before the position has a resolving row, calls ascend, plus the properties themselves;
- `MemoryInv(op)`, what the lock's holder knows at each `pc`: its plan holds only rows the
  ledgers owe, its position is the next one, its start is the open one, its answer is the
  one the provider gave, and the next call may be asked.

`Init => IInv`, and one lemma per action shows that it keeps `IInv`; lemmas on `Last`
(position of the last row of a kind) say what an append changes. Then `Inductive`, and from
it `TypeCorrect`, `OneMutator`, `NoRepeatedDelivery`, `CallsAreTold` (that is `LedgersTellTheCalls`), `OnePlan`
(`PlanIsFollowed`), and their parts `WriteAhead` and `PlanOrder` by themselves.

`CapsuleDurabilityProofs` extends that invariant by what a repair relies on (`RepairInv`):
nothing follows a terminal row, and while a repair goes on, the rest of its plan is what a
repair planned now would do (`TodoRemains`); that gives `RepairsSucceed`. The acceptors read
one row after another, so the part on history has, for each kind of row, the state that an
acceptor is in after it, and goes by induction over the rows: were one not accepted, there
would be a first (`LeastNatural`), and the rows before it leave the acceptor in a state that
takes it. `HistoryIsAccepted` follows, and with it that the acceptors derive what resumes
compute directly. For power loss, `Surviving` is the part of the journal's invariant that a lost
suffix leaves alone: starts and calls ascend, and every call made is announced in what is
synced. The rest of the invariant follows anew for any pair that the acceptor takes
(`AcceptedLedgers`), and no operation goes on with another; so `SafeThroughPowerLoss` holds for
any number of losses.

The first part of `ProducerProofs` proves `NoRepeatAfterEffect`, that is `RepeatedWithoutEffect`, from
three lemmas: normalization yields evidence of a legal kind, evidence of a definite
rejection comes only from an answer that refuses, and definite evidence means no effect.
It is inductive by itself once these hold: an item is asked again only by `Retry`.
`AmbiguityIsReal` (`StopIsWarranted`) is the converse: an answer that refuses is never
classified as an unknown delivery, so a run that stops over one had reason to.

The first part of `CapsuleRefinementProofs` rests on `IInv` of the journal. `StaysSettled` (`SettledIsForever`)
looks at what the steps of a holder may do: a position in memory exists only while the
ledgers are unsettled, and a repair plan for settled ledgers adds neither start nor end.
`Implements` (`ImplementsContract`) needs `IInv` and one fact more, that the starts of an
item are as many as its attempt number says (`StartsAreCounted`). A start row maps
to `Ask`, a raw row to `Answer`, the completion row to `Close`; all else, a truncation, a
recovered row, a finish, a step in memory, leaves what the mapping shows alone.

Its second part shows that the byte limit only forbids steps (`CapacityRefines`), so
that what is proved of the journal holds under it; in particular only the lock's holder has
a budget. With that `EpochCanEnd`, together with the types of the sizes, is inductive: each
append takes what `Owed` falls by (`BudgetSuffices`). Assumed are positive reserves and rows
no larger than their reserve.

Its third part proves `RepairFits` (`RepairsFit`) for any finite set of operations. That a
repair fits is not inductive: the crash of a repair may leave an audit that the room for two
crashes no longer covers. `RoomInv` says what else is free: of a capsule that nobody holds, the
rows owed now with two or three crashes (`RepairNeed`), and the rows owed with two crashes and
one row for each operation still to come (`RepeatNeed`); of a repair under way, the rest of its
plan with two crashes and those rows; of an epoch, what is left at each place of the room it
started with (`Free`). An operation that starts brings the row its crash may cost. That the rest
of a plan is what the ledgers owe comes from `RepairInv`. Assumed in addition: the reserve for a
raw row is no smaller than that for an event row (`RawRowsAreLarger`: 16 MiB and 1 MiB).

`CapsulePublicationProofs` assumes that actors are distinct (`ActorsAreDistinct`). Its invariant
relates, for each preparation, its place in the code to the name of its directory, to what is
in it and on stable storage, and to its lock (`NameInv`, `ContentInv`, `OwnLockInv`); and for
each visitor, the directory it has open to its lock on it. Shared and exclusive holders
exclude each other. The hard conjunct is that what is published is whole on stable storage
too (`kept[p] = Parts`), which a power loss needs. From it follow `WholeUnderItsName`,
`DurableSessions`, and of every step `NameIsKept`. A second invariant, `RootInv`, is about who
changes the results root: only a preparation that has not published, and a resume before it
binds the root (`WhoChangesTheRoot`). So of what a resume has bound its own entry and its
capsule's preparation's stay as they were, and with the first invariant `FalseAlarmNever`
follows.

`CapsuleEvidenceProofs` is an argument about digests. Versions never come back: a new one is
larger than all before. `Fixed(T, f)` says of a tree `T`, as it was when versions had reached
`f`, that every version below `f` found in the capsule or among the loaded files is `T`'s at
that place. A file states digests older than itself, so from a `capsule.json` of `T` the
digests lead to `T`'s files alone (`OneTree`), and from the prepared one to the prepared
tree (`Pins`). `OneSourceOneContent` is the invariant of the snapshots: what was captured from them is
what they hold, and what an arm read itself is older than the source only if that was edited. For `UntouchedPasses` the budget of
capture is compared with the sums of verification: after every input the budget of a kind is the
sum over the captured files of that kind (`BudgetInv`, from `SumsDiffer`, an induction over the
order of inputs), so the prepared tree is within the limits (`PreparedIsOwn`), and while nobody
edits it what is counted and loaded is that tree (`CountedInv`). Assumed are natural sizes, legal
kinds, an order in which every input is read, and that inputs have other names than documents.

`VerificationProofs` treats an operation of `JournalBinding` as what is left of its sequence of
looks. Each look needs some facts (its side has a descriptor, an identity, a first reading)
and gives some, and in what is left every look finds its needs given (`FactsInv`). The
argument for `AcceptedRowsStood` is that every operation that reads goes once more over both
files together, binds nothing anew from then on, and looks at each name and each descriptor
again (`Compares`). At the start of that pass either both files have begun, at one moment, with
the rows of the first reading (`Witnessed`), or a name or descriptor leads elsewhere (`Strays`),
or a row is gone. Rows and inodes of edits are fresh, so what is gone does not come back: the
pass misses the row, or a later look meets the stray (`Caught`). For `QuietIsAccepted`, the
side that appends knows the size and the rows its own append leaves (`Growing`); that only a session
or its revalidation meets a neighbour, and a later one than it bound, is by the looks in their sequences.

For the registry, a region is sound (`Sound`) if it holds only what was accepted, each value once
and with its tag, and every slot from a value's start to its own is occupied. Looking up then
finds a value or the first empty slot; storing there keeps soundness; migration is
induction over the slots moved. The invariant (`RInv`) is that an open registry is sound and
counts what it holds, or has been damaged and a scan of it fails (`Suspect`): a damage leaves a
record that does not authenticate or fewer records than the count, and no later declaration or
damage mends that. So the scan of a migration or of the closing finds it, which gives
`RegistryAnswersExactly` for any hash function, number of regions and number of damages.

`EvaluationProofs` has three parts. For `ExploratoryRun` it first proves arithmetic: rounding up
costs less than one unit, so three components of an input together cost at most two units more
than the whole input at the dearest rate, and the allowance of the reservation covers them
(`CostFits`). The invariant of the money then gives `ChargesAreCovered` and
`ReservationsSuffice`; that a failure is the last thing asked gives `OneUnknown`; that every
result was sent gives `ReportsArePaired`. Assumed: `ConstantsAreLegal`, for any plan, prices,
bounds and budget.

For `ScorePublication` it has, for each place in `_publish_score_output` and its cleanup, which
of the two files are in the directory, which of them the command knows, and whose the
directory is. Steps of others touch none of it while it is a command's own (`Frame`). The two
theorems, `StayWhole` and `ReportHasItsGate`, follow. Assumed: `CommandsAreLegal`.

For `LegacyRunner`, the rows are in plan order, the attempts of one item follow one another from
the first, and an item is left only after a terminal row (`RowsInv`); hence the validation accepts
them, and the positions it derives are where the rows end (`RunnerInv`). The last call is that
of the last row or of the next one (`CallsInv`); a call whose row is missing when its invocation
ends is counted as cut, so there are at most as many repetitions as cut calls. This gives
`InvocationsAddUp` and `SettledIsNotAsked`. The validation
fails on answers under two model names or one that breaks its row, and on nothing else
(`OnlyAnswersSpoil`). Assumed: `Legacy!ConstantsAreLegal`.

The second part of `ProducerProofs` is about `RuntimeProvenance`. Its invariant (`RuntimeInv`)
says first that a replaced version of a file never comes back: a version read earlier with the
identity the file has now is that file (`Installed`). While a session starts, what is left to do
is a position in `Authority` (`Reached`), which reads and looks again package by package, adopts,
looks at every owned file and only then compares (`AuthorityIs`, from facts about flattened
sequences). So when the files are adopted, either they stood together at that moment, or one of
them is already replaced, and its look is before the comparison (`StartInv`). That gives
`InstalledTogether` (`OneInstallation`). Afterwards, whatever else was executed in the name of a
file belongs to a file still replaced, and until the next checkpoint has looked at that file
nothing else happens (`ExecutedInv`). With a changed import state only an import that raised no
event goes on, past the guard (`ImportInv`), and no stranger gets past a look at the state. That gives
`RecordedUnderGuard` (`GuardRunsRecordedCode`). Assumed is only that
packages are sequences of files, and that what a foreign finder executes is no recorded content.

The third part of `ProducerProofs` is about `CapsulePlanning`. The planner and the materializer
state the rules of the case index differently: one compares a row with those before it, the other
numbers the records of files. Their agreement (`RulesAgree`) rests on an invariant of the rows
read (`IndexInv`): of the files they name, the materializer makes exactly these rows, so they are
in the order of the files, and the last of them is the last of the last file that has any
(`LastRow`). One more row then changes one file, and the index of the changed files ends with that
row exactly if it comes next (`IndexGrows`). The plan's invariant (`PlanInv`) says which block an
entry belongs to, by its position, and that every block but the last is whole; identifiers of
blocks differ because those of the rows do (`BlocksDiffer`), which is also why no index the planner
accepts is refused for a repeated block. Where the execution stops, only the block at that position
may be half done (`PartlyDone`). Together this is `SoundPlan` (`PlanIsSound`). Assumed:
`ConstantsAreLegal` of `CapsulePlanning`.

The fourth part of `ProducerProofs` is about `DependencyClosure`. `Closure` is defined by as many
rounds as there are pairs of a distribution and a context; a set of pairs grows in a round or is
closed, so after them it is the least closed set with the roots (`ClosureIs`). The invariant of
the work list (`ClosureInv`) says that only what the closure has is asked for (`Sound`), that a
distribution asked for more than it was processed with is queued (`Remains`), that what was
processed has what it requires captured or queued, and asked for (`Covered`), and that the
evaluations are at most two for each requirement and context processed (`Considered`). A visit
keeps it requirement by requirement (`WalkInv`, `WalkWhole`). When the queue is empty, what was
processed is therefore closed and has the roots, so it is the closure (`ClosedIsWhole`). This is
`ExactDependencies` (`DependenciesAreExact`). Assumed: `Closure!ConstantsAreLegal`.

The fifth part of `ProducerProofs` is about `OutputSanitizer`, bottom up. What a search has matched
at an offset is the longest beginning of the pattern that ends there (`Longest`); the prefix table
holds the same of the pattern itself (`PrefixLengthsAre`), and so falling back along it loses no
longer match (`SearchGoesOn`). The next occurrence a search returns is therefore the first that
ends at its offset or later (`NextIsFound`). Whatever way a batch cuts the output, what was recorded and
what is buffered are together all that was emitted (`EmitHolds`), and recorded is retained whole
or, past the limit, not at all (`Held`). The scan for diagnostics copies where nothing is selected
and replaces the first pattern that is (`ScanRuns`, `ScanReplaces`). The invariant of the merge
(`MergeInv`) joins them: every search stands at an occurrence or is through (`Stands`) and has not
gone past one that begins at `sourceIndex` or later (`MissesNone`), and the stream holds what some
round of the scan had made at this offset, with the same count (`Keeps`). An occurrence that is
skipped begins inside what was replaced. This is `StreamedAsScanned` (`RedactionsAgree`). Assumed:
`Output!ConstantsAreLegal`; the recursion and the induction these proofs need over texts are
lemmas of the module (`Recursion`, `UpTo`).

## Only model-checked

- Liveness (`LockIsReleased`, `PreparationsEnd`): outside what the prover handles.

## Assumptions

Digests are injective, and a document states the digests its code derives. Every change of an
installed file changes its identity (device, inode, size, times); of a ledger only its size
and content tell two changes within one tick apart. The kernel's lock excludes, rename within a
filesystem is atomic, and what was synced survives a power loss. One thread imports at a
time. Modules imported before the capture are older than the model. Nothing is assumed of what
others do to files, except the bounds named above.

## Not modelled

Of the core: seal requests, which nothing writes at this commit; contents of requests and
answers; limits on rows other than their bytes. Of preparation: the tests by which a filesystem
is supported. Of verification: the shape of each artifact's fields, and diagnostics. Of the
registry: creation and identity checks of the scratch file. Of planning: the text of rows and
the digest that orders arms. Of the closure: markers other than an extra, and the limits on
counts other than evaluations. Of import policy: the analysis of syntax trees, native closures,
site bootstrap and launcher, which decide on text and bytes. Of the sanitizer: local paths,
URLs and metadata in diagnostics, whose rules are about spelling. Record and manifest models,
schemas and encoding have no state; what the modelled parts rely on is in their guards.
Cases, arms, scoring, judging and reporting are statistics over loaded rows: their only
decisions between components (pairing, coverage, the gate) are in `ExploratoryRun` and
`ScorePublication`. Plugin release, prose and data have no behaviour to check.

## Plan

Done, in the order of importance: the journal with its crashes and repairs, its contract and
capacity; publication; provider evidence; durability; the evidence of a capsule and its
verification; the exploratory tools; score and report; planning, closure, runtime and sanitizer.

Left, in this order:

1. Seal requests, when a command writes them: a second lifecycle after `complete`.
2. Scoring and reporting as operators over bounded tables, if their rules come to depend on
   each other beyond pairing and the gate.
