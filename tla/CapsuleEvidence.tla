-------------------------- MODULE CapsuleEvidence --------------------------
(* From authored files to evidence: the sources are read one by one while      *)
(* somebody may edit them, everything a capsule holds is derived from the      *)
(* bytes that were read, and verification later decides from the capsule alone *)
(* whether it still is what was prepared, reading it file by file as well.     *)
(* A file is the version of its bytes, its size and the digests it states; the *)
(* digest of a file is its version.                                            *)
EXTENDS Naturals, Sequences, FiniteSets, Functions, SequencesExt

CONSTANTS
    Order,           \* sequence of the authored inputs, as they are captured
    Kind,            \* [inputs -> "case", "arm", "replay" or "protocol"]
    Locator,         \* [inputs -> the source file it is read from]
    Sizes,           \* of source files
    RunnerSize,      \* of the installed runner, all its files together
    MemberLimit,     \* bytes of one input file, of all cases, arms, protocols or
    KindLimit,       \*   runner files, and of everything captured
    TotalLimit,
    MaxSourceEdits,  \* bounds on what others do to the sources,
    MaxEdits         \*   and to the capsule

Inputs == Range(Order)
Locators == { Locator[i] : i \in Inputs }
OfKind(kind) == { i \in Inputs : Kind[i] = kind }
OfRole(role) == IF role = "runner_source" THEN {"runner"} ELSE OfKind(role)

ASSUME LimitsAreNatural == {MemberLimit, KindLimit, TotalLimit} \subseteq Nat
ASSUME SizesAreNatural == Sizes \cup {RunnerSize} \subseteq Nat
AuthoredKinds == {"case", "arm", "replay", "protocol"}
ASSUME KindsAreKnown == Kind \in [Inputs -> AuthoredKinds]
ASSUME OrderIsASequence ==
    Order \in Seq(Inputs) /\ \A m, n \in DOMAIN Order : Order[m] = Order[n] => m = n

(* _FIXED_FILES, without the lock; the order is that of derivation.            *)
Documents == << "runner_index", "manifest", "index", "environment", "case_index",
                "plan", "capsule", "events", "raw" >>
Journals == {"events", "raw"}
Evidence == Inputs \cup {"runner"}

ASSUME InputsAreNoDocuments ==
    Inputs \cap (Range(Documents) \cup {"runner", "extra"}) = {}

InRoot == {"manifest", "environment", "case_index", "plan", "capsule", "events", "raw"}

(* Whose digests a document states, directly or through datasets and bindings. *)
States(p) ==
    CASE p = "runner_index" -> {"runner"}
      [] p = "manifest"     -> OfKind("case") \cup OfKind("protocol")
      [] p = "index"        -> Evidence \cup {"manifest"}
      [] p = "environment"  -> {"runner_index"}
      [] p = "case_index"   -> OfKind("case")
      [] p = "plan"         -> OfKind("arm") \cup {"manifest", "case_index"}
      [] p \in {"capsule", "events"} ->
            {"runner_index", "manifest", "index", "environment", "case_index", "plan"}
      [] OTHER -> {}

VARIABLES
    sources,    \* [Locators -> [version, size]]
    snapshots,  \* what was read of cases, replay and protocols, by locator
    captured,   \* what was captured, by input
    spent,      \* bytes captured by kind, and in total
    stage,      \* "capture", "prepared", "verify", "valid", "invalid" or "refused"
    tree,       \* the capsule: files by path
    prepared,   \* as it was published
    mode,       \* of verification: "public" or "recover"
    inventory, rootSeen, todo, loaded,
    root,       \* version of the root directory's entries
    trees,      \* what the capsule has been since verification began
    fresh, sourceEdits, edits

capture == <<sources, snapshots, captured, spent, sourceEdits>>
verification == <<mode, inventory, rootSeen, todo, loaded>>
vars == <<capture, stage, tree, prepared, verification, root, trees, fresh, edits>>

None == [none \in {} |-> 0]

Init ==
    /\ \E size \in [Locators -> Sizes] :
          sources = [l \in Locators |-> [version |-> 0, size |-> size[l]]]
    /\ snapshots = None /\ captured = None
    /\ spent = [k \in AuthoredKinds \cup {"runner_source", "total"} |-> 0]
    /\ stage = "capture" /\ tree = None /\ prepared = None
    /\ mode = "public" /\ inventory = None /\ rootSeen = 0 /\ todo = <<>> /\ loaded = None
    /\ root = 0 /\ trees = {} /\ fresh = 1 /\ sourceEdits = 0 /\ edits = 0

-----------------------------------------------------------------------------
(* Capture *)

Aggregated == {"case", "arm", "protocol", "runner_source"}

(* _CaptureBudget: what is read is charged before it is taken.                 *)
Fits(kind, bytes) ==
    /\ bytes <= MemberLimit /\ spent["total"] + bytes <= TotalLimit
    /\ kind \in Aggregated => spent[kind] + bytes <= KindLimit
Charged(kind, bytes) ==
    [spent EXCEPT ![kind] = @ + bytes, !["total"] = @ + bytes]

Place(f, k, v) == [x \in DOMAIN f \cup {k} |-> IF x = k THEN v ELSE f[x]]

(* Variant: every input is read for itself.                                    *)
ReadAgain(i) == sources[Locator[i]]

(* _capture_arms reads a member for itself.  _capture_locator reads a locator  *)
(* once, whatever it is captured as; the budget is charged for each.           *)
Shared(i) == Kind[i] # "arm"
Snapped(i) == Shared(i) /\ Locator[i] \in DOMAIN snapshots

Read(i) == IF Snapped(i) THEN snapshots[Locator[i]] ELSE sources[Locator[i]]

Kept(i, data) == IF Shared(i) THEN Place(snapshots, Locator[i], data) ELSE snapshots

(* Variant: what was read before is not charged again.                         *)
CaptureInputFree(i) ==
    /\ stage = "capture" /\ Cardinality(DOMAIN captured) < Len(Order)
    /\ i = Order[Cardinality(DOMAIN captured) + 1]
    /\ LET data == Read(i)
           cost == IF Snapped(i) THEN 0 ELSE data.size
       IN  IF Fits(Kind[i], cost)
              THEN /\ captured' = Place(captured, i, data)
                   /\ snapshots' = Kept(i, data)
                   /\ spent' = Charged(Kind[i], cost)
                   /\ UNCHANGED stage
              ELSE stage' = "refused" /\ UNCHANGED <<captured, snapshots, spent>>
    /\ UNCHANGED <<sources, sourceEdits, tree, prepared, verification, root, trees, fresh, edits>>

CaptureInput(i) ==
    /\ stage = "capture" /\ Cardinality(DOMAIN captured) < Len(Order)
    /\ i = Order[Cardinality(DOMAIN captured) + 1]
    /\ LET data == Read(i)
       IN  IF Fits(Kind[i], data.size)
              THEN /\ captured' = Place(captured, i, data)
                   /\ snapshots' = Kept(i, data)
                   /\ spent' = Charged(Kind[i], data.size)
                   /\ UNCHANGED stage
              ELSE stage' = "refused" /\ UNCHANGED <<captured, snapshots, spent>>
    /\ UNCHANGED <<sources, sourceEdits, tree, prepared, verification, root, trees, fresh, edits>>

(* A source is edited between two reads; during one, its identity differs and  *)
(* the preparation ends.                                                       *)
EditSource(l) ==
    /\ stage = "capture" /\ sourceEdits < MaxSourceEdits
    /\ sourceEdits' = sourceEdits + 1
    /\ \E size \in Sizes : sources' = [sources EXCEPT ![l] = [version |-> fresh, size |-> size]]
    /\ fresh' = fresh + 1
    /\ stage' \in {"capture", "refused"}
    /\ UNCHANGED <<snapshots, captured, spent, tree, prepared, verification, root, trees, edits>>

-----------------------------------------------------------------------------
(* Derivation: every document is computed from captured bytes and from the     *)
(* documents before it.                                                        *)
Derived(p, files, version) ==
    [ version |-> version, size |-> 1,
      states |-> [q \in States(p) |-> files[q].version], sound |-> TRUE ]

InputFile(content) ==
    [version |-> content.version, size |-> content.size, states |-> None, sound |-> TRUE]

(* _build_artifacts: each document is a new file.                              *)
BuiltArtifacts ==
    LET position(p) == CHOOSE n \in DOMAIN Documents : Documents[n] = p
        files == [ p \in Evidence \cup Range(Documents) |->
                     IF p = "runner" THEN [version |-> 0, size |-> RunnerSize]
                     ELSE IF p \in Inputs THEN captured[p]
                     ELSE [version |-> fresh + position(p), size |-> 1] ]
    IN  [ p \in DOMAIN files |->
            IF p \in Evidence THEN InputFile(files[p])
            ELSE Derived(p, files, files[p].version) ]

(* capture_runner_source is told what the authored inputs have spent.          *)
RunnerFits == Fits("runner_source", RunnerSize)

Prepare ==
    /\ stage = "capture" /\ Cardinality(DOMAIN captured) = Len(Order)
    /\ IF RunnerFits
          THEN /\ tree' = BuiltArtifacts /\ prepared' = BuiltArtifacts
               /\ fresh' = fresh + Len(Documents) + 1
               /\ stage' = "prepared"
          ELSE stage' = "refused" /\ UNCHANGED <<tree, prepared, fresh>>
    /\ UNCHANGED <<capture, verification, root, trees, edits>>

-----------------------------------------------------------------------------
(* Verification *)

(* _scan_inventory                                                             *)
BeginVerify ==
    /\ stage = "prepared" /\ stage' = "verify"
    /\ mode' \in {"public", "recover"}
    /\ inventory' = tree /\ rootSeen' = root /\ trees' = {tree}
    /\ todo' = << "capsule", "environment", "index", "runner_index", "manifest" >>
                 \o Order \o << "runner", "case_index", "plan", "events", "raw" >>
    /\ loaded' = None
    /\ UNCHANGED <<capture, tree, prepared, root, fresh, edits>>

(* Bytes of those of ps among the runner and the first n inputs.               *)
SizeIn(files, ps, p) == IF p \in ps \cap DOMAIN files THEN files[p].size ELSE 0
Sums(files, ps) ==
    LET sum[n \in 0 .. Len(Order)] ==
            IF n = 0 THEN SizeIn(files, ps, "runner")
            ELSE sum[n - 1] + SizeIn(files, ps, Order[n])
    IN  sum

(* _resource_checks: sizes are those of the inventory, captured inputs by role. *)
SizeOf(ps) == Sums(inventory, ps)[Len(Order)]
ResourcesFit ==
    /\ \A p \in Evidence \cap DOMAIN inventory : inventory[p].size <= MemberLimit
    /\ \A role \in Aggregated : SizeOf(OfRole(role)) <= KindLimit
    /\ SizeOf(Evidence) <= TotalLimit

(* The checks on what has been loaded; each is made once its files are there,  *)
(* and one that fails makes the verdict.                                       *)
Have(files, ps) == ps \subseteq DOMAIN files
Stated(files, p, q) == Have(files, {p, q}) => files[p].states[q] = files[q].version
StatedAlike(files, p, q, ps) ==
    Have(files, {p, q}) => \A x \in ps : files[p].states[x] = files[q].states[x]

(* Variant: the environment is only compared with the rest of the capsule.     *)
CapsuleDigestsPartly(files) ==
    \A p \in {"index", "manifest", "runner_index", "case_index", "plan"} :
        Stated(files, "capsule", p)

CapsuleDigests(files) ==
    \A p \in {"environment", "index", "manifest", "runner_index", "case_index", "plan"} :
        Stated(files, "capsule", p)

(* _exact_tree: what the index lists, and nothing else.                        *)
ExactTree(files) ==
    Have(files, {"index"}) =>
        DOMAIN inventory = Range(Documents) \cup (DOMAIN files["index"].states \ {"manifest"})

ManifestCoverage(files) ==
    StatedAlike(files, "manifest", "index", OfKind("protocol") \cup OfKind("case"))

RunnerIndex(files) == StatedAlike(files, "runner_index", "index", {"runner"})
EnvironmentMatches(files) == StatedAlike(files, "environment", "capsule", {"runner_index"})
InputBytes(files) ==
    \A p \in Evidence \cup {"manifest"} : Stated(files, "index", p)

(* validate_case_index and validate_plan derive the document again.            *)
DerivedAgain(files, p) ==
    Have(files, {p}) => files[p].sound /\ \A q \in States(p) : Stated(files, p, q)

(* Variant: a ledger is not compared with the inventory.                       *)
JournalsRead(files) == TRUE

PreparedEvent(files) == StatedAlike(files, "events", "capsule", States("capsule"))
JournalsUnmoved(files) == \A p \in Journals : Have(files, {p}) => files[p] = inventory[p]

Coherent(files) ==
    /\ CapsuleDigests(files) /\ ExactTree(files) /\ ManifestCoverage(files)
    /\ RunnerIndex(files) /\ EnvironmentMatches(files) /\ InputBytes(files)
    /\ DerivedAgain(files, "case_index") /\ DerivedAgain(files, "plan")
    /\ PreparedEvent(files) /\ JournalsUnmoved(files)

Load(p) ==
    /\ stage = "verify" /\ todo # <<>> /\ p = Head(todo)
    /\ todo' = Tail(todo)
    /\ IF p \in DOMAIN tree \cap DOMAIN inventory
          THEN /\ loaded' = Place(loaded, p, tree[p])
               /\ stage' = IF Coherent(loaded') /\ ResourcesFit THEN stage ELSE "invalid"
          ELSE stage' = "invalid" /\ UNCHANGED loaded
    /\ UNCHANGED <<capture, tree, prepared, mode, inventory, rootSeen, root, trees, fresh, edits>>

(* The root is the one that was scanned; a session that will write scans the   *)
(* whole tree again.                                                           *)
SameAtTheEnd ==
    /\ root = rootSeen
    /\ mode = "recover" => tree = inventory

Conclude ==
    /\ stage = "verify" /\ todo = <<>>
    /\ stage' = IF SameAtTheEnd THEN "valid" ELSE "invalid"
    /\ UNCHANGED <<capture, tree, prepared, verification, root, trees, fresh, edits>>

-----------------------------------------------------------------------------
(* Others change the capsule: bytes of a file, a document derived again from   *)
(* what is there now, a file removed or added.  No version ever comes back.    *)
Changed(p) ==
    { [tree[p] EXCEPT !.version = fresh, !.sound = FALSE, !.size = size] :
          size \in {tree[p].size} \cup {tree[p].size + 1 : i \in Inputs \cap {p}} }
        \cup IF p \in Range(Documents) /\ Have(tree, States(p))
                THEN {Derived(p, tree, fresh)} ELSE {}

EditCapsule ==
    /\ stage \in {"prepared", "verify"} /\ edits < MaxEdits
    /\ edits' = edits + 1 /\ fresh' = fresh + 1
    /\ \/ \E p \in DOMAIN tree : \E file \in Changed(p) :
             tree' = [tree EXCEPT ![p] = file] /\ UNCHANGED root
       \/ \E p \in DOMAIN tree :
             /\ tree' = Restrict(tree, DOMAIN tree \ {p})
             /\ root' = IF p \in InRoot THEN fresh ELSE root
       \/ /\ tree' = Place(tree, "extra", InputFile([version |-> fresh, size |-> 1]))
          /\ UNCHANGED root
    /\ trees' = IF stage = "verify" THEN trees \cup {tree'} ELSE trees
    /\ UNCHANGED <<capture, stage, prepared, verification>>

Next ==
    \/ \E i \in Inputs : CaptureInput(i)
    \/ \E l \in Locators : EditSource(l)
    \/ Prepare \/ BeginVerify
    \/ \E p \in Evidence \cup Range(Documents) : Load(p)
    \/ Conclude
    \/ EditCapsule

Spec == Init /\ [][Next]_vars

-----------------------------------------------------------------------------
(* A source that serves two roles gives both the same bytes, even if it is     *)
(* edited between the two: cases and the protocol that binds them cannot       *)
(* disagree about one file.  A member of an arm is read for itself, and may    *)
(* disagree with a protocol that binds its file, but only if that very file    *)
(* was edited while the inputs were captured.                                  *)
OneContentPerSource ==
    \A i, j \in DOMAIN captured : Locator[i] = Locator[j] /\ captured[i] # captured[j] =>
        /\ "arm" \in {Kind[i], Kind[j]}
        /\ sources[Locator[i]].version > 0

(* What verification calls valid stood in the capsule at one moment since it   *)
(* began, though it reads one file after another while others edit them.       *)
ValidMeansOneTree ==
    stage = "valid" => \E whole \in trees :
        \A p \in DOMAIN loaded : p \in DOMAIN whole /\ whole[p] = loaded[p]

(* capsule.json pins the capsule: if that file is the prepared one and the     *)
(* verdict is valid, every other file but the ledgers' later rows is too,      *)
(* whatever was changed, derived again, removed or added, and when.            *)
CapsulePinsTheTree ==
    stage = "valid" /\ loaded["capsule"] = prepared["capsule"] =>
        /\ DOMAIN loaded = DOMAIN prepared
        /\ \A p \in DOMAIN loaded \ Journals : loaded[p] = prepared[p]

(* A capsule nobody touched is valid: what capture accepts, however its        *)
(* sources were edited meanwhile, is within the limits and the digests that    *)
(* verification applies to it.                                                 *)
UntouchedIsValid == edits = 0 => stage # "invalid"
=============================================================================
