----------------------- MODULE CapsuleEvidenceProofs -----------------------
(* Theorems about CapsuleEvidence for any inputs, sizes, limits and numbers of *)
(* edits.  The invariant says of a tree T, fixed when versions had reached f,  *)
(* that a version below f found later at a place is still T's file there.      *)
EXTENDS CapsuleEvidence, FiniteSetTheorems, WellFoundedInduction, TLAPS

-----------------------------------------------------------------------------
(* Types *)

Everything == Evidence \cup Range(Documents)
Content == [version : Nat, size : Nat]
File(p) == [version : Nat, size : Nat, states : [States(p) -> Nat], sound : BOOLEAN]

First(n) == { Order[k] : k \in 1 .. n }

(* A file, and all it states, is older than f.                                 *)
Older(file, p, f) ==
    /\ file \in File(p) /\ file.version < f
    /\ \A q \in States(p) : file.states[q] < f

TreeInv == \A p \in DOMAIN tree : Older(tree[p], p, fresh)

(* Inputs are captured in order, each but an arm's as its source was first     *)
(* read; what has not been edited is what was read of it.                      *)
Unedited(l) == sources[l].version = 0

CaptureInv ==
    /\ fresh \in Nat \ {0}
    /\ sources \in [Locators -> Content]
    /\ \A l \in Locators : sources[l].version < fresh
    /\ \A l \in DOMAIN snapshots : snapshots[l] \in Content /\ snapshots[l].version < fresh
    /\ \A l \in DOMAIN snapshots : l \in Locators /\ (Unedited(l) => snapshots[l] = sources[l])
    /\ \A i \in DOMAIN captured :
          /\ captured[i] \in Content /\ captured[i].version < fresh
          /\ Unedited(Locator[i]) => captured[i] = sources[Locator[i]]
          /\ Shared(i) => Locator[i] \in DOMAIN snapshots /\ captured[i] = snapshots[Locator[i]]
    /\ IsFiniteSet(DOMAIN captured) /\ Cardinality(DOMAIN captured) <= Len(Order)
    /\ DOMAIN captured = First(Cardinality(DOMAIN captured))

(* T was the capsule when the next version was f.                              *)
Fixed(T, f) ==
    /\ f \in Nat /\ f <= fresh
    /\ \A p \in DOMAIN T : Older(T[p], p, f)
    /\ \A p \in DOMAIN tree : tree[p].version < f => p \in DOMAIN T /\ tree[p] = T[p]
    /\ \A p \in DOMAIN loaded : loaded[p].version < f => p \in DOMAIN T /\ loaded[p] = T[p]

PreparedInv ==
    stage \notin {"capture", "refused"} =>
        DOMAIN prepared = Everything /\ \E f \in Nat : Fixed(prepared, f)

(* Verification loads capsule.json first; the tree of that moment is the one   *)
(* it decides about.                                                           *)
AnchorInv ==
    DOMAIN loaded # {} =>
        \E T \in trees, f \in Nat :
           /\ Fixed(T, f)
           /\ "capsule" \in DOMAIN T \cap DOMAIN loaded /\ loaded["capsule"] = T["capsule"]
           /\ \A p \in DOMAIN inventory : inventory[p].version < f

VerifyInv ==
    /\ stage = "verify" =>
          /\ tree \in trees
          /\ \A p \in DOMAIN inventory :
                inventory[p].version \in Nat /\ inventory[p].version < fresh
          /\ todo \in Seq(Everything)
          /\ DOMAIN loaded = {} => todo # <<>> /\ Head(todo) = "capsule"
          /\ \A n \in 1 .. Len(todo) : todo[n] = "capsule" => n = 1 /\ DOMAIN loaded = {}
          /\ \A p \in Everything \ DOMAIN loaded : \E n \in 1 .. Len(todo) : todo[n] = p
    /\ stage = "capture" => DOMAIN loaded = {}
    /\ stage = "valid" => Everything \subseteq DOMAIN loaded
    /\ stage \in {"verify", "valid"} =>
          /\ DOMAIN loaded \subseteq DOMAIN inventory \cap Everything
          /\ DOMAIN loaded # {} => Coherent(loaded)
          /\ AnchorInv

IInv == TreeInv /\ CaptureInv /\ PreparedInv /\ VerifyInv

-----------------------------------------------------------------------------
(* Lemmas *)

LEMMA EvidenceStatesNothing ==
    ASSUME NEW p \in Evidence \cup {"extra"}
    PROVE  States(p) = {}
<1>1. p \notin {"runner_index", "manifest", "index", "environment", "case_index", "plan",
                "capsule", "events"}
  BY InputsAreNoDocuments DEF Evidence, Range, Documents
<1>. QED
  BY <1>1 DEF States

(* Digests lead from capsule.json to everything but the ledgers.               *)
LEMMA Pinned ==
    ASSUME NEW T, NEW f \in Nat, Fixed(T, f), Coherent(loaded),
           Everything \subseteq DOMAIN loaded,
           "capsule" \in DOMAIN T, loaded["capsule"] = T["capsule"],
           NEW p \in Everything \ Journals
    PROVE  p \in DOMAIN T /\ loaded[p] = T[p]
<1>1. /\ States("capsule") = {"runner_index", "manifest", "index", "environment",
                              "case_index", "plan"}
      /\ States("index") = Evidence \cup {"manifest"}
  BY DEF States
<1>2. /\ \A q \in States("capsule") : loaded["capsule"].states[q] = loaded[q].version
      /\ \A q \in States("index") : loaded["index"].states[q] = loaded[q].version
  <2>1. {"capsule"} \cup States("capsule") \cup States("index") \subseteq Everything
    BY <1>1 DEF Everything, Documents, Range
  <2>. QED
    BY <1>1, <2>1 DEF Coherent, CapsuleDigests, InputBytes, Stated, Have
<1>3. \A q \in States("capsule") : q \in DOMAIN T /\ loaded[q] = T[q]
  <2>. SUFFICES ASSUME NEW q \in States("capsule") PROVE q \in DOMAIN T /\ loaded[q] = T[q]
    OBVIOUS
  <2>1. loaded[q].version < f
    BY <1>2 DEF Fixed, Older
  <2>2. q \in DOMAIN loaded
    BY <1>1 DEF Everything, Documents, Range
  <2>. QED
    BY <2>1, <2>2 DEF Fixed
<1>4. \A q \in States("index") : q \in DOMAIN T /\ loaded[q] = T[q]
  <2>. SUFFICES ASSUME NEW q \in States("index") PROVE q \in DOMAIN T /\ loaded[q] = T[q]
    OBVIOUS
  <2>1. "index" \in DOMAIN T /\ loaded["index"] = T["index"]
    BY <1>1, <1>3
  <2>2. loaded[q].version < f
    BY <1>2, <2>1 DEF Fixed, Older
  <2>3. q \in DOMAIN loaded
    BY <1>1 DEF Everything, Documents, Range
  <2>. QED
    BY <2>2, <2>3 DEF Fixed
<1>5. p \in {"capsule"} \cup States("capsule") \cup States("index")
  BY <1>1 DEF Everything, Documents, Range, Journals
<1>. QED
  BY <1>3, <1>4, <1>5

(* A tree that is changed only by new versions stays fixed.                    *)
LEMMA FixedStays ==
    ASSUME NEW T, NEW f \in Nat, Fixed(T, f), fresh \in Nat, fresh' \in Nat, fresh <= fresh',
           \A p \in DOMAIN tree' :
               \/ p \in DOMAIN tree /\ tree'[p] = tree[p]
               \/ tree'[p].version = fresh,
           \A p \in DOMAIN loaded' :
               \/ p \in DOMAIN loaded /\ loaded'[p] = loaded[p]
               \/ p \in DOMAIN tree /\ loaded'[p] = tree[p]
    PROVE  Fixed(T, f)'
BY DEF Fixed

LEMMA OlderStays ==
    ASSUME NEW file, NEW p, NEW f \in Nat, NEW g \in Nat, f <= g, Older(file, p, f)
    PROVE  Older(file, p, g)
<1>1. file.version \in Nat /\ \A q \in States(p) : file.states[q] \in Nat
  BY DEF Older, File
<1>. QED
  BY <1>1 DEF Older

LEMMA FirstAndNext ==
    ASSUME NEW n \in Nat
    PROVE  First(n + 1) = First(n) \cup {Order[n + 1]}
BY DEF First

(* Everything that was captured is an input, and nothing is missing.           *)
LEMMA CapturedAll ==
    ASSUME CaptureInv, Cardinality(DOMAIN captured) = Len(Order)
    PROVE  DOMAIN captured = Inputs /\ \A i \in Inputs : captured[i] \in Content
                                                         /\ captured[i].version < fresh
<1>1. DOMAIN Order = 1 .. Len(Order)
  BY OrderIsASequence
<1>2. DOMAIN captured = Inputs
  BY <1>1 DEF CaptureInv, Inputs, Range, First
<1>. QED
  BY <1>2 DEF CaptureInv

LEMMA CapturedAreInputs ==
    ASSUME CaptureInv
    PROVE  DOMAIN captured \subseteq Inputs
<1>1. PICK c \in Nat : c = Cardinality(DOMAIN captured)
  BY FS_CardinalityType DEF CaptureInv
<1>2. DOMAIN captured = First(c) /\ c <= Len(Order)
  BY <1>1 DEF CaptureInv
<1>3. DOMAIN Order = 1 .. Len(Order) /\ Len(Order) \in Nat
  BY OrderIsASequence
<1>. QED
  BY <1>2, <1>3 DEF First, Inputs, Range

LEMMA BuiltIsOlder ==
    ASSUME CaptureInv, Cardinality(DOMAIN captured) = Len(Order)
    PROVE  /\ DOMAIN BuiltArtifacts = Everything
           /\ \A p \in Everything : Older(BuiltArtifacts[p], p, fresh + Len(Documents) + 1)
<1>. DEFINE position(p) == CHOOSE n \in DOMAIN Documents : Documents[n] = p
            files == [ p \in Evidence \cup Range(Documents) |->
                         IF p = "runner" THEN [version |-> 0, size |-> RunnerSize]
                         ELSE IF p \in Inputs THEN captured[p]
                         ELSE [version |-> fresh + position(p), size |-> 1] ]
<1>1. BuiltArtifacts = [ p \in DOMAIN files |->
                           IF p \in Evidence THEN InputFile(files[p])
                           ELSE Derived(p, files, files[p].version) ]
  BY DEF BuiltArtifacts
<1>2. Len(Documents) = 9 /\ fresh \in Nat
  BY DEF Documents, CaptureInv
<1>3. \A p \in Range(Documents) : position(p) \in 1 .. 9
  <2>1. DOMAIN Documents = 1 .. 9
    BY DEF Documents
  <2>. QED
    BY <2>1 DEF Range
<1>4. DOMAIN files = Everything
  BY DEF Everything
<1>5. \A p \in Everything : files[p] \in Content /\ files[p].version < fresh + 10
  <2>. SUFFICES ASSUME NEW p \in Everything
                PROVE  files[p] \in Content /\ files[p].version < fresh + 10
    OBVIOUS
  <2>1. CASE p = "runner"
    BY <1>2, <2>1, SizesAreNatural DEF Everything, Evidence, Content
  <2>2. CASE p \in Inputs /\ p # "runner"
    <3>1. files[p] = captured[p]
      BY <2>2 DEF Everything
    <3>2. captured[p] \in Content /\ captured[p].version < fresh
      BY <2>2, CapturedAll
    <3>. QED
      BY <1>2, <3>1, <3>2 DEF Content
  <2>3. CASE p \notin Evidence
    <3>1. files[p] = [version |-> fresh + position(p), size |-> 1] /\ p \in Range(Documents)
      BY <2>3 DEF Everything, Evidence
    <3>2. PICK n \in 1 .. 9 : position(p) = n
      BY <1>3, <3>1
    <3>3. files[p] = [version |-> fresh + n, size |-> 1]
      BY <3>1, <3>2
    <3>. HIDE DEF files, position
    <3>. QED
      BY <1>2, <3>3 DEF Content
  <2>. QED
    BY <2>1, <2>2, <2>3 DEF Evidence
<1>6. ASSUME NEW p \in Everything PROVE Older(BuiltArtifacts[p], p, fresh + Len(Documents) + 1)
  <2>. HIDE DEF files, position
  <2>1. CASE p \in Evidence
    <3>1. BuiltArtifacts[p] = InputFile(files[p]) /\ States(p) = {}
      BY <1>1, <1>4, <2>1, EvidenceStatesNothing
    <3>. QED
      BY <1>2, <1>5, <3>1 DEF InputFile, Older, File, Content, None
  <2>2. CASE p \notin Evidence
    <3>1. BuiltArtifacts[p] = Derived(p, files, files[p].version)
      BY <1>1, <1>4, <2>2
    <3>2. States(p) \subseteq Everything
      BY DEF States, Everything, Evidence, OfKind, Documents, Range
    <3>. QED
      BY <1>2, <1>5, <3>1, <3>2 DEF Derived, Older, File, Content
  <2>. QED
    BY <2>1, <2>2
<1>. QED
  BY <1>1, <1>4, <1>6

-----------------------------------------------------------------------------
(* Steps *)

LEMMA CaptureStep ==
    ASSUME IInv, NEW i \in Inputs, CaptureInput(i)
    PROVE  IInv'
<1>1. /\ stage = "capture" /\ stage' \in {"capture", "refused"}
      /\ UNCHANGED <<sources, tree, prepared, loaded, fresh>>
  BY DEF CaptureInput, verification
<1>2. TreeInv' /\ PreparedInv'
  BY <1>1 DEF IInv, TreeInv, PreparedInv
<1>3. VerifyInv'
  BY <1>1 DEF IInv, VerifyInv
<1>4. CASE UNCHANGED <<captured, snapshots>>
  BY <1>1, <1>2, <1>3, <1>4 DEF IInv, CaptureInv, Unedited
<1>5. CASE ~UNCHANGED <<captured, snapshots>>
  <2>1. PICK data : data = Read(i)
    OBVIOUS
  <2>2. /\ captured' = Place(captured, i, data)
        /\ snapshots' = Kept(i, data)
        /\ Cardinality(DOMAIN captured) < Len(Order)
        /\ i = Order[Cardinality(DOMAIN captured) + 1]
    BY <1>5, <2>1 DEF CaptureInput
  <2>3. PICK c \in Nat : c = Cardinality(DOMAIN captured)
    BY FS_CardinalityType DEF IInv, CaptureInv
  <2>4. /\ DOMAIN captured' = DOMAIN captured \cup {i}
        /\ captured'[i] = data
        /\ \A j \in DOMAIN captured : j # i => captured'[j] = captured[j]
    BY <2>2 DEF Place
  <2>5. i \notin DOMAIN captured
    BY <2>2, <2>3, OrderIsASequence DEF IInv, CaptureInv, First
  <2>6. /\ IsFiniteSet(DOMAIN captured') /\ Cardinality(DOMAIN captured') = c + 1
    BY <2>3, <2>4, <2>5, FS_AddElement DEF IInv, CaptureInv
  <2>7. DOMAIN captured' = First(c + 1)
    BY <2>2, <2>3, <2>4, FirstAndNext DEF IInv, CaptureInv
  <2>8. /\ data \in Content /\ data.version < fresh /\ Locator[i] \in Locators
        /\ Unedited(Locator[i]) => data = sources[Locator[i]]
        /\ Shared(i) /\ Locator[i] \in DOMAIN snapshots => data = snapshots[Locator[i]]
    BY <2>1 DEF Read, Snapped, Locators, IInv, CaptureInv
  <2>10. /\ DOMAIN snapshots \subseteq DOMAIN snapshots'
         /\ DOMAIN snapshots' \subseteq DOMAIN snapshots \cup {Locator[i]}
         /\ \A l \in DOMAIN snapshots : snapshots'[l] = snapshots[l]
         /\ Locator[i] \in DOMAIN snapshots' \ DOMAIN snapshots => snapshots'[Locator[i]] = data
         /\ Shared(i) => Locator[i] \in DOMAIN snapshots' /\ snapshots'[Locator[i]] = data
    <3>1. CASE Shared(i)
      BY <2>2, <2>8, <3>1 DEF Kept, Place
    <3>2. CASE ~Shared(i)
      BY <2>2, <3>2 DEF Kept
    <3>. QED
      BY <3>1, <3>2
  <2>11. \A l : Unedited(l)' <=> Unedited(l)
    BY <1>1 DEF Unedited
  <2>9. CaptureInv'
    <3>1. \A j \in DOMAIN captured' :
             /\ captured'[j] \in Content /\ captured'[j].version < fresh
             /\ Unedited(Locator[j]) => captured'[j] = sources[Locator[j]]
             /\ Shared(j) =>
                   Locator[j] \in DOMAIN snapshots' /\ captured'[j] = snapshots'[Locator[j]]
      <4>. SUFFICES ASSUME NEW j \in DOMAIN captured'
                    PROVE  /\ captured'[j] \in Content /\ captured'[j].version < fresh
                           /\ Unedited(Locator[j]) => captured'[j] = sources[Locator[j]]
                           /\ Shared(j) =>
                                 Locator[j] \in DOMAIN snapshots' /\ captured'[j] = snapshots'[Locator[j]]
        OBVIOUS
      <4>1. CASE j = i
        BY <2>4, <2>8, <2>10, <4>1
      <4>2. CASE j # i
        BY <2>4, <2>10, <4>2 DEF IInv, CaptureInv
      <4>. QED
        BY <4>1, <4>2
    <3>2. \A l \in DOMAIN snapshots' :
             /\ snapshots'[l] \in Content /\ snapshots'[l].version < fresh
             /\ l \in Locators /\ (Unedited(l) => snapshots'[l] = sources[l])
      BY <2>8, <2>10 DEF IInv, CaptureInv
    <3>3. Cardinality(DOMAIN captured') <= Len(Order)
      BY <2>2, <2>3, <2>6, OrderIsASequence
    <3>4. DOMAIN captured' = { Order[k] : k \in 1 .. Cardinality(DOMAIN captured') }
      BY <2>6, <2>7 DEF First
    <3>. QED
      BY <1>1, <2>6, <2>11, <3>1, <3>2, <3>3, <3>4 DEF IInv, CaptureInv, First
  <2>. QED
    BY <1>2, <1>3, <2>9 DEF IInv
<1>. QED
  BY <1>4, <1>5

LEMMA EditSourceStep ==
    ASSUME IInv, NEW l \in Locators, EditSource(l)
    PROVE  IInv'
<1>1. /\ stage = "capture" /\ stage' \in {"capture", "refused"} /\ fresh' = fresh + 1
      /\ UNCHANGED <<snapshots, captured, tree, prepared, loaded>>
  BY DEF EditSource, verification
<1>2. PICK size \in Sizes : sources' = [sources EXCEPT ![l] = [version |-> fresh, size |-> size]]
  BY DEF EditSource
<1>3. fresh \in Nat
  BY DEF IInv, CaptureInv
<1>4. TreeInv'
  BY <1>1, <1>3, OlderStays DEF IInv, TreeInv
<1>5. PreparedInv' /\ VerifyInv'
  BY <1>1 DEF IInv, PreparedInv, VerifyInv
<1>6. CaptureInv'
  <2>1. sources' \in [Locators -> Content] /\ \A k \in Locators : sources'[k].version < fresh'
    BY <1>1, <1>2, <1>3, SizesAreNatural DEF IInv, CaptureInv, Content
  <2>2. /\ \A k \in DOMAIN snapshots : snapshots[k].version < fresh'
        /\ \A i \in DOMAIN captured : captured[i].version < fresh'
    BY <1>1, <1>3 DEF IInv, CaptureInv, Content
  <2>3. \A k \in Locators : Unedited(k)' => Unedited(k) /\ sources'[k] = sources[k]
    <3>. SUFFICES ASSUME NEW k \in Locators, Unedited(k)'
                  PROVE  Unedited(k) /\ sources'[k] = sources[k]
      OBVIOUS
    <3>1. k # l
      BY <1>2, <1>3 DEF Unedited, IInv, CaptureInv
    <3>2. sources'[k] = sources[k]
      BY <1>2, <3>1 DEF IInv, CaptureInv
    <3>. QED
      BY <3>2 DEF Unedited
  <2>4. \A i \in DOMAIN captured : Locator[i] \in Locators
    BY CapturedAreInputs DEF IInv, Locators
  <2>. QED
    BY <1>1, <1>3, <2>1, <2>2, <2>3, <2>4 DEF IInv, CaptureInv
<1>. QED
  BY <1>4, <1>5, <1>6 DEF IInv

LEMMA PrepareStep ==
    ASSUME IInv, Prepare, RunnerFits
    PROVE  IInv'
<1>1. /\ stage = "capture" /\ Cardinality(DOMAIN captured) = Len(Order) /\ stage' = "prepared"
      /\ tree' = BuiltArtifacts /\ prepared' = BuiltArtifacts
      /\ fresh' = fresh + Len(Documents) + 1
      /\ UNCHANGED <<sources, snapshots, captured, loaded>>
  BY DEF Prepare, capture, verification
<1>2. fresh \in Nat /\ Len(Documents) = 9
  BY DEF IInv, CaptureInv, Documents
<1>3. DOMAIN tree' = Everything /\ \A p \in Everything : Older(tree'[p], p, fresh')
  BY <1>1, BuiltIsOlder DEF IInv
<1>4. TreeInv'
  BY <1>3 DEF TreeInv
<1>5. CaptureInv'
  BY <1>1, <1>2 DEF IInv, CaptureInv, Unedited, Content
<1>6. DOMAIN loaded' = {}
  BY <1>1 DEF IInv, VerifyInv
<1>7. Fixed(prepared, fresh)'
  BY <1>1, <1>2, <1>3, <1>6 DEF Fixed
<1>8. PreparedInv'
  BY <1>1, <1>2, <1>3, <1>7 DEF PreparedInv
<1>9. VerifyInv'
  BY <1>1 DEF VerifyInv
<1>. QED
  BY <1>4, <1>5, <1>8, <1>9 DEF IInv

LEMMA RefuseStep ==
    ASSUME IInv, Prepare, ~RunnerFits
    PROVE  IInv'
<1>1. /\ stage' = "refused"
      /\ UNCHANGED <<sources, snapshots, captured, tree, prepared, loaded, fresh>>
  BY DEF Prepare, capture, verification
<1>. QED
  BY <1>1 DEF IInv, TreeInv, CaptureInv, Unedited, PreparedInv, VerifyInv

(* The order of verification names everything, and capsule.json first and once. *)
Script ==
    << "capsule", "environment", "index", "runner_index", "manifest" >>
        \o Order \o << "runner", "case_index", "plan", "events", "raw" >>

Shape(script, k) ==
    /\ script \in Seq(Everything) /\ Len(script) = k + 10
    /\ script[1] = "capsule" /\ script[2] = "environment" /\ script[3] = "index"
    /\ script[4] = "runner_index" /\ script[5] = "manifest"
    /\ \A j \in 1 .. k : script[j + 5] = Order[j]
    /\ script[k + 6] = "runner" /\ script[k + 7] = "case_index" /\ script[k + 8] = "plan"
    /\ script[k + 9] = "events" /\ script[k + 10] = "raw"

LEMMA ScriptHasShape == Len(Order) \in Nat /\ Shape(Script, Len(Order))
<1>0. {"capsule", "environment", "index", "runner_index", "manifest", "runner", "case_index",
       "plan", "events", "raw"} \subseteq Everything
  <2>1. DOMAIN Documents = 1 .. 9
    BY DEF Documents
  <2>2. Documents[1] \in Range(Documents) /\ Documents[2] \in Range(Documents)
        /\ Documents[3] \in Range(Documents) /\ Documents[4] \in Range(Documents)
        /\ Documents[5] \in Range(Documents) /\ Documents[6] \in Range(Documents)
        /\ Documents[7] \in Range(Documents) /\ Documents[8] \in Range(Documents)
        /\ Documents[9] \in Range(Documents)
    BY <2>1 DEF Range
  <2>. QED
    BY <2>2 DEF Everything, Evidence, Documents
<1>1. PICK k \in Nat : k = Len(Order)
  BY OrderIsASequence
<1>2. PICK first \in Seq(Everything) :
         first = << "capsule", "environment", "index", "runner_index", "manifest" >>
  <2>1. << "capsule", "environment", "index", "runner_index", "manifest" >> \in Seq(Everything)
    BY <1>0
  <2>. QED
    BY <2>1
<1>3. PICK last \in Seq(Everything) :
         last = << "runner", "case_index", "plan", "events", "raw" >>
  <2>1. << "runner", "case_index", "plan", "events", "raw" >> \in Seq(Everything)
    BY <1>0
  <2>. QED
    BY <2>1
<1>4. Order \in Seq(Everything)
  BY OrderIsASequence DEF Everything, Evidence
<1>5. Script = first \o Order \o last
  BY <1>2, <1>3 DEF Script
<1>6. Script \in Seq(Everything) /\ Len(Script) = k + 10
  BY <1>1, <1>2, <1>3, <1>4, <1>5
<1>7. \A j \in 1 .. k : Script[j + 5] = Order[j]
  BY <1>1, <1>2, <1>3, <1>4, <1>5
<1>8. /\ Script[1] = first[1] /\ Script[2] = first[2] /\ Script[3] = first[3]
      /\ Script[4] = first[4] /\ Script[5] = first[5]
  BY <1>1, <1>2, <1>3, <1>4, <1>5
<1>9. /\ Script[k + 6] = last[1] /\ Script[k + 7] = last[2] /\ Script[k + 8] = last[3]
      /\ Script[k + 9] = last[4] /\ Script[k + 10] = last[5]
  BY <1>1, <1>2, <1>3, <1>4, <1>5
<1>. QED
  BY <1>1, <1>2, <1>3, <1>6, <1>7, <1>8, <1>9 DEF Shape

LEMMA ScriptNamesAll ==
    /\ Script \in Seq(Everything) /\ Script # <<>> /\ Head(Script) = "capsule"
    /\ \A n \in 1 .. Len(Script) : Script[n] = "capsule" => n = 1
    /\ \A p \in Everything : \E n \in 1 .. Len(Script) : Script[n] = p
<1>1. PICK k \in Nat, script \in {Script} :
         k = Len(Order) /\ script = Script /\ Shape(script, k)
  BY ScriptHasShape
<1>2. script \in Seq(Everything) /\ Len(script) = k + 10 /\ script[1] = "capsule"
  BY <1>1 DEF Shape
<1>3. script # <<>> /\ Head(script) = "capsule"
  BY <1>2
<1>4. ASSUME NEW n \in 1 .. k + 10, script[n] = "capsule" PROVE n = 1
  <2>1. CASE n \in 6 .. k + 5
    <3>1. n - 5 \in 1 .. k /\ (n - 5) + 5 = n /\ Order[n - 5] \in Inputs
      BY <1>1, <2>1, OrderIsASequence
    <3>2. script[n] \in Inputs
      BY <1>1, <3>1 DEF Shape
    <3>. QED
      BY <1>4, <3>2, InputsAreNoDocuments DEF Range, Documents
  <2>2. CASE n \in 1 .. 5 \/ n \in k + 6 .. k + 10
    <3>1. n \in {1, 2, 3, 4, 5, k + 6, k + 7, k + 8, k + 9, k + 10}
      BY <2>2
    <3>. QED
      BY <1>1, <1>4, <3>1 DEF Shape
  <2>. QED
    BY <2>1, <2>2
<1>5. ASSUME NEW p \in Everything PROVE \E n \in 1 .. k + 10 : script[n] = p
  <2>1. CASE p \in Inputs
    <3>1. PICK j \in 1 .. k : Order[j] = p
      BY <1>1, <2>1, OrderIsASequence DEF Inputs, Range
    <3>2. j + 5 \in 1 .. k + 10 /\ script[j + 5] = p
      BY <1>1, <3>1 DEF Shape
    <3>. QED
      BY <3>2
  <2>2. CASE p \notin Inputs
    <3>1. p \in {"runner", "runner_index", "manifest", "index", "environment", "case_index",
                 "plan", "capsule", "events", "raw"}
      BY <2>2 DEF Everything, Evidence, Range, Documents
    <3>2. {1, 2, 3, 4, 5, k + 6, k + 7, k + 8, k + 9, k + 10} \subseteq 1 .. k + 10
      OBVIOUS
    <3>. QED
      BY <1>1, <3>1, <3>2 DEF Shape
  <2>. QED
    BY <2>1, <2>2
<1>. QED
  BY <1>1, <1>2, <1>3, <1>4, <1>5

LEMMA BeginVerifyStep ==
    ASSUME IInv, BeginVerify
    PROVE  IInv'
<1>1. /\ stage = "prepared" /\ stage' = "verify" /\ loaded' = None
      /\ inventory' = tree /\ trees' = {tree}
      /\ UNCHANGED <<sources, snapshots, captured, tree, prepared, fresh>>
  BY DEF BeginVerify, capture
<1>2. DOMAIN loaded' = {}
  BY <1>1 DEF None
<1>3. TreeInv' /\ CaptureInv'
  BY <1>1 DEF IInv, TreeInv, CaptureInv, Unedited
<1>4. PreparedInv'
  <2>1. DOMAIN prepared = Everything /\ \E f \in Nat : Fixed(prepared, f)
    BY <1>1 DEF IInv, PreparedInv
  <2>2. PICK f \in Nat : Fixed(prepared, f)
    BY <2>1
  <2>3. Fixed(prepared, f)'
    BY <1>1, <1>2, <2>2 DEF Fixed
  <2>. QED
    BY <1>1, <2>1, <2>3 DEF PreparedInv
<1>5. VerifyInv'
  <2>1. /\ todo' \in Seq(Everything) /\ todo' # <<>> /\ Head(todo') = "capsule"
        /\ \A n \in 1 .. Len(todo') : todo'[n] = "capsule" => n = 1
        /\ \A p \in Everything : \E n \in 1 .. Len(todo') : todo'[n] = p
    BY ScriptNamesAll DEF BeginVerify, Script
  <2>2. \A p \in DOMAIN inventory' : inventory'[p].version \in Nat /\ inventory'[p].version < fresh'
    BY <1>1 DEF IInv, TreeInv, Older, File
  <2>3. AnchorInv'
    BY <1>2 DEF AnchorInv
  <2>. QED
    BY <1>1, <1>2, <2>1, <2>2, <2>3 DEF VerifyInv
<1>. QED
  BY <1>3, <1>4, <1>5 DEF IInv

LEMMA LoadStep ==
    ASSUME IInv, NEW p \in Everything, Load(p)
    PROVE  IInv'
<1>1. /\ stage = "verify" /\ todo # <<>> /\ p = Head(todo) /\ todo' = Tail(todo)
      /\ UNCHANGED <<sources, snapshots, captured, tree, prepared, inventory, trees, fresh>>
  BY DEF Load, capture
<1>2. TreeInv' /\ CaptureInv'
  BY <1>1 DEF IInv, TreeInv, CaptureInv, Unedited
<1>3. PICK f \in Nat : Fixed(prepared, f) /\ DOMAIN prepared = Everything
  BY <1>1 DEF IInv, PreparedInv
<1>4. CASE ~(p \in DOMAIN tree \cap DOMAIN inventory)
  <2>1. stage' = "invalid" /\ loaded' = loaded
    BY <1>4 DEF Load
  <2>2. Fixed(prepared, f)'
    BY <1>1, <1>3, <2>1 DEF Fixed
  <2>. QED
    BY <1>1, <1>2, <1>3, <2>1, <2>2 DEF IInv, PreparedInv, VerifyInv
<1>5. CASE p \in DOMAIN tree \cap DOMAIN inventory
  <2>1. /\ loaded' = Place(loaded, p, tree[p])
        /\ stage' = IF Coherent(loaded') /\ ResourcesFit THEN "verify" ELSE "invalid"
    BY <1>1, <1>5 DEF Load
  <2>2. /\ DOMAIN loaded' = DOMAIN loaded \cup {p} /\ loaded'[p] = tree[p]
        /\ \A q \in DOMAIN loaded : q # p => loaded'[q] = loaded[q]
    BY <2>1 DEF Place
  <2>3. fresh \in Nat /\ fresh' = fresh
    BY <1>1 DEF IInv, CaptureInv
  <2>4. \A T : \A g \in Nat : Fixed(T, g) => Fixed(T, g)'
    BY <1>1, <1>5, <2>2, <2>3, FixedStays
  <2>5. PreparedInv'
    BY <1>1, <1>3, <2>4 DEF PreparedInv
  <2>6. CASE stage' = "invalid"
    BY <1>2, <2>5, <2>6 DEF IInv, VerifyInv
  <2>7. CASE stage' = "verify"
    <3>1. Coherent(loaded')
      BY <2>1, <2>7
    <3>2. Coherent(loaded)'
      BY <1>1, <3>1 DEF Coherent, CapsuleDigests, ExactTree, ManifestCoverage, RunnerIndex,
         EnvironmentMatches, InputBytes, DerivedAgain, PreparedEvent, JournalsUnmoved
    <3>3. /\ todo \in Seq(Everything) /\ tree \in trees
          /\ DOMAIN loaded = {} => p = "capsule"
          /\ \A n \in 1 .. Len(todo) : todo[n] = "capsule" => n = 1 /\ DOMAIN loaded = {}
          /\ \A q \in Everything \ DOMAIN loaded : \E n \in 1 .. Len(todo) : todo[n] = q
          /\ \A q \in DOMAIN inventory :
                inventory[q].version \in Nat /\ inventory[q].version < fresh
          /\ DOMAIN loaded \subseteq DOMAIN inventory \cap Everything /\ AnchorInv
      BY <1>1 DEF IInv, VerifyInv
    <3>4. /\ todo' \in Seq(Everything) /\ Len(todo) \in Nat \ {0} /\ Len(todo') = Len(todo) - 1
          /\ \A n \in 1 .. Len(todo') : todo'[n] = todo[n + 1]
          /\ p = todo[1]
      BY <1>1, <3>3
    <3>5. \A n \in 1 .. Len(todo') : todo'[n] # "capsule"
      BY <3>3, <3>4
    <3>6. \A q \in Everything \ DOMAIN loaded' : \E n \in 1 .. Len(todo') : todo'[n] = q
      <4>. SUFFICES ASSUME NEW q \in Everything \ DOMAIN loaded'
                    PROVE  \E n \in 1 .. Len(todo') : todo'[n] = q
        OBVIOUS
      <4>1. PICK n \in 1 .. Len(todo) : todo[n] = q
        BY <2>2, <3>3
      <4>2. n # 1
        BY <2>2, <3>4, <4>1
      <4>3. n - 1 \in 1 .. Len(todo') /\ (n - 1) + 1 = n
        BY <3>4, <4>2
      <4>. QED
        BY <3>4, <4>1, <4>3
    <3>7. AnchorInv'
      <4>1. CASE DOMAIN loaded = {}
        <5>1. PICK T \in trees, g \in Nat : T = tree /\ g = fresh
          BY <2>3, <3>3
        <5>2. Fixed(T, g)'
          <6>1. g \in Nat /\ g <= fresh'
            BY <2>3, <5>1
          <6>2. \A q \in DOMAIN T : Older(T[q], q, g)
            BY <2>3, <5>1 DEF IInv, TreeInv
          <6>3. tree' = T /\ DOMAIN loaded' = {p} /\ loaded'[p] = T[p] /\ p \in DOMAIN T
            BY <1>1, <1>5, <2>2, <4>1, <5>1
          <6>. QED
            BY <6>1, <6>2, <6>3 DEF Fixed
        <5>3. p = "capsule" /\ "capsule" \in DOMAIN T \cap DOMAIN loaded'
              /\ loaded'["capsule"] = T["capsule"]
          BY <1>5, <2>2, <3>3, <4>1, <5>1
        <5>. QED
          BY <1>1, <3>3, <5>1, <5>2, <5>3 DEF AnchorInv
      <4>2. CASE DOMAIN loaded # {}
        <5>1. PICK T \in trees, g \in Nat :
                 /\ Fixed(T, g)
                 /\ "capsule" \in DOMAIN T \cap DOMAIN loaded /\ loaded["capsule"] = T["capsule"]
                 /\ \A q \in DOMAIN inventory : inventory[q].version < g
          BY <3>3, <4>2 DEF AnchorInv
        <5>2. p # "capsule"
          BY <3>3, <3>4, <4>2
        <5>3. Fixed(T, g)' /\ "capsule" \in DOMAIN T \cap DOMAIN loaded'
              /\ loaded'["capsule"] = T["capsule"]
          BY <2>2, <2>4, <5>1, <5>2
        <5>. QED
          BY <1>1, <5>1, <5>3 DEF AnchorInv
      <4>. QED
        BY <4>1, <4>2
    <3>8. DOMAIN loaded' \subseteq DOMAIN inventory' \cap Everything /\ DOMAIN loaded' # {}
      BY <1>1, <1>5, <2>2, <3>3
    <3>9. VerifyInv'
      BY <1>1, <2>7, <3>2, <3>3, <3>4, <3>5, <3>6, <3>7, <3>8 DEF VerifyInv
    <3>. QED
      BY <1>2, <2>5, <3>9 DEF IInv
  <2>. QED
    BY <2>1, <2>6, <2>7
<1>. QED
  BY <1>4, <1>5

LEMMA ConcludeStep ==
    ASSUME IInv, Conclude
    PROVE  IInv'
<1>1. /\ stage = "verify" /\ todo = <<>> /\ stage' \in {"valid", "invalid"}
      /\ UNCHANGED <<sources, snapshots, captured, tree, prepared, inventory, loaded, trees, fresh>>
  BY DEF Conclude, capture, verification
<1>2. TreeInv' /\ CaptureInv'
  BY <1>1 DEF IInv, TreeInv, CaptureInv, Unedited
<1>3. \A T : \A f \in Nat : Fixed(T, f) => Fixed(T, f)'
  BY <1>1 DEF Fixed
<1>4. PreparedInv'
  <2>1. DOMAIN prepared = Everything /\ \E f \in Nat : Fixed(prepared, f)
    BY <1>1 DEF IInv, PreparedInv
  <2>2. PICK f \in Nat : Fixed(prepared, f)
    BY <2>1
  <2>. QED
    BY <1>1, <1>3, <2>1, <2>2 DEF PreparedInv
<1>5. VerifyInv'
  <2>1. /\ \A p \in Everything \ DOMAIN loaded : \E n \in 1 .. Len(todo) : todo[n] = p
        /\ DOMAIN loaded \subseteq DOMAIN inventory \cap Everything
        /\ DOMAIN loaded # {} => Coherent(loaded)
        /\ AnchorInv
        /\ DOMAIN loaded = {} => todo # <<>>
    BY <1>1 DEF IInv, VerifyInv
  <2>2. Everything \subseteq DOMAIN loaded
    BY <1>1, <2>1
  <2>3. Coherent(loaded) => Coherent(loaded)'
    BY <1>1 DEF Coherent, CapsuleDigests, ExactTree, ManifestCoverage, RunnerIndex,
       EnvironmentMatches, InputBytes, DerivedAgain, PreparedEvent, JournalsUnmoved
  <2>4. AnchorInv'
    BY <1>1, <1>3, <2>1 DEF AnchorInv
  <2>. QED
    BY <1>1, <2>1, <2>2, <2>3, <2>4 DEF VerifyInv
<1>. QED
  BY <1>2, <1>4, <1>5 DEF IInv

(* What is new in an edited capsule has the next version.                      *)
LEMMA EditIsNew ==
    ASSUME TreeInv, fresh \in Nat, EditCapsule
    PROVE  \A p \in DOMAIN tree' :
              \/ p \in DOMAIN tree /\ tree'[p] = tree[p]
              \/ tree'[p].version = fresh /\ Older(tree'[p], p, fresh + 1)
<1>1. CASE \E p \in DOMAIN tree : \E file \in Changed(p) : tree' = [tree EXCEPT ![p] = file]
  <2>0. PICK p \in DOMAIN tree : \E file \in Changed(p) : tree' = [tree EXCEPT ![p] = file]
    BY <1>1
  <2>1. PICK file \in Changed(p) : tree' = [tree EXCEPT ![p] = file]
    BY <2>0
  <2>2. Older(tree[p], p, fresh)
    BY DEF TreeInv
  <2>3. file.version = fresh /\ Older(file, p, fresh + 1)
    <3>1. CASE \E size \in {tree[p].size, tree[p].size + 1} :
                  file = [tree[p] EXCEPT !.version = fresh, !.sound = FALSE, !.size = size]
      <4>1. PICK size \in {tree[p].size, tree[p].size + 1} :
                    file = [tree[p] EXCEPT !.version = fresh, !.sound = FALSE, !.size = size]
        BY <3>1
      <4>2. /\ tree[p] \in File(p) /\ \A q \in States(p) : tree[p].states[q] < fresh
        BY <2>2 DEF Older
      <4>3. size \in Nat
        BY <4>1, <4>2 DEF File
      <4>4. file = [version |-> fresh, size |-> size, states |-> tree[p].states, sound |-> FALSE]
        BY <4>1, <4>2 DEF File
      <4>5. \A q \in States(p) : tree[p].states[q] \in Nat
        BY <4>2 DEF File
      <4>. QED
        BY <4>2, <4>3, <4>4, <4>5 DEF Older, File
    <3>2. CASE Have(tree, States(p)) /\ file = Derived(p, tree, fresh)
      <4>1. \A q \in States(p) : tree[q].version \in Nat /\ tree[q].version < fresh
        BY <3>2 DEF Have, TreeInv, Older, File
      <4>. QED
        BY <3>2, <4>1 DEF Derived, Older, File
    <3>. QED
      BY <2>1, <3>1, <3>2 DEF Changed
  <2>. QED
    BY <2>1, <2>3
<1>2. CASE \E p \in DOMAIN tree : tree' = Restrict(tree, DOMAIN tree \ {p})
  BY <1>2 DEF Restrict
<1>3. CASE tree' = Place(tree, "extra", InputFile([version |-> fresh, size |-> 1]))
  <2>1. States("extra") = {}
    BY EvidenceStatesNothing
  <2>. DEFINE file == InputFile([version |-> fresh, size |-> 1])
  <2>2. file.version = fresh /\ Older(file, "extra", fresh + 1)
    BY <2>1 DEF InputFile, Older, File, None
  <2>. HIDE DEF file
  <2>. QED
    BY <1>3, <2>2 DEF Place, file
<1>. QED
  BY <1>1, <1>2, <1>3 DEF EditCapsule

LEMMA EditCapsuleStep ==
    ASSUME IInv, EditCapsule
    PROVE  IInv'
<1>1. /\ stage \in {"prepared", "verify"} /\ stage' = stage /\ fresh' = fresh + 1
      /\ trees' = IF stage = "verify" THEN trees \cup {tree'} ELSE trees
      /\ UNCHANGED <<sources, snapshots, captured, prepared, inventory, todo, loaded>>
  BY DEF EditCapsule, capture, verification
<1>2. fresh \in Nat
  BY DEF IInv, CaptureInv
<1>3. \A p \in DOMAIN tree' :
         \/ p \in DOMAIN tree /\ tree'[p] = tree[p]
         \/ tree'[p].version = fresh /\ Older(tree'[p], p, fresh + 1)
  BY <1>2, EditIsNew DEF IInv
<1>4. TreeInv'
  <2>. SUFFICES ASSUME NEW p \in DOMAIN tree' PROVE Older(tree'[p], p, fresh + 1)
    BY <1>1 DEF TreeInv
  <2>1. CASE p \in DOMAIN tree /\ tree'[p] = tree[p]
    <3>1. Older(tree'[p], p, fresh)
      BY <2>1 DEF IInv, TreeInv
    <3>. QED
      BY <1>2, <3>1, OlderStays
  <2>. QED
    BY <1>3, <2>1
<1>5. CaptureInv'
  <2>1. \A l \in Locators : sources[l].version < fresh + 1
    BY <1>2 DEF IInv, CaptureInv, Content
  <2>2. /\ \A l \in DOMAIN snapshots : snapshots[l].version < fresh + 1
        /\ \A i \in DOMAIN captured : captured[i].version < fresh + 1
    BY <1>2 DEF IInv, CaptureInv, Content
  <2>. QED
    BY <1>1, <1>2, <2>1, <2>2 DEF IInv, CaptureInv, Unedited
<1>6. \A T : \A f \in Nat : Fixed(T, f) => Fixed(T, f)'
  BY <1>1, <1>2, <1>3, FixedStays
<1>7. PreparedInv'
  <2>1. PICK f \in Nat : Fixed(prepared, f) /\ DOMAIN prepared = Everything
    BY <1>1 DEF IInv, PreparedInv
  <2>. QED
    BY <1>1, <1>6, <2>1 DEF PreparedInv
<1>8. VerifyInv'
  <2>1. CASE stage = "verify"
    <3>1. /\ \A p \in DOMAIN inventory :
                inventory[p].version \in Nat /\ inventory[p].version < fresh
          /\ todo \in Seq(Everything)
          /\ DOMAIN loaded = {} => todo # <<>> /\ Head(todo) = "capsule"
          /\ \A n \in 1 .. Len(todo) : todo[n] = "capsule" => n = 1 /\ DOMAIN loaded = {}
          /\ \A p \in Everything \ DOMAIN loaded : \E n \in 1 .. Len(todo) : todo[n] = p
          /\ DOMAIN loaded \subseteq DOMAIN inventory \cap Everything
          /\ DOMAIN loaded # {} => Coherent(loaded)
          /\ AnchorInv
      BY <2>1 DEF IInv, VerifyInv
    <3>2. Coherent(loaded) => Coherent(loaded)'
      BY <1>1 DEF Coherent, CapsuleDigests, ExactTree, ManifestCoverage, RunnerIndex,
         EnvironmentMatches, InputBytes, DerivedAgain, PreparedEvent, JournalsUnmoved
    <3>3. AnchorInv'
      BY <1>1, <1>6, <3>1 DEF AnchorInv
    <3>4. \A p \in DOMAIN inventory' :
             inventory'[p].version \in Nat /\ inventory'[p].version < fresh'
      BY <1>1, <1>2, <3>1
    <3>. QED
      BY <1>1, <2>1, <3>1, <3>2, <3>3, <3>4 DEF VerifyInv
  <2>2. CASE stage = "prepared"
    BY <1>1, <2>2 DEF VerifyInv
  <2>. QED
    BY <1>1, <2>1, <2>2
<1>. QED
  BY <1>4, <1>5, <1>7, <1>8 DEF IInv

LEMMA InitInv == Init => IInv
<1>. SUFFICES ASSUME Init PROVE IInv
  OBVIOUS
<1>1. /\ stage = "capture" /\ fresh = 1
      /\ DOMAIN tree = {} /\ DOMAIN snapshots = {} /\ DOMAIN captured = {} /\ DOMAIN loaded = {}
  BY DEF Init, None
<1>2. PICK size \in [Locators -> Sizes] :
         sources = [l \in Locators |-> [version |-> 0, size |-> size[l]]]
  BY DEF Init
<1>3. sources \in [Locators -> Content] /\ \A l \in Locators : sources[l].version < fresh
  <2>1. \A l \in Locators : size[l] \in Nat
    BY <1>2, SizesAreNatural
  <2>2. \A l \in Locators : [version |-> 0, size |-> size[l]] \in Content
    BY <2>1 DEF Content
  <2>. QED
    BY <1>1, <1>2, <2>2
<1>4. IsFiniteSet({}) /\ Cardinality({}) = 0 /\ First(0) = {}
  BY FS_EmptySet DEF First
<1>5. CaptureInv
  BY <1>1, <1>3, <1>4, OrderIsASequence DEF CaptureInv
<1>. QED
  BY <1>1, <1>5 DEF IInv, TreeInv, PreparedInv, VerifyInv

LEMMA NextInv == IInv /\ [Next]_vars => IInv'
<1>. SUFFICES ASSUME IInv, [Next]_vars PROVE IInv'
  OBVIOUS
<1>1. CASE \E i \in Inputs : CaptureInput(i)
  BY <1>1, CaptureStep
<1>2. CASE \E l \in Locators : EditSource(l)
  BY <1>2, EditSourceStep
<1>3. CASE Prepare
  BY <1>3, PrepareStep, RefuseStep
<1>4. CASE BeginVerify
  BY <1>4, BeginVerifyStep
<1>5. CASE \E p \in Everything : Load(p)
  BY <1>5, LoadStep
<1>6. CASE Conclude
  BY <1>6, ConcludeStep
<1>7. CASE EditCapsule
  BY <1>7, EditCapsuleStep
<1>8. CASE UNCHANGED vars
  <2>1. UNCHANGED <<sources, snapshots, captured, stage, tree, prepared, inventory, todo, loaded,
                    trees, fresh>>
    BY <1>8 DEF vars, capture, verification
  <2>2. TreeInv' /\ CaptureInv'
    BY <2>1 DEF IInv, TreeInv, CaptureInv, Unedited
  <2>3. \A T : \A f \in Nat : Fixed(T, f) => Fixed(T, f)'
    BY <2>1 DEF Fixed
  <2>4. PreparedInv'
    BY <2>1, <2>3 DEF IInv, PreparedInv
  <2>5. AnchorInv => AnchorInv'
    BY <2>1, <2>3 DEF AnchorInv
  <2>6. Coherent(loaded) => Coherent(loaded)'
    BY <2>1 DEF Coherent, CapsuleDigests, ExactTree, ManifestCoverage, RunnerIndex,
       EnvironmentMatches, InputBytes, DerivedAgain, PreparedEvent, JournalsUnmoved
  <2>7. VerifyInv'
    BY <2>1, <2>5, <2>6 DEF IInv, VerifyInv
  <2>. QED
    BY <2>2, <2>4, <2>7 DEF IInv
<1>. QED
  BY <1>1, <1>2, <1>3, <1>4, <1>5, <1>6, <1>7, <1>8 DEF Next, Everything

-----------------------------------------------------------------------------
(* Theorems *)

(* The invariant holds in every reachable state.                               *)
THEOREM Invariance == Spec => []IInv
<1>. QED
  BY InitInv, NextInv, PTL DEF Spec

(* However often sources are edited between two reads, a source that serves    *)
(* two roles was captured with the same bytes for both (_capture_locator),     *)
(* unless one of them is an arm's (_capture_arms) and that source was edited.  *)
THEOREM OneSourceOneContent == Spec => []OneContentPerSource
<1>1. IInv => OneContentPerSource
  <2>. SUFFICES ASSUME IInv, NEW i \in DOMAIN captured, NEW j \in DOMAIN captured,
                       Locator[i] = Locator[j], captured[i] # captured[j]
                PROVE  /\ "arm" \in {Kind[i], Kind[j]}
                       /\ sources[Locator[i]].version > 0
    BY DEF OneContentPerSource
  <2>1. ~(Shared(i) /\ Shared(j)) /\ ~Unedited(Locator[i])
    BY DEF IInv, CaptureInv
  <2>2. sources[Locator[i]].version \in Nat
    BY CapturedAreInputs DEF IInv, CaptureInv, Locators, Content
  <2>. QED
    BY <2>1, <2>2 DEF Shared, Unedited
<1>. QED
  BY <1>1, Invariance, PTL

(* verify_capsule, which reads one file after another, calls valid only what   *)
(* the capsule was at one moment of the verification.                          *)
THEOREM OneTree == Spec => []ValidMeansOneTree
<1>1. IInv => ValidMeansOneTree
  <2>. SUFFICES ASSUME IInv, stage = "valid"
                PROVE  \E whole \in trees :
                          \A p \in DOMAIN loaded : p \in DOMAIN whole /\ whole[p] = loaded[p]
    BY DEF ValidMeansOneTree
  <2>1. Everything = DOMAIN loaded /\ Coherent(loaded) /\ AnchorInv
    <3>1. DOMAIN loaded # {}
      BY DEF IInv, VerifyInv, Everything, Evidence
    <3>. QED
      BY <3>1 DEF IInv, VerifyInv
  <2>2. PICK T \in trees, f \in Nat :
           /\ Fixed(T, f)
           /\ "capsule" \in DOMAIN T \cap DOMAIN loaded /\ loaded["capsule"] = T["capsule"]
           /\ \A p \in DOMAIN inventory : inventory[p].version < f
    BY <2>1 DEF AnchorInv, Everything, Evidence
  <2>. SUFFICES ASSUME NEW p \in Everything PROVE p \in DOMAIN T /\ loaded[p] = T[p]
    BY <2>1
  <2>3. CASE p \in Journals
    <3>1. loaded[p] = inventory[p] /\ p \in DOMAIN inventory
      BY <2>1, <2>3 DEF Coherent, JournalsUnmoved, Have, IInv, VerifyInv
    <3>. QED
      BY <2>1, <2>2, <3>1 DEF Fixed
  <2>4. CASE p \notin Journals
    BY <2>1, <2>2, <2>4, Pinned
  <2>. QED
    BY <2>3, <2>4
<1>. QED
  BY <1>1, Invariance, PTL

(* A capsule whose capsule.json is the prepared one, and which is called       *)
(* valid, is the prepared capsule but for the ledgers.                         *)
THEOREM Pins == Spec => []CapsulePinsTheTree
<1>1. IInv => CapsulePinsTheTree
  <2>. SUFFICES ASSUME IInv, stage = "valid", loaded["capsule"] = prepared["capsule"]
                PROVE  /\ DOMAIN loaded = DOMAIN prepared
                       /\ \A p \in DOMAIN loaded \ Journals : loaded[p] = prepared[p]
    BY DEF CapsulePinsTheTree
  <2>1. Everything = DOMAIN loaded /\ Coherent(loaded)
    <3>1. DOMAIN loaded # {}
      BY DEF IInv, VerifyInv, Everything, Evidence
    <3>. QED
      BY <3>1 DEF IInv, VerifyInv
  <2>2. PICK f \in Nat : Fixed(prepared, f) /\ DOMAIN prepared = Everything
    BY DEF IInv, PreparedInv
  <2>3. "capsule" \in DOMAIN prepared
    BY <2>2 DEF Everything, Documents, Range
  <2>. QED
    BY <2>1, <2>2, <2>3, Pinned
<1>. QED
  BY <1>1, Invariance, PTL

-----------------------------------------------------------------------------
(* Sums of sizes: the equations of the recursion, and induction over positions *)

LEMMA LeastNatural ==
    ASSUME NEW T \in SUBSET Nat, T # {}
    PROVE  \E x \in T : \A y \in T : x <= y
<1>. DEFINE R == OpToRel(<, Nat)
<1>1. IsWellFoundedOn(R, Nat)
  BY NatLessThanWellFounded
<1>2. \A x, y \in Nat : x < y => <<x, y>> \in R
  BY DEF OpToRel
<1>. HIDE DEF R
<1>3. PICK x \in T : \A y \in T : ~(<<y, x>> \in R)
  BY <1>1, WFMin
<1>4. \A y \in T : ~(y < x)
  BY <1>2, <1>3
<1>5. \A y \in T : x <= y
  BY <1>4
<1>. QED
  BY <1>5

LEMMA UpTo ==
    ASSUME NEW T, NEW m \in Nat, 0 \in T, \A k \in 0 .. m - 1 : k \in T => k + 1 \in T
    PROVE  \A k \in 0 .. m : k \in T
<1>. DEFINE Bad == { k \in 0 .. m : k \notin T }
<1>. SUFFICES ASSUME Bad # {} PROVE FALSE
  OBVIOUS
<1>1. Bad \in SUBSET Nat
  OBVIOUS
<1>2. PICK x \in Bad : \A y \in Bad : x <= y
  <2>. HIDE DEF Bad
  <2>. QED
    BY <1>1, LeastNatural
<1>3. x # 0 /\ x - 1 \in 0 .. m - 1 /\ x - 1 \in T
  BY <1>2
<1>. QED
  BY <1>2, <1>3

N == Len(Order)
Summed(files, ps, sum, n) ==
    IF n = 0 THEN SizeIn(files, ps, "runner") ELSE sum[n - 1] + SizeIn(files, ps, Order[n])

LEMMA SumsAre ==
    ASSUME NEW files, NEW ps
    PROVE  \A n \in 0 .. N : Sums(files, ps)[n] = Summed(files, ps, Sums(files, ps), n)
<1>. DEFINE Good(m, f) == f = [n \in 0 .. m |-> Summed(files, ps, f, n)]
            T == { m \in 0 .. N : \E f : Good(m, f) }
<1>0. N \in Nat
  BY OrderIsASequence DEF N
<1>1. 0 \in T
  <2>. DEFINE f == [n \in 0 .. 0 |-> SizeIn(files, ps, "runner")]
  <2>1. \A n \in 0 .. 0 : Summed(files, ps, f, n) = SizeIn(files, ps, "runner")
    BY DEF Summed
  <2>2. f = [n \in 0 .. 0 |-> Summed(files, ps, f, n)]
    BY <2>1
  <2>3. Good(0, f) /\ 0 \in 0 .. N
    BY <1>0, <2>2
  <2>. HIDE DEF Good
  <2>. QED
    BY <2>3
<1>2. ASSUME NEW m \in 0 .. N - 1, m \in T
      PROVE  m + 1 \in T
  <2>1. PICK f : Good(m, f)
    BY <1>2
  <2>. DEFINE h == [n \in 0 .. m + 1 |-> IF n = m + 1 THEN Summed(files, ps, f, m + 1) ELSE f[n]]
  <2>2. \A n \in 0 .. m + 1 : h[n] = Summed(files, ps, h, n)
    <3>. SUFFICES ASSUME NEW n \in 0 .. m + 1 PROVE h[n] = Summed(files, ps, h, n)
      OBVIOUS
    <3>1. n # 0 => h[n - 1] = f[n - 1]
      BY <1>0
    <3>2. Summed(files, ps, h, n) = Summed(files, ps, f, n)
      <4>. HIDE DEF h
      <4>. QED
        BY <3>1 DEF Summed
    <3>3. CASE n = m + 1
      BY <3>2, <3>3
    <3>4. CASE n \in 0 .. m
      <4>1. f[n] = Summed(files, ps, f, n)
        BY <2>1, <3>4
      <4>. QED
        BY <1>0, <3>2, <3>4, <4>1
    <3>. QED
      BY <1>0, <3>3, <3>4
  <2>3. Good(m + 1, h) /\ m + 1 \in 0 .. N
    <3>1. h = [n \in 0 .. m + 1 |-> h[n]]
      OBVIOUS
    <3>. HIDE DEF h
    <3>. QED
      BY <1>0, <2>2, <3>1
  <2>. HIDE DEF Good, h
  <2>. QED
    BY <2>3
<1>3. \E f : Good(N, f)
  <2>. HIDE DEF T
  <2>1. \A m \in 0 .. N : m \in T
    BY <1>0, <1>1, <1>2, UpTo
  <2>2. N \in T
    BY <1>0, <2>1
  <2>. QED
    BY <2>2 DEF T
<1>4. Sums(files, ps) = CHOOSE f : Good(N, f)
  BY Zenon DEF Sums, Summed, N
<1>5. Good(N, Sums(files, ps))
  <2>. HIDE DEF Good
  <2>. QED
    BY <1>3, <1>4
<1>. QED
  BY <1>5

Sizes0(files, ps) == \A p \in ps \cap DOMAIN files : files[p].size \in Nat

LEMMA SizeIsNatural ==
    ASSUME NEW files, NEW ps, NEW p, Sizes0(files, ps)
    PROVE  SizeIn(files, ps, p) \in Nat
BY DEF SizeIn, Sizes0

(* Sums over sizes that agree from the first input on differ by what the       *)
(* runner adds.                                                                *)
LEMMA SumsDiffer ==
    ASSUME NEW f, NEW ps, NEW g, NEW qs, Sizes0(f, ps), Sizes0(g, qs), NEW m \in 0 .. N, NEW d \in Nat,
           SizeIn(f, ps, "runner") = SizeIn(g, qs, "runner") + d,
           \A k \in 1 .. m : SizeIn(f, ps, Order[k]) = SizeIn(g, qs, Order[k])
    PROVE  Sums(f, ps)[m] \in Nat /\ Sums(g, qs)[m] \in Nat /\ Sums(f, ps)[m] = Sums(g, qs)[m] + d
<1>. DEFINE a == Sums(f, ps)
            b == Sums(g, qs)
            T == { n \in 0 .. m : a[n] \in Nat /\ b[n] \in Nat /\ a[n] = b[n] + d }
<1>1. N \in Nat /\ m \in Nat
  BY OrderIsASequence DEF N
<1>2. /\ \A n \in 0 .. N : a[n] = Summed(f, ps, a, n)
      /\ \A n \in 0 .. N : b[n] = Summed(g, qs, b, n)
  BY SumsAre
<1>. HIDE DEF a, b
<1>3. 0 \in T
  BY <1>1, <1>2, SizeIsNatural DEF Summed
<1>4. ASSUME NEW n \in 0 .. m - 1, n \in T PROVE n + 1 \in T
  <2>1. /\ a[n + 1] = a[n] + SizeIn(f, ps, Order[n + 1])
        /\ b[n + 1] = b[n] + SizeIn(g, qs, Order[n + 1])
    BY <1>1, <1>2 DEF Summed
  <2>2. /\ SizeIn(f, ps, Order[n + 1]) = SizeIn(g, qs, Order[n + 1])
        /\ SizeIn(f, ps, Order[n + 1]) \in Nat
    BY <1>1, SizeIsNatural
  <2>. QED
    BY <1>1, <1>4, <2>1, <2>2
<1>5. m \in T
  <2>. HIDE DEF T
  <2>1. \A n \in 0 .. m : n \in T
    BY <1>1, <1>3, <1>4, UpTo
  <2>. QED
    BY <1>1, <2>1
<1>. QED
  BY <1>5 DEF a, b

LEMMA NothingSums ==
    ASSUME NEW f, NEW m \in 0 .. N
    PROVE  Sums(f, {})[m] = 0
<1>. DEFINE a == Sums(f, {})
            T == { n \in 0 .. m : a[n] = 0 }
<1>1. N \in Nat /\ m \in Nat
  BY OrderIsASequence DEF N
<1>2. \A n \in 0 .. N : a[n] = IF n = 0 THEN 0 ELSE a[n - 1] + 0
  BY SumsAre DEF Summed, SizeIn
<1>. HIDE DEF a
<1>3. 0 \in T
  BY <1>1, <1>2
<1>4. ASSUME NEW n \in 0 .. m - 1, n \in T PROVE n + 1 \in T
  BY <1>1, <1>2, <1>4
<1>5. m \in T
  <2>. HIDE DEF T
  <2>1. \A n \in 0 .. m : n \in T
    BY <1>1, <1>3, <1>4, UpTo
  <2>. QED
    BY <1>1, <2>1
<1>. QED
  BY <1>5 DEF a

-----------------------------------------------------------------------------
(* What nobody touched: verification sums and compares what capture charged    *)
(* and derived.                                                                *)

Count == Cardinality(DOMAIN captured)

(* What the budget has charged is what was captured.                           *)
BudgetInv ==
    /\ spent \in [AuthoredKinds \cup {"runner_source", "total"} -> Nat]
    /\ spent["runner_source"] = 0
    /\ \A kind \in AuthoredKinds : spent[kind] = Sums(captured, OfKind(kind))[Count]
    /\ spent["total"] = Sums(captured, Inputs)[Count]
    /\ \A kind \in AuthoredKinds \cap Aggregated : spent[kind] <= KindLimit
    /\ spent["total"] <= TotalLimit
    /\ \A i \in DOMAIN captured : captured[i].size <= MemberLimit

OwnDocuments(T) ==
    /\ DOMAIN T = Everything /\ T["index"].states \in [States("index") -> Nat]
    /\ \A p \in Range(Documents) :
          T[p].sound /\ \A q \in States(p) : T[p].states[q] = T[q].version
WithinLimits(T) ==
    /\ \A p \in Evidence : T[p].size <= MemberLimit
    /\ \A role \in Aggregated : Sums(T, OfRole(role))[N] <= KindLimit
    /\ Sums(T, Evidence)[N] <= TotalLimit

UntouchedInv ==
    edits = 0 =>
        /\ stage # "invalid"
        /\ stage \in {"prepared", "verify", "valid"} => OwnDocuments(tree) /\ WithinLimits(tree)
        /\ stage \in {"verify", "valid"} =>
              /\ inventory = tree /\ rootSeen = root
              /\ \A p \in DOMAIN loaded : p \in DOMAIN tree /\ loaded[p] = tree[p]

(* Whatever has been loaded of such a tree passes every check.                 *)
LEMMA OwnIsCoherent ==
    ASSUME OwnDocuments(tree), inventory = tree, NEW files,
           \A p \in DOMAIN files : p \in DOMAIN tree /\ files[p] = tree[p]
    PROVE  Coherent(files)
<1>1. {"runner_index", "manifest", "index", "environment", "case_index", "plan", "capsule",
       "events", "raw"} = Range(Documents)
  BY DEF Range, Documents
<1>2. /\ States("capsule") = {"runner_index", "manifest", "index", "environment",
                              "case_index", "plan"}
      /\ States("events") = States("capsule")
      /\ States("index") = Evidence \cup {"manifest"}
      /\ States("manifest") = OfKind("case") \cup OfKind("protocol")
      /\ States("runner_index") = {"runner"} /\ States("environment") = {"runner_index"}
  BY DEF States
<1>3. "runner" \in Evidence /\ OfKind("case") \subseteq Evidence /\ OfKind("protocol") \subseteq Evidence
  BY DEF Evidence, OfKind
<1>4. \A p \in Range(Documents) : \A q \in States(p) : Stated(files, p, q)
  BY DEF Stated, Have, OwnDocuments
<1>5. CapsuleDigests(files) /\ InputBytes(files)
  BY <1>1, <1>2, <1>4 DEF CapsuleDigests, InputBytes
<1>6. DerivedAgain(files, "case_index") /\ DerivedAgain(files, "plan")
  BY <1>1, <1>4 DEF DerivedAgain, Have, OwnDocuments
<1>7. \A p, q \in Range(Documents) : StatedAlike(files, p, q, States(p) \cap States(q))
  BY DEF StatedAlike, Have, OwnDocuments
<1>8. /\ ManifestCoverage(files) /\ RunnerIndex(files) /\ EnvironmentMatches(files)
      /\ PreparedEvent(files)
  <2>1. /\ States("manifest") \cap States("index") = OfKind("protocol") \cup OfKind("case")
        /\ States("runner_index") \cap States("index") = {"runner"}
        /\ States("environment") \cap States("capsule") = {"runner_index"}
        /\ States("events") \cap States("capsule") = States("capsule")
    BY <1>2, <1>3
  <2>2. /\ StatedAlike(files, "manifest", "index", OfKind("protocol") \cup OfKind("case"))
        /\ StatedAlike(files, "runner_index", "index", {"runner"})
        /\ StatedAlike(files, "environment", "capsule", {"runner_index"})
        /\ StatedAlike(files, "events", "capsule", States("capsule"))
    BY <1>1, <1>7, <2>1
  <2>. QED
    BY <2>2 DEF ManifestCoverage, RunnerIndex, EnvironmentMatches, PreparedEvent
<1>9. JournalsUnmoved(files)
  BY DEF JournalsUnmoved, Have
<1>10. ExactTree(files)
  <2>. SUFFICES ASSUME "index" \in DOMAIN files
                PROVE  DOMAIN inventory
                         = Range(Documents) \cup (DOMAIN files["index"].states \ {"manifest"})
    BY DEF ExactTree, Have
  <2>1. DOMAIN files["index"].states = Evidence \cup {"manifest"}
    BY <1>2 DEF OwnDocuments
  <2>2. DOMAIN inventory = Evidence \cup Range(Documents) /\ "manifest" \in Range(Documents)
    BY <1>1 DEF OwnDocuments, Everything
  <2>. QED
    BY <2>1, <2>2
<1>. QED
  BY <1>5, <1>6, <1>8, <1>9, <1>10 DEF Coherent

LEMMA OwnFits ==
    ASSUME WithinLimits(tree), inventory = tree, OwnDocuments(tree)
    PROVE  ResourcesFit
BY DEF WithinLimits, ResourcesFit, SizeOf, N, OwnDocuments

LEMMA RunnerIsNoInput == "runner" \notin Inputs /\ \A k \in 1 .. N : Order[k] \in Inputs
<1>1. DOMAIN Order = 1 .. N
  BY OrderIsASequence DEF N
<1>. QED
  BY <1>1, InputsAreNoDocuments DEF Inputs, Range

(* One more input adds its size to the sums it belongs to.                     *)
LEMMA OneMoreInput ==
    ASSUME IInv, NEW i \in Inputs, i = Order[Count + 1], Count < N, NEW data \in Content,
           captured' = Place(captured, i, data), NEW ps \in SUBSET Inputs
    PROVE  /\ Count' = Count + 1 /\ Sums(captured, ps)[Count] \in Nat
           /\ Sums(captured', ps)[Count'] =
                 IF i \in ps THEN Sums(captured, ps)[Count] + data.size ELSE Sums(captured, ps)[Count]
<1>1. /\ Count \in Nat /\ N \in Nat /\ DOMAIN captured = First(Count)
      /\ DOMAIN Order = 1 .. N /\ IsFiniteSet(DOMAIN captured)
  BY FS_CardinalityType, OrderIsASequence DEF IInv, CaptureInv, Count, N
<1>2. i \notin DOMAIN captured /\ \A k \in 1 .. Count : Order[k] \in DOMAIN captured /\ Order[k] # i
  <2>1. \A x : x \in DOMAIN captured <=> \E k \in 1 .. Count : x = Order[k]
    BY <1>1 DEF First
  <2>2. Count + 1 \in DOMAIN Order /\ Count + 1 \notin 1 .. Count /\ 1 .. Count \subseteq DOMAIN Order
    BY <1>1
  <2>3. \A k \in 1 .. Count : Order[k] # Order[Count + 1]
    BY Zenon, <2>2, OrderIsASequence
  <2>4. i \notin DOMAIN captured
    BY Zenon, <2>1, <2>3
  <2>5. \A k \in 1 .. Count : Order[k] \in DOMAIN captured
    BY Zenon, <2>1
  <2>6. \A k \in 1 .. Count : Order[k] # i
    BY Zenon, <2>3
  <2>. QED
    BY Zenon, <2>4, <2>5, <2>6
<1>3. /\ DOMAIN captured' = DOMAIN captured \cup {i} /\ captured'[i] = data
      /\ \A j \in DOMAIN captured : captured'[j] = captured[j]
  BY <1>2 DEF Place
<1>4. Count' = Count + 1
  BY <1>1, <1>2, <1>3, FS_AddElement DEF Count
<1>5. Sizes0(captured, ps) /\ Sizes0(captured', ps)
  <2>1. data.size \in Nat /\ \A j \in DOMAIN captured : captured[j].size \in Nat
    BY DEF IInv, CaptureInv, Content
  <2>2. \A j \in DOMAIN captured' : captured'[j].size \in Nat
    BY <1>3, <2>1
  <2>. QED
    BY <2>1, <2>2 DEF Sizes0
<1>6. \A k \in 1 .. Count : SizeIn(captured', ps, Order[k]) = SizeIn(captured, ps, Order[k])
  BY <1>2, <1>3 DEF SizeIn
<1>7. SizeIn(captured', ps, "runner") = 0 /\ SizeIn(captured, ps, "runner") = 0
  BY RunnerIsNoInput DEF SizeIn
<1>8. /\ Sums(captured', ps)[Count] = Sums(captured, ps)[Count] + 0
      /\ Sums(captured, ps)[Count] \in Nat
  BY <1>1, <1>5, <1>6, <1>7, SumsDiffer
<1>9. Sums(captured', ps)[Count + 1] = Sums(captured', ps)[Count] + SizeIn(captured', ps, i)
  <2>1. Count + 1 \in 0 .. N /\ Count + 1 # 0
    BY <1>1
  <2>2. Sums(captured', ps)[Count + 1] = Summed(captured', ps, Sums(captured', ps), Count + 1)
    BY <2>1, SumsAre
  <2>. QED
    BY <1>1, <2>1, <2>2 DEF Summed
<1>10. SizeIn(captured', ps, i) = IF i \in ps THEN data.size ELSE 0
  BY <1>3 DEF SizeIn
<1>11. data.size \in Nat
  BY DEF Content
<1>. QED
  BY <1>4, <1>8, <1>9, <1>10, <1>11

LEMMA CaptureCharges ==
    ASSUME IInv, BudgetInv, NEW i \in Inputs, CaptureInput(i)
    PROVE  BudgetInv'
<1>1. CASE UNCHANGED <<captured, spent>>
  BY <1>1 DEF BudgetInv, Count
<1>2. CASE ~UNCHANGED <<captured, spent>>
  <2>1. PICK data : data = Read(i)
    OBVIOUS
  <2>2. /\ captured' = Place(captured, i, data) /\ spent' = Charged(Kind[i], data.size)
        /\ Fits(Kind[i], data.size) /\ Count < N /\ i = Order[Count + 1]
    BY <1>2, <2>1 DEF CaptureInput, Count, N
  <2>3. data \in Content /\ data.size \in Nat /\ Kind[i] \in AuthoredKinds
    BY <2>1, KindsAreKnown DEF Read, Snapped, Locators, IInv, CaptureInv, Content
  <2>4. /\ \A kind \in AuthoredKinds : OfKind(kind) \subseteq Inputs
        /\ \A kind \in AuthoredKinds : i \in OfKind(kind) <=> kind = Kind[i]
        /\ "total" \notin AuthoredKinds /\ "runner_source" \notin AuthoredKinds
    BY DEF OfKind, AuthoredKinds
  <2>5. /\ spent' \in [AuthoredKinds \cup {"runner_source", "total"} -> Nat]
        /\ spent'["total"] = spent["total"] + data.size
        /\ spent'["runner_source"] = spent["runner_source"]
        /\ \A kind \in AuthoredKinds :
              spent'[kind] = IF kind = Kind[i] THEN spent[kind] + data.size ELSE spent[kind]
    BY <2>2, <2>3, <2>4 DEF Charged, BudgetInv
  <2>6. \A kind \in AuthoredKinds : spent'[kind] = Sums(captured', OfKind(kind))[Count']
    BY <2>2, <2>3, <2>4, <2>5, OneMoreInput DEF BudgetInv
  <2>7. spent'["total"] = Sums(captured', Inputs)[Count']
    BY <2>2, <2>3, <2>5, OneMoreInput DEF BudgetInv
  <2>8. /\ \A kind \in AuthoredKinds \cap Aggregated : spent'[kind] <= KindLimit
        /\ spent'["total"] <= TotalLimit /\ data.size <= MemberLimit
    BY <2>2, <2>5 DEF Fits, BudgetInv
  <2>9. \A j \in DOMAIN captured' : captured'[j].size <= MemberLimit
    BY <2>2, <2>8 DEF Place, BudgetInv
  <2>. QED
    BY <2>5, <2>6, <2>7, <2>8, <2>9 DEF BudgetInv
<1>. QED
  BY <1>1, <1>2

(* The capsule that Prepare makes is within every limit of verification.       *)
LEMMA PreparedIsOwn ==
    ASSUME IInv, BudgetInv, Prepare, RunnerFits
    PROVE  OwnDocuments(tree)' /\ WithinLimits(tree)'
<1>. DEFINE position(p) == CHOOSE n \in DOMAIN Documents : Documents[n] = p
            files == [ p \in Evidence \cup Range(Documents) |->
                         IF p = "runner" THEN [version |-> 0, size |-> RunnerSize]
                         ELSE IF p \in Inputs THEN captured[p]
                         ELSE [version |-> fresh + position(p), size |-> 1] ]
<1>1. /\ tree' = [ p \in DOMAIN files |->
                     IF p \in Evidence THEN InputFile(files[p])
                     ELSE Derived(p, files, files[p].version) ]
      /\ DOMAIN files = Everything /\ Count = N
  BY DEF Prepare, BuiltArtifacts, Everything, Count, N
<1>2. /\ files["runner"] = [version |-> 0, size |-> RunnerSize]
      /\ \A i \in Inputs : files[i] = captured[i]
      /\ "runner" \in Everything /\ "runner" \in Evidence /\ Inputs \subseteq Evidence
      /\ Evidence \subseteq Everything
  BY RunnerIsNoInput DEF Everything, Evidence
<1>. HIDE DEF files, position
<1>3. DOMAIN tree' = Everything /\ DOMAIN captured = Inputs
      /\ \A i \in Inputs : captured[i] \in Content
  BY <1>1, CapturedAll DEF IInv, Count, N
<1>4. /\ tree'["runner"].size = RunnerSize
      /\ \A i \in Inputs : tree'[i].size = captured[i].size
  BY <1>1, <1>2 DEF InputFile
<1>5. \A p \in Range(Documents) : p \notin Evidence /\ States(p) \subseteq Everything /\ p \in Everything
  BY InputsAreNoDocuments DEF Evidence, Everything, States, OfKind, Documents, Range
<1>6. \A p \in Everything : tree'[p].version = files[p].version
  BY <1>1 DEF InputFile, Derived
<1>7. \A p \in Range(Documents) :
         /\ tree'[p] = Derived(p, files, files[p].version)
         /\ tree'[p].sound /\ \A q \in States(p) : tree'[p].states[q] = files[q].version
  BY <1>1, <1>5 DEF Derived
<1>8. OwnDocuments(tree')
  <2>1. \A p \in Range(Documents) :
           tree'[p].sound /\ \A q \in States(p) : tree'[p].states[q] = tree'[q].version
    BY <1>5, <1>6, <1>7
  <2>2. tree'["index"].states \in [States("index") -> Nat]
    <3>1. "index" \in Everything
      BY <1>5 DEF Documents, Range
    <3>2. Older(tree'["index"], "index", fresh + Len(Documents) + 1)
      BY <3>1, BuiltIsOlder DEF IInv, Prepare
    <3>. QED
      BY <3>2 DEF Older, File
  <2>. QED
    BY <1>3, <2>1, <2>2 DEF OwnDocuments
<1>9. N \in Nat /\ RunnerSize \in Nat
  BY OrderIsASequence, SizesAreNatural DEF N
<1>10. \A p \in Evidence : tree'[p].size \in Nat
  BY <1>3, <1>4, <1>9 DEF Evidence, Content
<1>11. \A qs \in SUBSET Inputs : Sizes0(captured, qs)
  BY <1>3 DEF Sizes0, Content
<1>12. \A ps \in SUBSET Evidence : Sizes0(tree', ps)
  BY <1>10 DEF Sizes0
<1>13. \A ps \in SUBSET Evidence : \A k \in 1 .. N :
          SizeIn(tree', ps, Order[k]) = SizeIn(captured, ps \cap Inputs, Order[k])
  BY <1>2, <1>3, <1>4, RunnerIsNoInput DEF SizeIn
<1>14. \A ps \in SUBSET Evidence :
          /\ SizeIn(tree', ps, "runner") = IF "runner" \in ps THEN RunnerSize ELSE 0
          /\ SizeIn(captured, ps \cap Inputs, "runner") = 0
  BY <1>2, <1>3, <1>4, RunnerIsNoInput DEF SizeIn
<1>15. ASSUME NEW ps \in SUBSET Evidence
       PROVE  Sums(captured, ps \cap Inputs)[N] \in Nat
              /\ Sums(tree', ps)[N] = Sums(captured, ps \cap Inputs)[N]
                                        + (IF "runner" \in ps THEN RunnerSize ELSE 0)
  <2>. DEFINE d == IF "runner" \in ps THEN RunnerSize ELSE 0
  <2>1. d \in Nat /\ SizeIn(tree', ps, "runner") = SizeIn(captured, ps \cap Inputs, "runner") + d
    BY <1>9, <1>14
  <2>2. Sizes0(tree', ps) /\ Sizes0(captured, ps \cap Inputs) /\ N \in 0 .. N
    BY <1>9, <1>11, <1>12
  <2>. HIDE DEF d
  <2>3. Sums(captured, ps \cap Inputs)[N] \in Nat
        /\ Sums(tree', ps)[N] = Sums(captured, ps \cap Inputs)[N] + d
    BY <1>13, <2>1, <2>2, SumsDiffer
  <2>. QED
    BY <2>3 DEF d
<1>16. RunnerSize <= MemberLimit /\ spent["total"] + RunnerSize <= TotalLimit
       /\ RunnerSize <= KindLimit
  <2>1. "runner_source" \in Aggregated
    BY DEF Aggregated
  <2>2. spent["runner_source"] = 0 /\ spent["runner_source"] + RunnerSize <= KindLimit
        /\ RunnerSize <= MemberLimit /\ spent["total"] + RunnerSize <= TotalLimit
    BY <2>1 DEF RunnerFits, Fits, BudgetInv
  <2>. QED
    BY <1>9, <2>2
<1>17. \A p \in Evidence : tree'[p].size <= MemberLimit
  BY <1>3, <1>4, <1>16 DEF Evidence, BudgetInv
<1>18. Sums(tree', Evidence)[N] <= TotalLimit
  <2>1. Evidence \cap Inputs = Inputs
    BY <1>2
  <2>2. Sums(tree', Evidence)[N] = Sums(captured, Inputs)[N] + RunnerSize
    BY <1>2, <1>15, <2>1
  <2>. QED
    BY <1>1, <1>16, <2>2 DEF BudgetInv
<1>19. ASSUME NEW role \in Aggregated PROVE Sums(tree', OfRole(role))[N] <= KindLimit
  <2>1. CASE role = "runner_source"
    <3>1. OfRole(role) = {"runner"} /\ {"runner"} \in SUBSET Evidence /\ {"runner"} \cap Inputs = {}
      BY <1>2, <2>1, RunnerIsNoInput DEF OfRole
    <3>2. Sums(tree', {"runner"})[N] = Sums(captured, {})[N] + RunnerSize
      <4>1. Sums(tree', {"runner"})[N] = Sums(captured, {"runner"} \cap Inputs)[N] + RunnerSize
        BY <1>15, <3>1
      <4>. QED
        BY <3>1, <4>1
    <3>3. Sums(captured, {})[N] = 0
      BY <1>9, NothingSums
    <3>. QED
      BY <1>9, <1>16, <3>1, <3>2, <3>3
  <2>2. CASE role # "runner_source"
    <3>1. role \in AuthoredKinds \cap Aggregated /\ OfRole(role) = OfKind(role)
      BY <2>2 DEF Aggregated, AuthoredKinds, OfRole
    <3>2. OfKind(role) \in SUBSET Evidence /\ OfKind(role) \cap Inputs = OfKind(role)
          /\ "runner" \notin OfKind(role)
      BY <1>2, RunnerIsNoInput DEF OfKind
    <3>3. Sums(tree', OfKind(role))[N] = Sums(captured, OfKind(role))[N] + 0
          /\ Sums(captured, OfKind(role))[N] \in Nat
      <4>1. /\ Sums(tree', OfKind(role))[N] = Sums(captured, OfKind(role) \cap Inputs)[N] + 0
            /\ Sums(captured, OfKind(role) \cap Inputs)[N] \in Nat
        BY <1>15, <3>2
      <4>. QED
        BY <3>2, <4>1
    <3>. QED
      BY <1>1, <3>1, <3>3 DEF BudgetInv
  <2>. QED
    BY <2>1, <2>2
<1>20. WithinLimits(tree')
  BY <1>17, <1>18, <1>19 DEF WithinLimits
<1>. QED
  BY <1>8, <1>20 DEF OwnDocuments, WithinLimits

CountedInv == (stage = "capture" => BudgetInv) /\ edits \in Nat /\ UntouchedInv

LEMMA CountedStep ==
    ASSUME IInv, CountedInv, Next
    PROVE  CountedInv'
<1>1. ASSUME NEW i \in Inputs, CaptureInput(i) PROVE CountedInv'
  <2>1. stage = "capture" /\ stage' \in {"capture", "refused"} /\ edits' = edits
    BY <1>1 DEF CaptureInput
  <2>. QED
    BY <1>1, <2>1, CaptureCharges DEF CountedInv, UntouchedInv
<1>2. ASSUME NEW l \in Locators, EditSource(l) PROVE CountedInv'
  <2>1. /\ stage = "capture" /\ stage' \in {"capture", "refused"}
        /\ UNCHANGED <<captured, spent, edits>>
    BY <1>2 DEF EditSource
  <2>. QED
    BY <2>1 DEF CountedInv, UntouchedInv, BudgetInv, Count
<1>3. ASSUME Prepare PROVE CountedInv'
  <2>1. stage = "capture" /\ stage' \in {"prepared", "refused"} /\ edits' = edits
        /\ (stage' = "prepared" => RunnerFits)
    BY <1>3 DEF Prepare
  <2>2. stage' = "prepared" => OwnDocuments(tree)' /\ WithinLimits(tree)'
    BY <1>3, <2>1, PreparedIsOwn DEF CountedInv
  <2>. QED
    BY <2>1, <2>2 DEF CountedInv, UntouchedInv
<1>4. ASSUME BeginVerify PROVE CountedInv'
  <2>1. /\ stage = "prepared" /\ stage' = "verify" /\ inventory' = tree /\ rootSeen' = root
        /\ DOMAIN loaded' = {} /\ UNCHANGED <<tree, root, edits>>
    BY <1>4 DEF BeginVerify, None
  <2>. QED
    BY <2>1 DEF CountedInv, UntouchedInv, OwnDocuments, WithinLimits
<1>5. ASSUME NEW p \in Everything, Load(p) PROVE CountedInv'
  <2>1. /\ stage = "verify" /\ stage' \in {"verify", "invalid"}
        /\ UNCHANGED <<tree, inventory, rootSeen, root, edits>>
    BY <1>5 DEF Load
  <2>2. ASSUME edits = 0
        PROVE  /\ stage' = "verify"
               /\ \A q \in DOMAIN loaded' : q \in DOMAIN tree /\ loaded'[q] = tree[q]
    <3>1. /\ inventory = tree /\ OwnDocuments(tree) /\ WithinLimits(tree)
          /\ \A q \in DOMAIN loaded : q \in DOMAIN tree /\ loaded[q] = tree[q]
      BY <2>1, <2>2 DEF CountedInv, UntouchedInv
    <3>2. p \in DOMAIN tree \cap DOMAIN inventory
      BY <3>1 DEF OwnDocuments
    <3>3. /\ loaded' = Place(loaded, p, tree[p])
          /\ stage' = IF Coherent(loaded') /\ ResourcesFit THEN stage ELSE "invalid"
      BY <1>5, <3>2 DEF Load
    <3>4. \A q \in DOMAIN loaded' : q \in DOMAIN tree /\ loaded'[q] = tree[q]
      BY <3>1, <3>2, <3>3 DEF Place
    <3>5. Coherent(loaded') /\ ResourcesFit
      BY <3>1, <3>4, OwnIsCoherent, OwnFits
    <3>. QED
      BY <2>1, <3>3, <3>4, <3>5
  <2>. QED
    BY <2>1, <2>2 DEF CountedInv, UntouchedInv, OwnDocuments, WithinLimits
<1>6. ASSUME Conclude PROVE CountedInv'
  <2>1. /\ stage = "verify" /\ stage' = IF SameAtTheEnd THEN "valid" ELSE "invalid"
        /\ UNCHANGED <<tree, inventory, rootSeen, loaded, root, edits>>
    BY <1>6 DEF Conclude, verification
  <2>2. edits = 0 => SameAtTheEnd
    BY <2>1 DEF CountedInv, UntouchedInv, SameAtTheEnd
  <2>. QED
    BY <2>1, <2>2 DEF CountedInv, UntouchedInv, OwnDocuments, WithinLimits
<1>7. ASSUME EditCapsule PROVE CountedInv'
  <2>1. stage' = stage /\ stage # "capture" /\ edits' = edits + 1
    BY <1>7 DEF EditCapsule
  <2>. QED
    BY <2>1 DEF CountedInv, UntouchedInv
<1>. QED
  BY <1>1, <1>2, <1>3, <1>4, <1>5, <1>6, <1>7 DEF Next, Everything

LEMMA CountedStutter ==
    ASSUME CountedInv, UNCHANGED vars
    PROVE  CountedInv'
BY DEF vars, capture, verification, CountedInv, BudgetInv, Count, UntouchedInv, OwnDocuments, WithinLimits

LEMMA CountedAtFirst ==
    ASSUME Init
    PROVE  CountedInv
<1>1. /\ stage = "capture" /\ edits = 0 /\ DOMAIN captured = {}
      /\ spent = [k \in AuthoredKinds \cup {"runner_source", "total"} |-> 0]
  BY DEF Init, None
<1>2. Count = 0 /\ 0 \in 0 .. N
  BY <1>1, FS_EmptySet, OrderIsASequence DEF Count, N
<1>3. \A ps : Sums(captured, ps)[0] = 0
  BY <1>1, <1>2, SumsAre DEF Summed, SizeIn
<1>4. BudgetInv
  BY <1>1, <1>2, <1>3, LimitsAreNatural DEF BudgetInv
<1>. QED
  BY <1>1, <1>4 DEF CountedInv, UntouchedInv

(* Whatever capture accepted, verification finds within its limits and its     *)
(* digests, for any inputs, sizes, limits and edits of the sources             *)
(* (_CaptureBudget and capture_runner_source against _resource_checks).        *)
THEOREM UntouchedPasses == Spec => []UntouchedIsValid
<1>1. IInv /\ CountedInv /\ [Next]_vars => CountedInv'
  BY CountedStep, CountedStutter
<1>2. CountedInv => UntouchedIsValid
  BY DEF CountedInv, UntouchedInv, UntouchedIsValid
<1>. QED
  BY <1>1, <1>2, CountedAtFirst, Invariance, PTL DEF Spec
=============================================================================
