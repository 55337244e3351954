---------------------- MODULE CapsulePublicationProofs ----------------------
(* Theorems about CapsulePublication for every number of preparations, run     *)
(* ids, resumes, verifications and power losses.  The invariant IInv below is  *)
(* inductive; the safety properties follow from it.                            *)
EXTENDS CapsulePublication, TLAPS

-----------------------------------------------------------------------------
(* The inductive invariant *)

Names == {"none", "staging", "published"}
Before == {"new", "creating", "staged", "probed"}
Held == {"locked", "written", "treeSynced", "marked", "ready", "renamed"} \cup Public
Places == Before \cup Held \cup Undoing \cup Returned
          \cup {"opened", "probing", "preflight", "verifying", "session", "reading"}
Visitors == Resumers \cup Verifiers

TypeOK ==
    /\ pc \in [Actors -> Places]
    /\ at \in [Preparers -> Names] /\ synced \in [Preparers -> Names]
    /\ has \in [Preparers -> SUBSET Parts] /\ kept \in [Preparers -> SUBSET Parts]
    /\ version \in [Preparers -> Nat] /\ losses \in Nat
    /\ exclusive \in [Preparers -> Actors \cup {NoOne}]
    /\ shared \in [Preparers -> SUBSET Verifiers]
    /\ target \in [Visitors -> Preparers \cup {NoOne}]
    /\ seen \in [Verifiers -> Nat]

(* The name of a directory says how far its preparation is, and what is under  *)
(* a run id is whole, also on stable storage.                                  *)
NameInv(p) ==
    /\ at[p] = "published" => has[p] = Parts /\ kept[p] = Parts
    /\ synced[p] = "published" => at[p] = "published"
    /\ pc[p] \in {"new", "creating"} => at[p] = "none" /\ synced[p] = "none"
    /\ pc[p] \in {"staged", "probed", "locked", "written", "treeSynced", "marked", "ready"} =>
           at[p] = "staging"
    /\ pc[p] \in {"renamed"} \cup Public => at[p] = "published"
    /\ pc[p] \in {"visible", "verified", "prepared"} => synced[p] = "published"

(* A directory is filled in order, and synced before the marker and after.     *)
ContentInv(p) ==
    /\ pc[p] = "locked" => "lock" \in has[p]
    /\ pc[p] \in {"written", "treeSynced"} => {"lock", "artifacts"} \subseteq has[p]
    /\ pc[p] \in {"marked", "ready"} => has[p] = Parts
    /\ pc[p] = "ready" => kept[p] = Parts

(* A preparation holds its own lock until it is verified, so that no row is    *)
(* written before.                                                             *)
OwnLockInv(p) ==
    /\ pc[p] \in Held => exclusive[p] = p
    /\ pc[p] \in Before => exclusive[p] = NoOne
    /\ pc[p] \in Before \cup Held => version[p] = 0

PrepInv(p) == NameInv(p) /\ ContentInv(p) /\ OwnLockInv(p)

(* What is opened is published and stays so.                                   *)
VisitInv(a) ==
    /\ pc[a] # "invalid"
    /\ pc[a] \in {"opened", "locked", "probing", "preflight", "verifying", "session", "reading"} =>
           target[a] \in Preparers /\ at[target[a]] = "published"

ResumeInv(m) ==
    /\ pc[m] \in {"locked", "probing", "preflight", "verifying", "session"} =>
           exclusive[target[m]] = m
    /\ pc[m] \in {"preflight", "verifying", "session"} => synced[target[m]] = "published"

VerifyInv(v) ==
    /\ pc[v] # "unstable"
    /\ pc[v] \in {"locked", "reading"} => v \in shared[target[v]]
    /\ pc[v] = "reading" => seen[v] = version[target[v]]

(* Shared holders exclude an exclusive one.                                    *)
SharedInv(p) ==
    /\ shared[p] # {} => exclusive[p] = NoOne
    /\ \A v \in shared[p] : pc[v] \in {"locked", "reading"} /\ target[v] = p

IInv ==
    /\ TypeOK
    /\ \A p \in Preparers : PrepInv(p) /\ SharedInv(p)
    /\ \A a \in Visitors : VisitInv(a)
    /\ \A m \in Resumers : ResumeInv(m)
    /\ \A v \in Verifiers : VerifyInv(v)

-----------------------------------------------------------------------------
(* Frames: what a step of one actor may change without disturbing the others   *)

LEMMA ActorsDiffer ==
    ASSUME NEW p \in Preparers, NEW a \in Visitors
    PROVE  p # a /\ p \in Actors /\ a \in Actors /\ NoOne \notin {p, a}
BY ActorsAreDistinct DEF Visitors, Actors

(* A preparation works on its own directory and lock, never takes back a name  *)
(* and never takes its lock from another.                                      *)
LEMMA PreparerStep ==
    ASSUME IInv, NEW p \in Preparers,
           NEW place \in Places, pc' = [pc EXCEPT ![p] = place],
           NEW name \in Names, at' = [at EXCEPT ![p] = name],
           synced' = synced \/ synced' = at',
           NEW parts \in SUBSET Parts, has' = [has EXCEPT ![p] = parts],
           NEW stable \in SUBSET Parts, kept' = [kept EXCEPT ![p] = stable],
           NEW holder \in Actors \cup {NoOne}, exclusive' = [exclusive EXCEPT ![p] = holder],
           UNCHANGED <<version, shared, target, seen, losses>>,
           at[p] = "published" => name = "published",
           exclusive[p] \in Resumers => holder = exclusive[p],
           shared[p] # {} => holder = NoOne,
           PrepInv(p)'
    PROVE  IInv'
<1>1. TypeOK /\ p \in Actors
  BY DEF IInv, Actors
<1>2. TypeOK'
  BY <1>1 DEF TypeOK
<1>3. /\ \A a \in Actors : a # p => pc'[a] = pc[a]
      /\ \A q \in Preparers : q # p => /\ at'[q] = at[q] /\ has'[q] = has[q]
                                      /\ kept'[q] = kept[q] /\ exclusive'[q] = exclusive[q]
      /\ at'[p] = name /\ exclusive'[p] = holder
  BY <1>1 DEF TypeOK
<1>4. \A q \in Preparers : synced'[q] \in {synced[q], at'[q]}
  OBVIOUS
<1>5. \A q \in Preparers : synced[q] = "published" => synced'[q] = "published"
  BY <1>3, <1>4 DEF IInv, PrepInv, NameInv
<1>6. ASSUME NEW q \in Preparers, q # p PROVE PrepInv(q)'
  <2>1. /\ PrepInv(q) /\ pc'[q] = pc[q] /\ at'[q] = at[q] /\ has'[q] = has[q]
        /\ kept'[q] = kept[q] /\ exclusive'[q] = exclusive[q] /\ version'[q] = version[q]
        /\ synced'[q] \in {synced[q], at[q]}
    BY <1>3, <1>4, <1>6 DEF IInv, Actors
  <2>2. NameInv(q)'
    BY <2>1 DEF PrepInv, NameInv, Public
  <2>3. ContentInv(q)' /\ OwnLockInv(q)'
    BY <2>1 DEF PrepInv, ContentInv, OwnLockInv
  <2>. QED
    BY <2>2, <2>3 DEF PrepInv
<1>7. \A a \in Visitors : pc'[a] = pc[a] /\ target'[a] = target[a]
  BY <1>3, ActorsDiffer
<1>8. \A q \in Preparers : SharedInv(q)'
  <2>1. \A q \in Preparers : shared[q] \subseteq Visitors
    BY <1>1 DEF TypeOK, Visitors
  <2>. QED
    BY <1>3, <1>7, <2>1 DEF IInv, SharedInv
<1>9. \A a \in Visitors : VisitInv(a)'
  BY <1>3, <1>7 DEF IInv, VisitInv
<1>10. ASSUME NEW m \in Resumers PROVE ResumeInv(m)'
  <2>1. ResumeInv(m) /\ VisitInv(m) /\ m \in Visitors
    BY DEF IInv, Visitors
  <2>. QED
    BY <1>3, <1>5, <1>7, <2>1 DEF ResumeInv, VisitInv
<1>11. \A v \in Verifiers : VerifyInv(v)'
  BY <1>7 DEF IInv, VerifyInv, Visitors
<1>. QED
  BY <1>2, <1>6, <1>8, <1>9, <1>10, <1>11 DEF IInv

(* A resume or verification leaves names and contents alone, takes only a free *)
(* lock of a published capsule, and writes only under its own.                 *)
LEMMA VisitorStep ==
    ASSUME IInv, NEW a \in Visitors, TypeOK',
           \A b \in Actors : b # a => pc'[b] = pc[b],
           \A b \in Visitors : b # a => target'[b] = target[b],
           \A v \in Verifiers : v # a => seen'[v] = seen[v],
           UNCHANGED <<at, has, kept>>, synced' = synced \/ synced' = at,
           \A p \in Preparers :
              /\ \/ exclusive'[p] = exclusive[p]
                 \/ exclusive[p] = NoOne /\ at[p] = "published"
                 \/ exclusive[p] = a
              /\ version'[p] = version[p] \/ exclusive[p] = a
              /\ \A v \in Verifiers : v # a => (v \in shared'[p] <=> v \in shared[p])
              /\ shared'[p] # {} => exclusive'[p] = NoOne
              /\ a \in shared'[p] => pc'[a] \in {"locked", "reading"} /\ target'[a] = p,
           VisitInv(a)', a \in Resumers => ResumeInv(a)', a \in Verifiers => VerifyInv(a)'
    PROVE  IInv'
<1>1. TypeOK
  BY DEF IInv
<1>2. \A p \in Preparers : synced'[p] \in {synced[p], at[p]}
  OBVIOUS
<1>3. \A p \in Preparers : synced[p] = "published" => synced'[p] = "published"
  BY <1>2 DEF IInv, PrepInv, NameInv
<1>4. ASSUME NEW p \in Preparers PROVE PrepInv(p)'
  <2>1. /\ PrepInv(p) /\ pc'[p] = pc[p] /\ at'[p] = at[p] /\ has'[p] = has[p]
        /\ kept'[p] = kept[p] /\ synced'[p] \in {synced[p], at[p]}
        /\ p # a /\ p # NoOne /\ a # NoOne
    BY <1>2, ActorsDiffer DEF IInv
  <2>2. NameInv(p)'
    BY <2>1 DEF PrepInv, NameInv, Public
  <2>3. ContentInv(p)'
    BY <2>1 DEF PrepInv, ContentInv
  <2>4. pc[p] \in Before => at[p] # "published"
    BY <2>1 DEF PrepInv, NameInv, Before
  <2>5. OwnLockInv(p)'
    BY <2>1, <2>4 DEF PrepInv, OwnLockInv
  <2>. QED
    BY <2>2, <2>3, <2>5 DEF PrepInv
<1>5. ASSUME NEW p \in Preparers PROVE SharedInv(p)'
  <2>. SUFFICES ASSUME NEW v \in shared'[p]
                PROVE  pc'[v] \in {"locked", "reading"} /\ target'[v] = p
    BY DEF SharedInv
  <2>1. v \in Verifiers /\ v \in Visitors /\ v \in Actors
    BY DEF TypeOK, Visitors, Actors
  <2>. QED
    BY <2>1 DEF IInv, SharedInv
<1>6. ASSUME NEW b \in Visitors, b # a PROVE VisitInv(b)'
  BY <1>6, ActorsDiffer DEF IInv, VisitInv, Actors, Visitors
<1>7. ASSUME NEW m \in Resumers, m # a PROVE ResumeInv(m)'
  <2>1. /\ ResumeInv(m) /\ VisitInv(m) /\ m \in Visitors /\ pc'[m] = pc[m]
        /\ target'[m] = target[m] /\ m # NoOne
    BY <1>7, ActorsAreDistinct DEF IInv, Visitors, Actors
  <2>. QED
    BY <1>3, <1>7, <2>1 DEF ResumeInv, VisitInv
<1>8. ASSUME NEW v \in Verifiers, v # a PROVE VerifyInv(v)'
  <2>1. /\ VerifyInv(v) /\ VisitInv(v) /\ v \in Visitors /\ pc'[v] = pc[v]
        /\ target'[v] = target[v] /\ seen'[v] = seen[v] /\ a # NoOne
    BY <1>8, ActorsAreDistinct DEF IInv, Visitors, Actors
  <2>2. CASE pc[v] \in {"locked", "reading"}
    <3>1. target[v] \in Preparers /\ v \in shared[target[v]]
      BY <2>1, <2>2 DEF VisitInv, VerifyInv
    <3>2. exclusive[target[v]] # a
      BY <2>1, <3>1 DEF IInv, SharedInv
    <3>. QED
      BY <1>8, <2>1, <3>1, <3>2 DEF VerifyInv
  <2>3. CASE pc[v] \notin {"locked", "reading"}
    BY <2>1, <2>3 DEF VerifyInv
  <2>. QED
    BY <2>2, <2>3
<1>. QED
  BY <1>4, <1>5, <1>6, <1>7, <1>8 DEF IInv

-----------------------------------------------------------------------------
(* Steps of a preparation *)

LEMMA OwnEntries ==
    ASSUME IInv, NEW p \in Preparers
    PROVE  /\ at = [at EXCEPT ![p] = at[p]] /\ has = [has EXCEPT ![p] = has[p]]
           /\ kept = [kept EXCEPT ![p] = kept[p]]
           /\ exclusive = [exclusive EXCEPT ![p] = exclusive[p]]
           /\ at[p] \in Names /\ has[p] \in SUBSET Parts /\ kept[p] \in SUBSET Parts
           /\ exclusive[p] \in Actors \cup {NoOne}
           /\ shared[p] # {} => exclusive[p] = NoOne
           /\ p \notin Resumers /\ NoOne \notin Resumers
           /\ PrepInv(p) /\ p \in Actors
BY ActorsAreDistinct DEF IInv, TypeOK, SharedInv, Actors

(* Only the place changes.                                                     *)
LEMMA MoveStep ==
    ASSUME IInv, NEW p \in Preparers, NEW place \in Places,
           pc' = [pc EXCEPT ![p] = place],
           UNCHANGED <<at, synced, has, kept, exclusive, version, shared, target, seen, losses>>,
           PrepInv(p)'
    PROVE  IInv'
BY OwnEntries, PreparerStep

(* The place and what the directory holds change.                              *)
LEMMA ContentStep ==
    ASSUME IInv, NEW p \in Preparers, NEW place \in Places,
           pc' = [pc EXCEPT ![p] = place],
           NEW parts \in SUBSET Parts, has' = [has EXCEPT ![p] = parts],
           NEW stable \in SUBSET Parts, kept' = [kept EXCEPT ![p] = stable],
           UNCHANGED <<at, synced, exclusive, version, shared, target, seen, losses>>,
           PrepInv(p)'
    PROVE  IInv'
BY OwnEntries, PreparerStep

(* A preparation that leaves, however far it got, drops its lock and keeps the *)
(* files as they are.                                                          *)
LEMMA LeaveStep ==
    ASSUME IInv, NEW p \in Preparers, NEW result \in {"prepared", "post_publish", "failed"},
           Leave(p, result), UNCHANGED <<at, has, kept, version>>,
           synced' = synced \/ synced' = at',
           result = "prepared" => at[p] = "published" /\ synced'[p] = "published"
    PROVE  IInv'
<1>1. /\ pc' = [pc EXCEPT ![p] = result] /\ result \in Places
      /\ exclusive' = [exclusive EXCEPT ![p] = IF exclusive[p] = p THEN NoOne ELSE exclusive[p]]
      /\ UNCHANGED <<shared, target, seen, losses>>
  BY DEF Leave, Goto, Places, Returned
<1>2. PICK holder : holder = IF exclusive[p] = p THEN NoOne ELSE exclusive[p]
  OBVIOUS
<1>3. /\ holder \in Actors \cup {NoOne}
      /\ exclusive[p] \in Resumers => holder = exclusive[p]
      /\ shared[p] # {} => holder = NoOne
  BY <1>2, OwnEntries
<1>4. pc'[p] = result /\ synced'[p] \in {synced[p], at[p]}
  BY <1>1, OwnEntries DEF IInv, TypeOK
<1>5. PrepInv(p)'
  <2>1. result \notin Before \cup Held
    BY DEF Before, Held, Public
  <2>2. NameInv(p)'
    BY <1>4, OwnEntries DEF PrepInv, NameInv, Public
  <2>3. ContentInv(p)' /\ OwnLockInv(p)'
    BY <1>4, <2>1 DEF ContentInv, OwnLockInv
  <2>. QED
    BY <2>2, <2>3 DEF PrepInv
<1>. HIDE DEF Places
<1>. QED
  BY <1>1, <1>2, <1>3, <1>5, OwnEntries, PreparerStep


LEMMA BeginStep ==
    ASSUME IInv, NEW p \in Preparers, AcquireCreatorLock(p) \/ CreateStaging(p) \/ Probe(p)
    PROVE  IInv'
<1>1. TypeOK /\ PrepInv(p) /\ p \in Actors
  BY OwnEntries DEF IInv
<1>2. CASE AcquireCreatorLock(p)
  <2>1. /\ pc[p] = "new" /\ pc' = [pc EXCEPT ![p] = "creating"] /\ "creating" \in Places
        /\ UNCHANGED <<at, synced, has, kept, exclusive, version, shared, target, seen, losses>>
    BY <1>2 DEF AcquireCreatorLock, Goto, files, Places, Before
  <2>2. pc'[p] = "creating"
    BY <1>1, <2>1 DEF TypeOK
  <2>3. PrepInv(p)'
    BY <1>1, <2>1, <2>2 DEF PrepInv, NameInv, ContentInv, OwnLockInv, Before, Held, Public
  <2>. QED
    BY <2>1, <2>3, MoveStep
<1>3. CASE CreateStaging(p)
  <2>1. /\ pc[p] = "creating" /\ pc' = [pc EXCEPT ![p] = "staged"] /\ "staged" \in Places
        /\ at' = [at EXCEPT ![p] = "staging"] /\ "staging" \in Names
        /\ UNCHANGED <<synced, has, kept, exclusive, version, shared, target, seen, losses>>
    BY <1>3 DEF CreateStaging, Goto, locks, Places, Before, Names
  <2>2. pc'[p] = "staged" /\ at'[p] = "staging" /\ at[p] = "none" /\ synced[p] = "none"
    BY <1>1, <2>1 DEF TypeOK, PrepInv, NameInv
  <2>3. PrepInv(p)'
    BY <1>1, <2>1, <2>2 DEF PrepInv, NameInv, ContentInv, OwnLockInv, Before, Held, Public
  <2>. HIDE DEF Places, Names
  <2>. QED
    BY <2>1, <2>2, <2>3, OwnEntries, PreparerStep
<1>4. CASE Probe(p)
  <2>1. /\ pc[p] = "staged" /\ pc' = [pc EXCEPT ![p] = "probed"] /\ "probed" \in Places
        /\ UNCHANGED <<at, synced, has, kept, exclusive, version, shared, target, seen, losses>>
    BY <1>4 DEF Probe, Goto, files, locks, Places, Before
  <2>2. pc'[p] = "probed"
    BY <1>1, <2>1 DEF TypeOK
  <2>3. PrepInv(p)'
    BY <1>1, <2>1, <2>2 DEF PrepInv, NameInv, ContentInv, OwnLockInv, Before, Held, Public
  <2>. QED
    BY <2>1, <2>3, MoveStep
<1>. QED
  BY <1>2, <1>3, <1>4

(* Nothing unpublished is held shared: it has never been opened.               *)
LEMMA UnopenedIsFree ==
    ASSUME IInv, NEW p \in Preparers, at[p] # "published"
    PROVE  shared[p] = {}
<1>. SUFFICES ASSUME NEW v \in shared[p] PROVE FALSE
  OBVIOUS
<1>1. v \in Verifiers /\ v \in Visitors
  BY DEF IInv, TypeOK, Visitors
<1>2. pc[v] \in {"locked", "reading"} /\ target[v] = p
  BY DEF IInv, SharedInv
<1>. QED
  BY <1>1, <1>2 DEF IInv, VisitInv

LEMMA LockStep ==
    ASSUME IInv, NEW p \in Preparers, CreatePersistentLock(p)
    PROVE  IInv'
<1>1. TypeOK /\ PrepInv(p) /\ p \in Actors
  BY OwnEntries DEF IInv
<1>2. PICK parts : parts = has[p] \cup {"lock"}
  OBVIOUS
<1>3. /\ pc[p] = "probed" /\ pc' = [pc EXCEPT ![p] = "locked"] /\ "locked" \in Places
      /\ has' = [has EXCEPT ![p] = parts] /\ parts \in SUBSET Parts
      /\ exclusive' = [exclusive EXCEPT ![p] = p]
      /\ UNCHANGED <<at, synced, kept, version, shared, target, seen, losses>>
  BY <1>1, <1>2 DEF CreatePersistentLock, Goto, Places, Held, TypeOK, Parts
<1>4. /\ pc'[p] = "locked" /\ has'[p] = parts /\ exclusive'[p] = p
      /\ at[p] = "staging" /\ synced[p] # "published" /\ exclusive[p] = NoOne /\ version[p] = 0
  BY <1>1, <1>3 DEF TypeOK, PrepInv, NameInv, OwnLockInv, Before
<1>5. PrepInv(p)'
  BY <1>2, <1>3, <1>4 DEF PrepInv, NameInv, ContentInv, OwnLockInv, Before, Held, Public
<1>6. shared[p] = {}
  BY <1>4, UnopenedIsFree
<1>. QED
  BY <1>1, <1>3, <1>4, <1>5, <1>6, OwnEntries, PreparerStep

LEMMA FillStep ==
    ASSUME IInv, NEW p \in Preparers,
           WriteArtifacts(p) \/ WriteMarker(p) \/ SyncTree(p) \/ SyncMarker(p)
    PROVE  IInv'
<1>1. TypeOK /\ PrepInv(p) /\ p \in Actors
  BY OwnEntries DEF IInv
<1>2. CASE WriteArtifacts(p)
  <2>1. PICK parts : parts = has[p] \cup {"artifacts"}
    OBVIOUS
  <2>2. /\ pc[p] = "locked" /\ pc' = [pc EXCEPT ![p] = "written"] /\ "written" \in Places
        /\ has' = [has EXCEPT ![p] = parts] /\ parts \in SUBSET Parts
        /\ UNCHANGED <<at, synced, kept, exclusive, version, shared, target, seen, losses>>
    BY <1>1, <1>2, <2>1 DEF WriteArtifacts, Write, Goto, locks, Places, Held, TypeOK, Parts
  <2>3. pc'[p] = "written" /\ has'[p] = parts /\ at[p] = "staging" /\ "lock" \in has[p]
    BY <1>1, <2>2 DEF TypeOK, PrepInv, NameInv, ContentInv
  <2>4. PrepInv(p)'
    BY <1>1, <2>1, <2>2, <2>3
       DEF PrepInv, NameInv, ContentInv, OwnLockInv, Before, Held, Public
  <2>. QED
    BY <2>2, <2>4, OwnEntries, ContentStep
<1>3. CASE WriteMarker(p)
  <2>1. PICK parts : parts = has[p] \cup {"marker"}
    OBVIOUS
  <2>2. /\ pc[p] = "treeSynced" /\ pc' = [pc EXCEPT ![p] = "marked"] /\ "marked" \in Places
        /\ has' = [has EXCEPT ![p] = parts] /\ parts \in SUBSET Parts
        /\ UNCHANGED <<at, synced, kept, exclusive, version, shared, target, seen, losses>>
    BY <1>1, <1>3, <2>1 DEF WriteMarker, Write, Goto, locks, Places, Held, TypeOK, Parts
  <2>3. pc'[p] = "marked" /\ has'[p] = Parts /\ at[p] = "staging"
    BY <1>1, <2>1, <2>2 DEF TypeOK, PrepInv, NameInv, ContentInv, Parts
  <2>4. PrepInv(p)'
    BY <1>1, <2>2, <2>3 DEF PrepInv, NameInv, ContentInv, OwnLockInv, Before, Held, Public
  <2>. QED
    BY <2>2, <2>4, OwnEntries, ContentStep
<1>4. CASE SyncTree(p) \/ SyncMarker(p)
  <2>1. PICK stable : stable = has[p]
    OBVIOUS
  <2>2. PICK place : \/ pc[p] = "written" /\ place = "treeSynced"
                     \/ pc[p] = "marked" /\ place = "ready"
    BY <1>4 DEF SyncTree, SyncMarker, SyncDirectory
  <2>3. /\ pc' = [pc EXCEPT ![p] = place] /\ place \in Places
        /\ kept' = [kept EXCEPT ![p] = stable] /\ stable \in SUBSET Parts
        /\ UNCHANGED <<at, synced, has, exclusive, version, shared, target, seen, losses>>
    BY <1>1, <1>4, <2>1, <2>2
       DEF SyncTree, SyncMarker, SyncDirectory, Goto, locks, Places, Held, TypeOK
  <2>4. pc'[p] = place /\ kept'[p] = has[p] /\ at[p] = "staging"
    BY <1>1, <2>1, <2>2, <2>3 DEF TypeOK, PrepInv, NameInv
  <2>5. PrepInv(p)'
    BY <1>1, <2>2, <2>3, <2>4
       DEF PrepInv, NameInv, ContentInv, OwnLockInv, Before, Held, Public
  <2>. QED
    BY <2>3, <2>5, OwnEntries, ContentStep
<1>. QED
  BY <1>2, <1>3, <1>4

LEMMA RenameStep ==
    ASSUME IInv, NEW p \in Preparers, Rename(p)
    PROVE  IInv'
<1>1. TypeOK /\ PrepInv(p) /\ p \in Actors
  BY OwnEntries DEF IInv
<1>2. /\ pc[p] = "ready"
      /\ UNCHANGED <<synced, has, kept, exclusive, version, shared, target, seen, losses>>
  BY DEF Rename, locks
<1>3. /\ at[p] = "staging" /\ synced[p] # "published" /\ has[p] = Parts /\ kept[p] = Parts
      /\ exclusive[p] = p /\ version[p] = 0
  BY <1>1, <1>2 DEF PrepInv, NameInv, ContentInv, OwnLockInv, Held
<1>4. CASE at' = at /\ pc' = [pc EXCEPT ![p] = "cleaning"]
  <2>1. pc'[p] = "cleaning" /\ "cleaning" \in Places
    BY <1>1, <1>4 DEF TypeOK, Places, Undoing
  <2>2. PrepInv(p)'
    BY <1>2, <1>3, <1>4, <2>1
       DEF PrepInv, NameInv, ContentInv, OwnLockInv, Before, Held, Public
  <2>. QED
    BY <1>2, <1>4, <2>1, <2>2, MoveStep
<1>5. CASE at' = [at EXCEPT ![p] = "published"] /\ pc' = [pc EXCEPT ![p] = "renamed"]
  <2>1. /\ pc'[p] = "renamed" /\ "renamed" \in Places
        /\ at'[p] = "published" /\ "published" \in Names
    BY <1>1, <1>5 DEF TypeOK, Places, Held, Names
  <2>2. PrepInv(p)'
    BY <1>2, <1>3, <1>5, <2>1
       DEF PrepInv, NameInv, ContentInv, OwnLockInv, Before, Held, Public
  <2>. HIDE DEF Places, Names
  <2>. QED
    BY <1>2, <1>5, <2>1, <2>2, OwnEntries, PreparerStep
<1>. QED
  BY <1>4, <1>5 DEF Rename, Goto

LEMMA PublishStep ==
    ASSUME IInv, NEW p \in Preparers,
           MarkPublished(p) \/ SyncPublication(p) \/ VerifyPublished(p) \/ ReturnPrepared(p)
    PROVE  IInv'
<1>1. TypeOK /\ PrepInv(p) /\ p \in Actors
  BY OwnEntries DEF IInv
<1>2. CASE MarkPublished(p)
  <2>1. /\ pc[p] = "renamed" /\ pc' = [pc EXCEPT ![p] = "published"] /\ "published" \in Places
        /\ UNCHANGED <<at, synced, has, kept, exclusive, version, shared, target, seen, losses>>
    BY <1>2 DEF MarkPublished, Goto, files, locks, Places, Held, Public
  <2>2. pc'[p] = "published"
    BY <1>1, <2>1 DEF TypeOK
  <2>3. PrepInv(p)'
    BY <1>1, <2>1, <2>2 DEF PrepInv, NameInv, ContentInv, OwnLockInv, Before, Held, Public
  <2>. QED
    BY <2>1, <2>3, MoveStep
<1>3. CASE SyncPublication(p)
  <2>1. /\ pc[p] = "published" /\ pc' = [pc EXCEPT ![p] = "visible"] /\ "visible" \in Places
        /\ synced' = at /\ at' = at
        /\ UNCHANGED <<has, kept, exclusive, version, shared, target, seen, losses>>
    BY <1>3 DEF SyncPublication, SyncRoot, Goto, locks, Places, Held, Public
  <2>2. pc'[p] = "visible" /\ synced'[p] = at[p]
    BY <1>1, <2>1 DEF TypeOK
  <2>3. PrepInv(p)'
    BY <1>1, <2>1, <2>2 DEF PrepInv, NameInv, ContentInv, OwnLockInv, Before, Held, Public
  <2>. HIDE DEF Places
  <2>. QED
    BY <2>1, <2>3, OwnEntries, PreparerStep
<1>4. CASE VerifyPublished(p)
  <2>1. pc[p] = "visible" /\ UNCHANGED <<at, synced, has, kept, version>>
    BY <1>4 DEF VerifyPublished, files
  <2>2. CASE pc' = [pc EXCEPT ![p] = "verified"] /\ UNCHANGED <<exclusive, shared, target, seen, losses>>
    <3>1. pc'[p] = "verified" /\ "verified" \in Places
      BY <1>1, <2>2 DEF TypeOK, Places, Held, Public
    <3>2. PrepInv(p)'
      BY <1>1, <2>1, <2>2, <3>1
         DEF PrepInv, NameInv, ContentInv, OwnLockInv, Before, Held, Public
    <3>. QED
      BY <2>1, <2>2, <3>1, <3>2, MoveStep
  <2>3. CASE Leave(p, "post_publish")
    BY <2>1, <2>3, LeaveStep
  <2>. QED
    BY <1>4, <2>2, <2>3 DEF VerifyPublished, Goto
<1>5. CASE ReturnPrepared(p)
  <2>1. /\ pc[p] = "verified" /\ Leave(p, "prepared")
        /\ UNCHANGED <<at, synced, has, kept, version>>
    BY <1>5 DEF ReturnPrepared, files
  <2>2. at[p] = "published" /\ synced[p] = "published"
    BY <1>1, <2>1 DEF PrepInv, NameInv, Public
  <2>. QED
    BY <2>1, <2>2, LeaveStep
<1>. QED
  BY <1>2, <1>3, <1>4, <1>5

LEMMA FailStep ==
    ASSUME IInv, NEW p \in Preparers, Fail(p)
    PROVE  IInv'
<1>1. TypeOK /\ PrepInv(p) /\ p \in Actors
  BY OwnEntries DEF IInv
<1>2. UNCHANGED <<at, synced, has, kept, version>>
  BY DEF Fail, files
<1>3. CASE Leave(p, "failed") \/ Leave(p, "post_publish")
  BY <1>2, <1>3, LeaveStep
<1>4. CASE /\ pc[p] \in Building \ {"creating"}
           /\ exclusive' = [exclusive EXCEPT ![p] = NoOne]
           /\ pc' = [pc EXCEPT ![p] = "cleaning"]
           /\ UNCHANGED <<shared, target, seen, losses>>
  <2>1. pc'[p] = "cleaning" /\ "cleaning" \in Places /\ NoOne \in Actors \cup {NoOne}
    BY <1>1, <1>4 DEF TypeOK, Places, Undoing
  <2>2. PrepInv(p)'
    BY <1>1, <1>2, <1>4, <2>1
       DEF PrepInv, NameInv, ContentInv, OwnLockInv, Before, Held, Public
  <2>3. exclusive[p] \in {p, NoOne}
    BY <1>1, <1>4 DEF PrepInv, OwnLockInv, Building, Held, Before
  <2>4. PICK holder : holder = NoOne
    OBVIOUS
  <2>5. /\ exclusive' = [exclusive EXCEPT ![p] = holder] /\ holder \in Actors \cup {NoOne}
        /\ exclusive[p] \in Resumers => holder = exclusive[p]
        /\ shared[p] # {} => holder = NoOne
    BY <1>4, <2>3, <2>4, OwnEntries
  <2>6. UNCHANGED <<version, shared, target, seen, losses>>
    BY <1>2, <1>4
  <2>7. PICK place \in Places : pc' = [pc EXCEPT ![p] = place]
    BY <1>4, <2>1
  <2>. HIDE DEF Places
  <2>. QED
    BY <1>2, <2>2, <2>5, <2>6, <2>7, OwnEntries, PreparerStep
<1>. QED
  BY <1>3, <1>4 DEF Fail, Goto

(* Cleanup takes nothing from a directory that has been published.             *)
LEMMA CleanupStep ==
    ASSUME IInv, NEW p \in Preparers,
           RemovePart(p) \/ RemoveStaging(p) \/ SyncRemoval(p) \/ AbandonStaging(p)
    PROVE  IInv'
<1>1. TypeOK /\ PrepInv(p) /\ p \in Actors
  BY OwnEntries DEF IInv
<1>2. CASE RemovePart(p)
  <2>1. PICK part \in has[p] : has' = [has EXCEPT ![p] = has[p] \ {part}]
    BY <1>2 DEF RemovePart
  <2>2. PICK parts : parts = has[p] \ {part}
    OBVIOUS
  <2>3. /\ pc[p] = "cleaning" /\ at[p] = "staging" /\ pc' = pc
        /\ has' = [has EXCEPT ![p] = parts] /\ parts \in SUBSET Parts
        /\ UNCHANGED <<at, synced, kept, exclusive, version, shared, target, seen, losses>>
    BY <1>1, <1>2, <2>1, <2>2 DEF RemovePart, locks, TypeOK
  <2>4. pc' = [pc EXCEPT ![p] = "cleaning"] /\ "cleaning" \in Places
    BY <1>1, <2>3 DEF TypeOK, Places, Undoing
  <2>5. PrepInv(p)'
    BY <1>1, <2>3 DEF PrepInv, NameInv, ContentInv, OwnLockInv, Before, Held, Public
  <2>. HIDE DEF Places
  <2>. QED
    BY <2>3, <2>4, <2>5, OwnEntries, ContentStep
<1>3. CASE RemoveStaging(p)
  <2>1. /\ pc[p] = "cleaning" /\ at[p] = "staging"
        /\ pc' = [pc EXCEPT ![p] = "removed"] /\ "removed" \in Places
        /\ at' = [at EXCEPT ![p] = "none"] /\ "none" \in Names
        /\ kept' = [kept EXCEPT ![p] = {}] /\ {} \in SUBSET Parts
        /\ UNCHANGED <<synced, has, exclusive, version, shared, target, seen, losses>>
    BY <1>3 DEF RemoveStaging, Goto, locks, Places, Undoing, Names
  <2>2. pc'[p] = "removed" /\ at'[p] = "none"
    BY <1>1, <2>1 DEF TypeOK
  <2>3. PrepInv(p)'
    BY <1>1, <2>1, <2>2 DEF PrepInv, NameInv, ContentInv, OwnLockInv, Before, Held, Public
  <2>. HIDE DEF Places, Names
  <2>. QED
    BY <2>1, <2>3, OwnEntries, PreparerStep
<1>4. CASE SyncRemoval(p)
  BY <1>4, LeaveStep DEF SyncRemoval, SyncRoot
<1>5. CASE AbandonStaging(p)
  BY <1>5, LeaveStep DEF AbandonStaging, files
<1>. QED
  BY <1>2, <1>3, <1>4, <1>5

LEMMA PrepareStep ==
    ASSUME IInv, NEW p \in Preparers, Prepare(p)
    PROVE  IInv'
BY BeginStep, LockStep, FillStep, RenameStep, PublishStep, CleanupStep DEF Prepare

-----------------------------------------------------------------------------
(* Deaths and power losses                                                     *)

(* Who dies lets go of its locks; nobody else's are touched.                   *)
LEMMA DieStep ==
    ASSUME IInv, NEW a \in Actors, Die(a)
    PROVE  IInv'
<1>1. TypeOK
  BY DEF IInv
<1>2. /\ pc' = [pc EXCEPT ![a] = "killed"]
      /\ exclusive' = [q \in Preparers |-> IF exclusive[q] = a THEN NoOne ELSE exclusive[q]]
      /\ shared' = [q \in Preparers |-> shared[q] \ {a}]
      /\ UNCHANGED <<at, synced, has, kept, version, target, seen, losses>>
  BY DEF Die, Goto, files
<1>3. "killed" \in Places /\ "killed" \notin Before \cup Held
  BY DEF Places, Returned, Before, Held, Public
<1>4. pc'[a] = "killed" /\ \A b \in Actors : b # a => pc'[b] = pc[b]
  BY <1>1, <1>2 DEF TypeOK
<1>5. TypeOK'
  <2>. HIDE DEF Places
  <2>1. /\ pc' \in [Actors -> Places]
        /\ exclusive' \in [Preparers -> Actors \cup {NoOne}]
        /\ shared' \in [Preparers -> SUBSET Verifiers]
    BY <1>1, <1>2, <1>3 DEF TypeOK
  <2>. QED
    BY <1>1, <1>2, <2>1 DEF TypeOK
<1>6. ASSUME NEW q \in Preparers PROVE PrepInv(q)' /\ SharedInv(q)'
  <2>1. PrepInv(q) /\ SharedInv(q) /\ q \in Actors /\ a # NoOne
    BY ActorsAreDistinct DEF IInv, Actors
  <2>2. UNCHANGED <<at[q], synced[q], has[q], kept[q], version[q]>>
    BY <1>2
  <2>3. ASSUME q = a PROVE PrepInv(q)'
    BY <1>3, <1>4, <2>1, <2>2, <2>3 DEF PrepInv, NameInv, ContentInv, OwnLockInv, Public
  <2>4. ASSUME q # a PROVE PrepInv(q)'
    <3>1. pc'[q] = pc[q] /\ exclusive'[q] = IF exclusive[q] = a THEN NoOne ELSE exclusive[q]
      BY <1>2, <1>4, <2>1, <2>4
    <3>2. NameInv(q)' /\ ContentInv(q)'
      BY <2>1, <2>2, <3>1 DEF PrepInv, NameInv, ContentInv
    <3>3. OwnLockInv(q)'
      BY <2>1, <2>2, <2>4, <3>1 DEF PrepInv, OwnLockInv
    <3>. QED
      BY <3>2, <3>3 DEF PrepInv
  <2>5. SharedInv(q)'
    <3>1. \A v \in shared[q] : v \in Actors
      BY <1>1 DEF TypeOK, Actors
    <3>2. shared'[q] = shared[q] \ {a} /\ (exclusive[q] = NoOne => exclusive'[q] = NoOne)
      BY <1>2
    <3>. QED
      BY <1>2, <1>4, <2>1, <3>1, <3>2 DEF SharedInv
  <2>. QED
    BY <2>3, <2>4, <2>5
<1>7. ASSUME NEW b \in Visitors PROVE VisitInv(b)'
  <2>1. VisitInv(b) /\ b \in Actors
    BY DEF IInv, Visitors, Actors
  <2>. QED
    BY <1>2, <1>4, <2>1 DEF VisitInv
<1>8. ASSUME NEW m \in Resumers PROVE ResumeInv(m)'
  <2>1. ResumeInv(m) /\ VisitInv(m) /\ m \in Actors
    BY DEF IInv, Visitors, Actors
  <2>. QED
    BY <1>2, <1>4, <2>1 DEF VisitInv, ResumeInv
<1>9. ASSUME NEW v \in Verifiers PROVE VerifyInv(v)'
  <2>1. VerifyInv(v) /\ VisitInv(v) /\ v \in Actors
    BY DEF IInv, Visitors, Actors
  <2>. QED
    BY <1>2, <1>4, <2>1 DEF VisitInv, VerifyInv
<1>. QED
  BY <1>5, <1>6, <1>7, <1>8, <1>9 DEF IInv

(* After a power loss nothing runs, and only what was public can be.           *)
LEMMA PowerLossStep ==
    ASSUME IInv, PowerLoss
    PROVE  IInv'
<1>1. TypeOK
  BY DEF IInv
<1>2. /\ at' \in [Preparers -> Names] /\ synced' = at'
      /\ \A p \in Preparers : at'[p] \in {at[p], synced[p]}
      /\ has' \in [Preparers -> SUBSET Parts] /\ kept' = has'
      /\ \A p \in Preparers : kept[p] \cap has[p] \subseteq has'[p]
      /\ exclusive' = [p \in Preparers |-> NoOne] /\ shared' = [p \in Preparers |-> {}]
      /\ losses' = losses + 1 /\ UNCHANGED <<target, version, seen>>
  BY DEF PowerLoss, Names
<1>3. /\ pc' \in [Actors -> Places]
      /\ \A a \in Actors : \/ pc'[a] = "killed"
                           \/ pc'[a] = pc[a] /\ pc[a] \in Returned \cup {"new"}
  BY <1>1 DEF PowerLoss, TypeOK, Places, Returned
<1>4. TypeOK'
  BY <1>1, <1>2, <1>3 DEF TypeOK
<1>5. ASSUME NEW p \in Preparers PROVE PrepInv(p)' /\ SharedInv(p)'
  <2>1. PrepInv(p) /\ p \in Actors /\ kept[p] \in SUBSET Parts /\ has'[p] \in SUBSET Parts
    BY <1>1, <1>2 DEF IInv, TypeOK, Actors
  <2>2. /\ synced'[p] = at'[p] /\ at'[p] \in {at[p], synced[p]} /\ kept'[p] = has'[p]
        /\ kept[p] \cap has[p] \subseteq has'[p]
        /\ exclusive'[p] = NoOne /\ shared'[p] = {} /\ version'[p] = version[p]
    BY <1>2
  <2>3. at'[p] = "published" => at[p] = "published" /\ has'[p] = Parts
    BY <2>1, <2>2 DEF PrepInv, NameInv
  <2>4. pc'[p] = "killed" \/ (pc'[p] = pc[p] /\ pc[p] \in Returned \cup {"new"})
    BY <1>3, <2>1
  <2>5. NameInv(p)'
    BY <2>1, <2>2, <2>3, <2>4 DEF PrepInv, NameInv, Public, Returned
  <2>6. ContentInv(p)'
    BY <2>4 DEF ContentInv, Returned
  <2>7. OwnLockInv(p)'
    BY <2>1, <2>2, <2>4 DEF PrepInv, OwnLockInv, Before, Held, Public, Returned
  <2>8. SharedInv(p)'
    BY <2>2 DEF SharedInv
  <2>. QED
    BY <2>5, <2>6, <2>7, <2>8 DEF PrepInv
<1>6. ASSUME NEW a \in Visitors PROVE VisitInv(a)' /\ pc'[a] \in Returned \cup {"new"}
  <2>1. VisitInv(a) /\ a \in Actors
    BY DEF IInv, Visitors, Actors
  <2>. QED
    BY <1>3, <2>1 DEF VisitInv, Returned
<1>7. \A m \in Resumers : ResumeInv(m)'
  BY <1>6 DEF ResumeInv, Returned, Visitors
<1>8. \A v \in Verifiers : VerifyInv(v)'
  BY <1>3, <1>6 DEF IInv, VerifyInv, Returned, Visitors, Actors
<1>. QED
  BY <1>4, <1>5, <1>6, <1>7, <1>8 DEF IInv

-----------------------------------------------------------------------------
(* Steps of a resume and of a verification                                     *)

LEMMA VisitorEntries ==
    ASSUME IInv, NEW a \in Visitors
    PROVE  /\ TypeOK /\ VisitInv(a) /\ a \in Actors /\ a # NoOne
           /\ a \in Resumers => ResumeInv(a) /\ a \notin Verifiers
           /\ a \in Verifiers => VerifyInv(a) /\ a \notin Resumers
           /\ \A p \in Preparers : SharedInv(p) /\ shared[p] \subseteq Verifiers
BY ActorsAreDistinct DEF IInv, Visitors, Actors, TypeOK

(* The place changes, and nothing else but the root's last synced names.       *)
LEMMA WalkStep ==
    ASSUME IInv, NEW a \in Visitors, NEW place \in Places,
           pc' = [pc EXCEPT ![a] = place], synced' = synced \/ synced' = at,
           UNCHANGED <<at, has, kept, version, exclusive, shared, target, seen, losses>>,
           a \in Verifiers => place \in {"locked", "reading"}
                              \/ \A p \in Preparers : a \notin shared[p],
           VisitInv(a)', a \in Resumers => ResumeInv(a)', a \in Verifiers => VerifyInv(a)'
    PROVE  IInv'
<1>1. TypeOK /\ a \in Actors
  BY VisitorEntries
<1>2. TypeOK' /\ pc'[a] = place /\ \A b \in Actors : b # a => pc'[b] = pc[b]
  BY <1>1 DEF TypeOK
<1>3. \A p \in Preparers : /\ shared[p] # {} => exclusive[p] = NoOne
                           /\ a \in shared[p] => a \in Verifiers /\ target[a] = p
  BY VisitorEntries DEF SharedInv
<1>. HIDE DEF Places
<1>. QED
  BY <1>2, <1>3, VisitorStep

LEMMA OpenStep ==
    ASSUME IInv, NEW a \in Visitors, Open(a)
    PROVE  IInv'
<1>1. TypeOK /\ a \in Actors /\ a \in Visitors
  BY VisitorEntries
<1>2. PICK p \in Preparers : at[p] = "published" /\ target' = [target EXCEPT ![a] = p]
  BY DEF Open
<1>3. /\ pc[a] = "new" /\ pc' = [pc EXCEPT ![a] = "opened"] /\ "opened" \in Places
      /\ UNCHANGED <<at, synced, has, kept, version, exclusive, shared, seen, losses>>
  BY DEF Open, Goto, files, locks, Places
<1>4. /\ pc'[a] = "opened" /\ \A b \in Actors : b # a => pc'[b] = pc[b]
      /\ target'[a] = p /\ \A b \in Visitors : b # a => target'[b] = target[b]
  BY <1>1, <1>2, <1>3 DEF TypeOK
<1>5. TypeOK'
  <2>. HIDE DEF Places
  <2>. QED
    BY <1>1, <1>2, <1>3 DEF TypeOK
<1>6. VisitInv(a)' /\ ResumeInv(a)' /\ VerifyInv(a)'
  BY <1>2, <1>3, <1>4 DEF VisitInv, ResumeInv, VerifyInv
<1>7. \A q \in Preparers : a \notin shared[q] /\ (shared[q] # {} => exclusive[q] = NoOne)
  BY <1>3, VisitorEntries DEF SharedInv
<1>. HIDE DEF Places
<1>. QED
  BY <1>3, <1>4, <1>5, <1>6, <1>7, VisitorStep

(* A mutator takes its target's free lock, or gives back its own.              *)
LEMMA MutatorLockStep ==
    ASSUME IInv, NEW m \in Resumers, NEW place \in Places,
           pc' = [pc EXCEPT ![m] = place],
           target[m] \in Preparers, at[target[m]] = "published",
           NEW holder, exclusive' = [exclusive EXCEPT ![target[m]] = holder],
           \/ /\ exclusive[target[m]] = NoOne /\ shared[target[m]] = {}
              /\ holder = m /\ place = "locked"
           \/ exclusive[target[m]] = m /\ holder = NoOne /\ place \in {"unstable", "done"},
           UNCHANGED <<at, synced, has, kept, version, shared, target, seen, losses>>
    PROVE  IInv'
<1>1. TypeOK /\ m \in Actors /\ m \in Visitors
  BY VisitorEntries DEF Visitors
<1>2. /\ pc'[m] = place /\ \A b \in Actors : b # m => pc'[b] = pc[b]
      /\ exclusive'[target[m]] = holder
      /\ \A p \in Preparers : p # target[m] => exclusive'[p] = exclusive[p]
  BY <1>1 DEF TypeOK
<1>3. TypeOK'
  <2>. HIDE DEF Places
  <2>. QED
    BY <1>1 DEF TypeOK
<1>4. VisitInv(m)' /\ ResumeInv(m)'
  BY <1>2 DEF VisitInv, ResumeInv
<1>5. m \notin Verifiers /\ m # NoOne
      /\ \A p \in Preparers : shared[p] \subseteq Verifiers
                              /\ (shared[p] # {} => exclusive[p] = NoOne)
  BY <1>1, VisitorEntries DEF SharedInv
<1>6. \A p \in Preparers : shared'[p] # {} => exclusive'[p] = NoOne
  BY <1>2, <1>5
<1>. HIDE DEF Places
<1>. QED
  BY <1>1, <1>2, <1>3, <1>4, <1>5, <1>6, VisitorStep

LEMMA ResumeStep ==
    ASSUME IInv, NEW m \in Resumers, Resume(m)
    PROVE  IInv'
<1>1. TypeOK /\ VisitInv(m) /\ ResumeInv(m) /\ m \in Actors /\ m \in Visitors /\ m # NoOne
  BY VisitorEntries DEF Visitors
<1>2. m \notin Verifiers /\ \A p \in Preparers : m \notin shared[p]
  BY <1>1, VisitorEntries
<1>3. CASE Open(m)
  BY <1>1, <1>3, OpenStep
<1>4. CASE TryMutatorLock(m)
  <2>1. /\ pc[m] = "opened" /\ target[m] \in Preparers /\ at[target[m]] = "published"
        /\ "lock" \in has[target[m]]
    BY <1>1, <1>4 DEF TryMutatorLock, VisitInv, IInv, PrepInv, NameInv, Parts
  <2>2. UNCHANGED <<at, synced, has, kept, version, shared, target, seen, losses>>
    BY <1>4 DEF TryMutatorLock, files
  <2>3. CASE pc' = [pc EXCEPT ![m] = "busy"] /\ exclusive' = exclusive
    <3>1. pc'[m] = "busy" /\ "busy" \in Places
      BY <1>1, <2>3 DEF TypeOK, Places, Returned
    <3>2. VisitInv(m)' /\ ResumeInv(m)'
      BY <3>1 DEF VisitInv, ResumeInv
    <3>. HIDE DEF Places
    <3>. QED
      BY <1>1, <1>2, <2>2, <2>3, <3>1, <3>2, WalkStep
  <2>4. CASE /\ exclusive[target[m]] = NoOne /\ shared[target[m]] = {}
             /\ exclusive' = [exclusive EXCEPT ![target[m]] = m]
             /\ pc' = [pc EXCEPT ![m] = "locked"]
    <3>1. "locked" \in Places
      BY DEF Places, Held
    <3>. HIDE DEF Places
    <3>. QED
      BY <2>1, <2>2, <2>4, <3>1, MutatorLockStep
  <2>. QED
    BY <1>4, <2>1, <2>3, <2>4 DEF TryMutatorLock, Target, Goto
<1>5. CASE BeginPreflight(m) \/ Preflight(m) \/ BindRoot(m)
  <2>1. PICK place \in {"probing", "preflight", "verifying"} :
           /\ pc[m] \in {"locked", "probing", "preflight"} /\ pc' = [pc EXCEPT ![m] = place]
           /\ \/ synced' = at /\ at[target[m]] = "published"
              \/ synced' = synced /\ (place = "probing" \/ pc[m] = "preflight")
           /\ UNCHANGED <<at, has, kept, version, exclusive, shared, target, seen, losses>>
    <3>1. CASE BeginPreflight(m)
      BY <3>1 DEF BeginPreflight, Goto, locks
    <3>2. CASE Preflight(m)
      BY <3>2 DEF Preflight, SyncRoot, Target, Goto, locks
    <3>3. CASE BindRoot(m)
      BY <3>3 DEF BindRoot, Goto, files, locks
    <3>. QED
      BY <1>5, <3>1, <3>2, <3>3
  <2>2. /\ pc'[m] = place /\ place \in Places
    BY <1>1, <2>1 DEF TypeOK, Places
  <2>3. VisitInv(m)' /\ ResumeInv(m)'
    BY <1>1, <2>1, <2>2 DEF VisitInv, ResumeInv
  <2>. HIDE DEF Places
  <2>. QED
    BY <1>1, <1>2, <2>1, <2>2, <2>3, WalkStep
<1>6. CASE OpenSession(m) \/ Revalidate(m)
  <2>1. /\ pc[m] \in {"verifying", "session"} /\ target[m] \in Preparers
        /\ at[target[m]] = "published" /\ has[target[m]] = Parts /\ exclusive[target[m]] = m
    BY <1>1, <1>6 DEF OpenSession, Revalidate, VisitInv, ResumeInv, IInv, PrepInv, NameInv
  <2>2. UNCHANGED <<at, synced, has, kept, version, shared, target, seen, losses>>
    BY <1>6, <2>1 DEF OpenSession, Revalidate, ReleaseMutator, Target, files, locks
  <2>3. CASE pc' = [pc EXCEPT ![m] = "session"] /\ exclusive' = exclusive
             /\ pc[m] = "verifying"
    <3>1. pc'[m] = "session" /\ "session" \in Places
      BY <1>1, <2>3 DEF TypeOK, Places
    <3>2. VisitInv(m)' /\ ResumeInv(m)'
      BY <1>1, <2>2, <2>3, <3>1 DEF VisitInv, ResumeInv
    <3>. HIDE DEF Places
    <3>. QED
      BY <1>1, <1>2, <2>2, <2>3, <3>1, <3>2, WalkStep
  <2>4. CASE /\ pc' = [pc EXCEPT ![m] = "unstable"]
             /\ exclusive' = [exclusive EXCEPT ![target[m]] = NoOne]
    <3>1. "unstable" \in Places
      BY DEF Places, Returned
    <3>. HIDE DEF Places
    <3>. QED
      BY <2>1, <2>2, <2>4, <3>1, MutatorLockStep
  <2>. QED
    BY <1>6, <2>1, <2>3, <2>4
       DEF OpenSession, Revalidate, ReleaseMutator, Target, Goto, locks
<1>7. CASE AppendRow(m)
  <2>1. /\ pc[m] = "session" /\ pc' = pc /\ exclusive[target[m]] = m
        /\ target[m] \in Preparers /\ at[target[m]] = "published"
        /\ version' = [version EXCEPT ![target[m]] = version[target[m]] + 1]
        /\ UNCHANGED <<at, synced, has, kept, exclusive, shared, target, seen, losses>>
    BY <1>1, <1>7 DEF AppendRow, Target, locks, VisitInv, ResumeInv
  <2>2. TypeOK' /\ \A p \in Preparers : p # target[m] => version'[p] = version[p]
    BY <1>1, <2>1 DEF TypeOK
  <2>3. VisitInv(m)' /\ ResumeInv(m)'
    BY <1>1, <2>1 DEF VisitInv, ResumeInv
  <2>4. \A p \in Preparers : shared'[p] # {} => exclusive'[p] = NoOne
    BY <1>1, <2>1, VisitorEntries DEF SharedInv
  <2>. QED
    BY <1>1, <1>2, <2>1, <2>2, <2>3, <2>4, VisitorStep
<1>8. CASE EndResume(m)
  <2>1. /\ target[m] \in Preparers /\ at[target[m]] = "published" /\ exclusive[target[m]] = m
        /\ exclusive' = [exclusive EXCEPT ![target[m]] = NoOne]
        /\ pc' = [pc EXCEPT ![m] = "done"] /\ "done" \in Places
        /\ UNCHANGED <<at, synced, has, kept, version, shared, target, seen, losses>>
    BY <1>1, <1>8
       DEF EndResume, ReleaseMutator, Target, Goto, files, VisitInv, ResumeInv, Places, Returned
  <2>. HIDE DEF Places
  <2>. QED
    BY <2>1, MutatorLockStep
<1>. QED
  BY <1>3, <1>4, <1>5, <1>6, <1>7, <1>8 DEF Resume

LEMMA VerifyStep ==
    ASSUME IInv, NEW v \in Verifiers, Verify(v)
    PROVE  IInv'
<1>1. TypeOK /\ VisitInv(v) /\ VerifyInv(v) /\ v \in Actors /\ v \in Visitors /\ v # NoOne
  BY VisitorEntries DEF Visitors
<1>2. v \notin Resumers /\ \A p \in Preparers : shared[p] # {} => exclusive[p] = NoOne
  BY <1>1, VisitorEntries DEF SharedInv
<1>3. CASE Open(v)
  BY <1>1, <1>3, OpenStep
<1>4. CASE TrySharedLock(v)
  <2>1. /\ pc[v] = "opened" /\ target[v] \in Preparers /\ at[target[v]] = "published"
        /\ "lock" \in has[target[v]]
    BY <1>1, <1>4 DEF TrySharedLock, VisitInv, IInv, PrepInv, NameInv, Parts
  <2>2. UNCHANGED <<at, synced, has, kept, version, exclusive, target, seen, losses>>
    BY <1>4 DEF TrySharedLock, files
  <2>3. \A p \in Preparers : v \notin shared[p]
    BY <1>1, <2>1, VisitorEntries DEF SharedInv
  <2>4. CASE pc' = [pc EXCEPT ![v] = "busy"] /\ shared' = shared
    <3>1. pc'[v] = "busy" /\ "busy" \in Places
      BY <1>1, <2>4 DEF TypeOK, Places, Returned
    <3>2. VisitInv(v)' /\ VerifyInv(v)'
      BY <3>1 DEF VisitInv, VerifyInv
    <3>. HIDE DEF Places
    <3>. QED
      BY <1>1, <1>2, <2>2, <2>3, <2>4, <3>1, <3>2, WalkStep
  <2>5. CASE /\ exclusive[target[v]] = NoOne
             /\ shared' = [shared EXCEPT ![target[v]] = shared[target[v]] \cup {v}]
             /\ pc' = [pc EXCEPT ![v] = "locked"]
    <3>1. "locked" \in Places
      BY DEF Places, Held
    <3>2. /\ pc'[v] = "locked" /\ \A b \in Actors : b # v => pc'[b] = pc[b]
          /\ shared'[target[v]] = shared[target[v]] \cup {v}
          /\ \A p \in Preparers : p # target[v] => shared'[p] = shared[p]
      BY <1>1, <2>1, <2>5 DEF TypeOK
    <3>3. TypeOK'
      <4>. HIDE DEF Places
      <4>. QED
        BY <1>1, <2>1, <2>2, <2>5, <3>1 DEF TypeOK
    <3>4. VisitInv(v)' /\ VerifyInv(v)'
      BY <1>1, <2>1, <2>2, <3>2 DEF VisitInv, VerifyInv
    <3>5. \A p \in Preparers :
             /\ \A w \in Verifiers : w # v => (w \in shared'[p] <=> w \in shared[p])
             /\ shared'[p] # {} => exclusive'[p] = NoOne
             /\ v \in shared'[p] => target'[v] = p
      BY <1>2, <2>2, <2>3, <2>5, <3>2
    <3>. HIDE DEF Places
    <3>. QED
      BY <1>1, <1>2, <2>2, <3>2, <3>3, <3>4, <3>5, VisitorStep
  <2>. QED
    BY <1>4, <2>1, <2>4, <2>5 DEF TrySharedLock, Target, Goto
<1>5. CASE BeginVerify(v)
  <2>1. /\ pc[v] = "locked" /\ pc' = [pc EXCEPT ![v] = "reading"] /\ "reading" \in Places
        /\ target[v] \in Preparers /\ at[target[v]] = "published" /\ v \in shared[target[v]]
        /\ seen' = [seen EXCEPT ![v] = version[target[v]]]
        /\ UNCHANGED <<at, synced, has, kept, version, exclusive, shared, target, losses>>
    BY <1>1, <1>5 DEF BeginVerify, Target, Goto, files, locks, VisitInv, VerifyInv, Places
  <2>2. /\ pc'[v] = "reading" /\ \A b \in Actors : b # v => pc'[b] = pc[b]
        /\ seen'[v] = version[target[v]] /\ \A w \in Verifiers : w # v => seen'[w] = seen[w]
    BY <1>1, <2>1 DEF TypeOK
  <2>3. TypeOK'
    <3>. HIDE DEF Places
    <3>. QED
      BY <1>1, <2>1 DEF TypeOK
  <2>4. VisitInv(v)' /\ VerifyInv(v)'
    BY <2>1, <2>2 DEF VisitInv, VerifyInv
  <2>5. \A p \in Preparers : v \in shared[p] => target[v] = p
    BY VisitorEntries, <1>1 DEF SharedInv
  <2>. HIDE DEF Places
  <2>. QED
    BY <1>1, <1>2, <2>1, <2>2, <2>3, <2>4, <2>5, VisitorStep
<1>6. CASE EndVerify(v)
  <2>1. /\ pc[v] = "reading" /\ target[v] \in Preparers /\ at[target[v]] = "published"
        /\ has[target[v]] = Parts /\ seen[v] = version[target[v]]
    BY <1>1, <1>6 DEF EndVerify, VisitInv, VerifyInv, IInv, PrepInv, NameInv
  <2>2. /\ pc' = [pc EXCEPT ![v] = "valid"] /\ "valid" \in Places
        /\ shared' = [shared EXCEPT ![target[v]] = shared[target[v]] \ {v}]
        /\ UNCHANGED <<at, synced, has, kept, version, exclusive, target, seen, losses>>
    BY <1>6, <2>1 DEF EndVerify, Target, Goto, files, Places, Returned
  <2>3. /\ pc'[v] = "valid" /\ \A b \in Actors : b # v => pc'[b] = pc[b]
        /\ shared'[target[v]] = shared[target[v]] \ {v}
        /\ \A p \in Preparers : p # target[v] => shared'[p] = shared[p]
    BY <1>1, <2>1, <2>2 DEF TypeOK
  <2>4. TypeOK'
    <3>. HIDE DEF Places
    <3>. QED
      BY <1>1, <2>1, <2>2 DEF TypeOK
  <2>5. VisitInv(v)' /\ VerifyInv(v)'
    BY <2>3 DEF VisitInv, VerifyInv
  <2>6. \A p \in Preparers : v \in shared[p] => target[v] = p
    BY VisitorEntries, <1>1 DEF SharedInv
  <2>7. \A p \in Preparers :
           /\ \A w \in Verifiers : w # v => (w \in shared'[p] <=> w \in shared[p])
           /\ shared'[p] # {} => exclusive'[p] = NoOne
           /\ v \notin shared'[p]
    BY <1>2, <2>2, <2>3, <2>6
  <2>. HIDE DEF Places
  <2>. QED
    BY <1>1, <1>2, <2>2, <2>3, <2>4, <2>5, <2>7, VisitorStep
<1>. QED
  BY <1>3, <1>4, <1>5, <1>6 DEF Verify

-----------------------------------------------------------------------------
(* Theorems *)

LEMMA InitInv == Init => IInv
<1>. SUFFICES ASSUME Init PROVE IInv
  OBVIOUS
<1>1. TypeOK
  BY DEF Init, TypeOK, Places, Before, Names, Visitors
<1>2. /\ \A a \in Actors : pc[a] = "new"
      /\ \A p \in Preparers : /\ at[p] = "none" /\ synced[p] = "none" /\ version[p] = 0
                              /\ exclusive[p] = NoOne /\ shared[p] = {}
  BY DEF Init
<1>3. \A p \in Preparers : PrepInv(p) /\ SharedInv(p)
  BY <1>2 DEF Actors, PrepInv, NameInv, ContentInv, OwnLockInv, SharedInv, Held, Public
<1>4. \A a \in Visitors : VisitInv(a)
  BY <1>2 DEF Actors, Visitors, VisitInv
<1>5. \A m \in Resumers : ResumeInv(m)
  BY <1>2 DEF Actors, ResumeInv
<1>6. \A v \in Verifiers : VerifyInv(v)
  BY <1>2 DEF Actors, VerifyInv
<1>. QED
  BY <1>1, <1>3, <1>4, <1>5, <1>6 DEF IInv

LEMMA StutterStep ==
    ASSUME IInv, UNCHANGED vars
    PROVE  IInv'
BY DEF vars, files, locks, IInv, TypeOK, PrepInv, NameInv, ContentInv, OwnLockInv,
       VisitInv, ResumeInv, VerifyInv, SharedInv

LEMMA NextInv == IInv /\ [Next]_vars => IInv'
<1>. SUFFICES ASSUME IInv, [Next]_vars PROVE IInv'
  OBVIOUS
<1>1. CASE UNCHANGED vars
  BY <1>1, StutterStep
<1>2. CASE Next
  BY <1>2, PrepareStep, FailStep, ResumeStep, VerifyStep, DieStep, PowerLossStep DEF Next
<1>. QED
  BY <1>1, <1>2

(* The invariant holds of every history of a results root.                     *)
THEOREM Invariance == Spec => []IInv
BY InitInv, NextInv, PTL DEF Spec

(* What can be seen under a run id is a whole capsule, and a preparation that  *)
(* reported success is there: through failures, deaths and power losses at     *)
(* every step, however many operations share the root.                         *)
THEOREM WholeUnderItsName == Spec => []PublishedIsWhole
<1>1. IInv => PublishedIsWhole
  BY DEF IInv, PrepInv, NameInv, PublishedIsWhole
<1>. QED
  BY <1>1, Invariance, PTL

(* A provider is constructed, and a row written, only in a capsule that a      *)
(* power loss cannot take away.                                                *)
THEOREM DurableSessions == Spec => []SessionsAreDurable
<1>1. IInv => SessionsAreDurable
  <2>. SUFFICES ASSUME IInv, NEW m \in Resumers, pc[m] = "session"
                PROVE  synced[target[m]] = "published" /\ kept[target[m]] = Parts
    BY DEF SessionsAreDurable
  <2>1. VisitInv(m) /\ ResumeInv(m)
    BY DEF IInv, Visitors
  <2>. QED
    BY <2>1 DEF VisitInv, ResumeInv, IInv, PrepInv, NameInv
<1>. QED
  BY <1>1, Invariance, PTL

-----------------------------------------------------------------------------
(* The results root as a resume has bound it                                   *)

RootTypes ==
    /\ changes \in [Actors -> Nat]
    /\ bound \in [Resumers -> [Actors -> Nat]]

(* What a resume and its capsule's preparation change of the root, they have   *)
(* changed before the resume binds it.                                         *)
BoundInv(m) ==
    /\ pc[m] \in {"verifying", "session"} =>
          /\ \A a \in Actors : bound[m][a] <= changes[a]
          /\ bound[m][m] = changes[m] /\ bound[m][target[m]] = changes[target[m]]
    /\ pc[m] = "unstable" =>
          \E a \in (Preparers \cup Resumers) \ {m, target[m]} : bound[m][a] < changes[a]

(* Who never visits the root as a preparation or a resume never changes it.    *)
RootInv == RootTypes /\ (\A v \in Verifiers : changes[v] = 0) /\ \A m \in Resumers : BoundInv(m)

(* Only a preparation that has yet to publish, or has not, and a resume at its *)
(* probe change the root.                                                      *)
Changer(a) ==
    \/ a \in Preparers /\ at[a] # "published"
    \/ a \in Resumers /\ pc[a] \in {"locked", "probing"}

RootFrame ==
    \/ changes' = changes
    \/ \E a \in Actors : Changer(a) /\ ChangeRoot(a)

LEMMA WhoChangesTheRoot ==
    ASSUME IInv, Next
    PROVE  RootFrame
<1>1. ASSUME NEW p \in Preparers, Prepare(p) PROVE RootFrame
  <2>1. PrepInv(p) /\ p \in Actors
    BY DEF IInv, Actors
  <2>2. CASE AcquireCreatorLock(p) \/ CreateStaging(p) \/ Rename(p) \/ RemoveStaging(p)
    <3>1. at[p] # "published"
      BY <2>1, <2>2 DEF AcquireCreatorLock, CreateStaging, Rename, RemoveStaging, PrepInv, NameInv
    <3>2. ChangeRoot(p) \/ changes' = changes
      BY <2>2 DEF AcquireCreatorLock, CreateStaging, Rename, RemoveStaging
    <3>. QED
      BY <1>1, <2>1, <3>1, <3>2 DEF RootFrame, Changer
  <2>3. CASE ~(AcquireCreatorLock(p) \/ CreateStaging(p) \/ Rename(p) \/ RemoveStaging(p))
    <3>1. changes' = changes
      BY <1>1, <2>3 DEF Prepare, Probe, CreatePersistentLock, WriteArtifacts, SyncTree,
         WriteMarker, SyncMarker, Write, SyncDirectory, MarkPublished, SyncPublication,
         VerifyPublished, ReturnPrepared, RemovePart, SyncRemoval, AbandonStaging, files
    <3>. QED
      BY <3>1 DEF RootFrame
  <2>. QED
    BY <2>2, <2>3
<1>2. ASSUME NEW m \in Resumers, Resume(m) PROVE RootFrame
  <2>1. CASE BeginPreflight(m) \/ Preflight(m)
    BY <2>1, <1>2 DEF BeginPreflight, Preflight, RootFrame, Changer, Actors
  <2>2. CASE ~(BeginPreflight(m) \/ Preflight(m))
    <3>1. changes' = changes
      BY <1>2, <2>2 DEF Resume, Open, TryMutatorLock, BindRoot, OpenSession, Revalidate,
         AppendRow, EndResume, files
    <3>. QED
      BY <3>1 DEF RootFrame
  <2>. QED
    BY <2>1, <2>2
<1>3. ASSUME NEW v \in Verifiers, Verify(v) PROVE changes' = changes
  BY <1>3 DEF Verify, Open, TrySharedLock, BeginVerify, EndVerify, files
<1>4. ASSUME NEW p \in Preparers, Fail(p) PROVE changes' = changes
  BY <1>4 DEF Fail, files
<1>5. ASSUME NEW a \in Actors, Die(a) PROVE changes' = changes
  BY <1>5 DEF Die, files
<1>6. PowerLoss => changes' = changes
  BY DEF PowerLoss
<1>. QED
  BY <1>1, <1>2, <1>3, <1>4, <1>5, <1>6 DEF Next, RootFrame

(* The changes of the root are only added to, and by those that may.           *)
LEMMA ChangesGrow ==
    ASSUME IInv, RootInv, RootFrame
    PROVE  /\ changes' \in [Actors -> Nat]
           /\ \A a \in Actors : changes[a] <= changes'[a]
           /\ \A a \in Actors : ~Changer(a) => changes'[a] = changes[a]
<1>1. changes \in [Actors -> Nat]
  BY DEF RootInv, RootTypes
<1>2. CASE changes' = changes
  BY <1>1, <1>2
<1>3. ASSUME NEW a \in Actors, Changer(a), ChangeRoot(a)
      PROVE  /\ changes' \in [Actors -> Nat]
             /\ \A b \in Actors : changes[b] <= changes'[b]
             /\ \A b \in Actors : ~Changer(b) => changes'[b] = changes[b]
  <2>1. changes' = [changes EXCEPT ![a] = changes[a] + 1]
    BY <1>3 DEF ChangeRoot
  <2>2. changes[a] \in Nat /\ changes[a] + 1 \in Nat
    BY <1>1
  <2>3. \A b \in Actors : b # a => changes'[b] = changes[b]
    BY <1>1, <2>1
  <2>4. changes'[a] = changes[a] + 1
    BY <1>1, <2>1
  <2>5. changes' \in [Actors -> Nat]
    BY <1>1, <2>1, <2>2
  <2>6. \A b \in Actors : changes[b] <= changes'[b]
    <3>. TAKE b \in Actors
    <3>1. changes[b] \in Nat
      BY <1>1
    <3>. QED
      BY <2>2, <2>3, <2>4, <3>1
  <2>. QED
    BY <1>3, <2>3, <2>5, <2>6
<1>. QED
  BY <1>2, <1>3 DEF RootFrame

(* Where a resume stands after a step, and what it has bound.                  *)
LEMMA ResumeFrame ==
    ASSUME IInv, RootInv, Next, NEW m \in Resumers
    PROVE  \/ pc'[m] \notin {"verifying", "session", "unstable"}
           \/ /\ pc[m] \in {"verifying", "session"} /\ pc'[m] = "unstable"
              /\ changes # bound[m] /\ UNCHANGED <<bound, target, changes>>
           \/ /\ pc[m] = "preflight" /\ pc'[m] = "verifying"
              /\ bound'[m] = changes /\ UNCHANGED <<target, changes>>
           \/ /\ pc[m] \in {"verifying", "session"} /\ pc'[m] \in {"verifying", "session"}
              /\ bound'[m] = bound[m] /\ target'[m] = target[m]
           \/ /\ pc[m] = "unstable" /\ pc'[m] = "unstable"
              /\ bound'[m] = bound[m] /\ target'[m] = target[m]
<1>1. TypeOK /\ m \in Actors /\ m \in Visitors /\ m \notin Preparers /\ m \notin Verifiers
  BY ActorsAreDistinct DEF IInv, Actors, Visitors
<1>2. ASSUME pc'[m] = pc[m], bound'[m] = bound[m],
             target'[m] = target[m] \/ pc[m] = "new"
      PROVE  \/ pc'[m] \notin {"verifying", "session", "unstable"}
             \/ /\ pc[m] \in {"verifying", "session"} /\ pc'[m] \in {"verifying", "session"}
                /\ bound'[m] = bound[m] /\ target'[m] = target[m]
             \/ /\ pc[m] = "unstable" /\ pc'[m] = "unstable"
                /\ bound'[m] = bound[m] /\ target'[m] = target[m]
  BY <1>2
<1>3. ASSUME NEW p \in Preparers, Prepare(p) \/ Fail(p)
      PROVE  pc'[m] = pc[m] /\ bound' = bound /\ target' = target
  <2>1. bound' = bound /\ target' = target
    BY <1>3 DEF Prepare, Fail, Leave, AcquireCreatorLock, CreateStaging, Probe,
       CreatePersistentLock, WriteArtifacts, SyncTree, WriteMarker, SyncMarker, Write,
       SyncDirectory, Rename, MarkPublished, SyncPublication, VerifyPublished, ReturnPrepared,
       RemovePart, RemoveStaging, SyncRemoval, AbandonStaging
  <2>2. pc' = pc \/ \E place : pc' = [pc EXCEPT ![p] = place]
    BY <1>3 DEF Prepare, Fail, Leave, AcquireCreatorLock, CreateStaging, Probe,
       CreatePersistentLock, WriteArtifacts, SyncTree, WriteMarker, SyncMarker, Write,
       SyncDirectory, Rename, MarkPublished, SyncPublication, VerifyPublished, ReturnPrepared,
       RemovePart, RemoveStaging, SyncRemoval, AbandonStaging, Goto
  <2>. QED
    BY <1>1, <1>3, <2>1, <2>2 DEF TypeOK
<1>4. ASSUME NEW v \in Verifiers, Verify(v)
      PROVE  pc'[m] = pc[m] /\ bound' = bound /\ target'[m] = target[m]
  <2>1. bound' = bound /\ (target' = target \/ \E p \in Preparers : target' = [target EXCEPT ![v] = p])
    BY <1>4 DEF Verify, Open, TrySharedLock, BeginVerify, EndVerify
  <2>2. \E place : pc' = [pc EXCEPT ![v] = place]
    BY <1>4 DEF Verify, Open, TrySharedLock, BeginVerify, EndVerify, Goto
  <2>. QED
    BY <1>1, <1>4, <2>1, <2>2 DEF TypeOK
<1>5. ASSUME NEW n \in Resumers, Resume(n), n # m
      PROVE  pc'[m] = pc[m] /\ bound'[m] = bound[m] /\ target'[m] = target[m]
  <2>1. bound' = bound \/ bound' = [bound EXCEPT ![n] = changes]
    BY <1>5 DEF Resume, Open, TryMutatorLock, BeginPreflight, Preflight, BindRoot, OpenSession,
       Revalidate, ReleaseMutator, AppendRow, EndResume
  <2>2. target' = target \/ \E p \in Preparers : target' = [target EXCEPT ![n] = p]
    BY <1>5 DEF Resume, Open, TryMutatorLock, BeginPreflight, Preflight, BindRoot, OpenSession,
       Revalidate, ReleaseMutator, AppendRow, EndResume
  <2>3. pc' = pc \/ \E place : pc' = [pc EXCEPT ![n] = place]
    BY <1>5 DEF Resume, Open, TryMutatorLock, BeginPreflight, Preflight, BindRoot, OpenSession,
       Revalidate, ReleaseMutator, AppendRow, EndResume, Goto
  <2>. QED
    BY <1>1, <1>5, <2>1, <2>2, <2>3 DEF TypeOK, Visitors, RootInv, RootTypes
<1>6. ASSUME NEW a \in Actors, Die(a)
      PROVE  pc'[m] \in {pc[m], "killed"} /\ bound' = bound /\ target' = target
  BY <1>1, <1>6 DEF Die, Goto, TypeOK
<1>7. ASSUME PowerLoss
      PROVE  pc'[m] \in {pc[m], "killed"} /\ bound' = bound /\ target' = target
  BY <1>1, <1>7 DEF PowerLoss, TypeOK
<1>8. ASSUME Open(m) \/ TryMutatorLock(m) \/ BeginPreflight(m) \/ Preflight(m) \/ EndResume(m)
      PROVE  pc'[m] \in {"opened", "invalid", "busy", "locked", "probing", "preflight", "done"}
  <2>1. PICK place \in {"opened", "invalid", "busy", "locked", "probing", "preflight", "done"} :
           pc' = [pc EXCEPT ![m] = place]
    BY <1>8 DEF Open, TryMutatorLock, BeginPreflight, Preflight, EndResume, ReleaseMutator, Goto
  <2>. QED
    BY <1>1, <2>1 DEF TypeOK
<1>9. ASSUME BindRoot(m)
      PROVE  /\ pc[m] = "preflight" /\ pc'[m] = "verifying"
             /\ (bound \in [Resumers -> [Actors -> Nat]] => bound'[m] = changes)
             /\ UNCHANGED <<target, changes>>
  BY <1>1, <1>9 DEF BindRoot, Goto, TypeOK, files
<1>10. ASSUME OpenSession(m) \/ Revalidate(m)
       PROVE  /\ pc[m] \in {"verifying", "session"} /\ UNCHANGED <<bound, target, changes>>
              /\ \/ pc'[m] = "unstable" /\ changes # bound[m]
                 \/ pc'[m] \in {"session", "invalid"}
  <2>1. /\ pc[m] \in {"verifying", "session"} /\ UNCHANGED <<bound, target, changes>>
        /\ \/ pc' = [pc EXCEPT ![m] = "unstable"] /\ changes # bound[m]
           \/ pc' = [pc EXCEPT ![m] = "session"]
           \/ pc' = [pc EXCEPT ![m] = "invalid"]
    BY <1>10 DEF OpenSession, Revalidate, ReleaseMutator, Goto, files, Target
  <2>. QED
    BY <1>1, <2>1 DEF TypeOK
<1>11. AppendRow(m) => pc' = pc /\ bound' = bound /\ target' = target
  BY DEF AppendRow
<1>12. ASSUME Resume(m)
       PROVE  \/ pc'[m] \notin {"verifying", "session", "unstable"}
              \/ /\ pc[m] \in {"verifying", "session"} /\ pc'[m] = "unstable"
                 /\ changes # bound[m] /\ UNCHANGED <<bound, target, changes>>
              \/ /\ pc[m] = "preflight" /\ pc'[m] = "verifying"
                 /\ bound'[m] = changes /\ UNCHANGED <<target, changes>>
              \/ /\ pc[m] \in {"verifying", "session"} /\ pc'[m] \in {"verifying", "session"}
                 /\ bound'[m] = bound[m] /\ target'[m] = target[m]
              \/ /\ pc[m] = "unstable" /\ pc'[m] = "unstable"
                 /\ bound'[m] = bound[m] /\ target'[m] = target[m]
  <2>1. bound \in [Resumers -> [Actors -> Nat]]
    BY DEF RootInv, RootTypes
  <2>. QED
    BY <1>2, <1>8, <1>9, <1>10, <1>11, <1>12, <2>1 DEF Resume
<1>. QED
  BY <1>2, <1>3, <1>4, <1>5, <1>6, <1>7, <1>12 DEF Next

LEMMA BoundStep ==
    ASSUME IInv, RootInv, Next, NEW m \in Resumers
    PROVE  BoundInv(m)'
<1>1. /\ BoundInv(m) /\ VisitInv(m) /\ ResumeInv(m) /\ m \in Actors
      /\ m \notin Preparers /\ m \notin Verifiers
      /\ \A v \in Verifiers : changes[v] = 0
  BY ActorsAreDistinct DEF IInv, RootInv, Actors, Visitors
<1>2. /\ changes' \in [Actors -> Nat]
      /\ \A a \in Actors : changes[a] <= changes'[a]
      /\ \A a \in Actors : ~Changer(a) => changes'[a] = changes[a]
  BY WhoChangesTheRoot, ChangesGrow
<1>3. changes \in [Actors -> Nat] /\ bound[m] \in [Actors -> Nat]
  BY DEF RootInv, RootTypes
<1>4. CASE pc'[m] \notin {"verifying", "session", "unstable"}
  BY <1>4 DEF BoundInv
<1>5. CASE /\ pc[m] \in {"verifying", "session"} /\ pc'[m] = "unstable"
           /\ changes # bound[m] /\ UNCHANGED <<bound, target, changes>>
  <2>1. PICK a \in Actors : changes[a] # bound[m][a]
    BY <1>3, <1>5
  <2>2. /\ \A b \in Actors : bound[m][b] <= changes[b]
        /\ bound[m][m] = changes[m] /\ bound[m][target[m]] = changes[target[m]]
    BY <1>1, <1>5 DEF BoundInv
  <2>3. bound[m][a] < changes[a]
    BY <1>3, <2>1, <2>2
  <2>4. a \notin Verifiers
    BY <1>1, <1>3, <2>3
  <2>5. a \in (Preparers \cup Resumers) \ {m, target[m]}
    BY <2>1, <2>2, <2>4 DEF Actors
  <2>. QED
    BY <1>5, <2>3, <2>5 DEF BoundInv
<1>6. CASE /\ pc[m] = "preflight" /\ pc'[m] = "verifying"
           /\ bound'[m] = changes /\ UNCHANGED <<target, changes>>
  <2>1. \A a \in Actors : bound'[m][a] <= changes'[a]
    BY <1>3, <1>6
  <2>. QED
    BY <1>6, <2>1 DEF BoundInv
<1>7. CASE /\ pc[m] \in {"verifying", "session"} /\ pc'[m] \in {"verifying", "session"}
           /\ bound'[m] = bound[m] /\ target'[m] = target[m]
  <2>1. /\ \A a \in Actors : bound[m][a] <= changes[a]
        /\ bound[m][m] = changes[m] /\ bound[m][target[m]] = changes[target[m]]
    BY <1>1, <1>7 DEF BoundInv
  <2>2. target[m] \in Actors /\ ~Changer(target[m]) /\ ~Changer(m)
    BY <1>1, <1>7, ActorsAreDistinct DEF VisitInv, Changer, Actors
  <2>3. changes'[m] = changes[m] /\ changes'[target[m]] = changes[target[m]]
    BY <1>1, <1>2, <2>2
  <2>4. \A a \in Actors : bound[m][a] <= changes'[a]
    <3>. TAKE a \in Actors
    <3>1. bound[m][a] \in Nat /\ changes[a] \in Nat /\ changes'[a] \in Nat
      BY <1>2, <1>3
    <3>. QED
      BY <1>2, <2>1, <3>1
  <2>. QED
    BY <1>7, <2>1, <2>3, <2>4 DEF BoundInv
<1>8. CASE /\ pc[m] = "unstable" /\ pc'[m] = "unstable"
           /\ bound'[m] = bound[m] /\ target'[m] = target[m]
  <2>1. PICK a \in (Preparers \cup Resumers) \ {m, target[m]} : bound[m][a] < changes[a]
    BY <1>1, <1>8 DEF BoundInv
  <2>2. a \in Actors /\ bound[m][a] \in Nat /\ changes[a] \in Nat /\ changes'[a] \in Nat
    BY <1>2, <1>3, <2>1 DEF Actors
  <2>3. bound[m][a] < changes'[a]
    BY <1>2, <2>1, <2>2
  <2>. QED
    BY <1>8, <2>1, <2>3 DEF BoundInv
<1>. QED
  BY <1>4, <1>5, <1>6, <1>7, <1>8, ResumeFrame

LEMMA RootInvNext == IInv /\ RootInv /\ [Next]_vars => RootInv'
<1>. SUFFICES ASSUME IInv, RootInv, [Next]_vars PROVE RootInv'
  OBVIOUS
<1>1. CASE UNCHANGED vars
  BY <1>1 DEF vars, files, RootInv, RootTypes, BoundInv
<1>2. CASE Next
  <2>1. /\ changes' \in [Actors -> Nat]
        /\ \A a \in Actors : ~Changer(a) => changes'[a] = changes[a]
    BY <1>2, WhoChangesTheRoot, ChangesGrow
  <2>2. bound' = bound \/ \E m \in Resumers : bound' = [bound EXCEPT ![m] = changes]
    <3>1. ASSUME NEW p \in Preparers, Prepare(p) \/ Fail(p) PROVE bound' = bound
      BY <3>1 DEF Prepare, Fail, Leave, AcquireCreatorLock, CreateStaging, Probe,
         CreatePersistentLock, WriteArtifacts, SyncTree, WriteMarker, SyncMarker, Write,
         SyncDirectory, Rename, MarkPublished, SyncPublication, VerifyPublished, ReturnPrepared,
         RemovePart, RemoveStaging, SyncRemoval, AbandonStaging
    <3>2. ASSUME NEW v \in Verifiers, Verify(v) PROVE bound' = bound
      BY <3>2 DEF Verify, Open, TrySharedLock, BeginVerify, EndVerify
    <3>3. ASSUME NEW m \in Resumers, Resume(m)
          PROVE  bound' = bound \/ bound' = [bound EXCEPT ![m] = changes]
      BY <3>3 DEF Resume, Open, TryMutatorLock, BeginPreflight, Preflight, BindRoot, OpenSession,
         Revalidate, ReleaseMutator, AppendRow, EndResume
    <3>4. ASSUME NEW a \in Actors, Die(a) PROVE bound' = bound
      BY <3>4 DEF Die
    <3>5. PowerLoss => bound' = bound
      BY DEF PowerLoss
    <3>. QED
      BY <1>2, <3>1, <3>2, <3>3, <3>4, <3>5 DEF Next
  <2>3. RootTypes'
    BY <2>1, <2>2 DEF RootInv, RootTypes
  <2>4. \A v \in Verifiers : changes'[v] = 0
    BY <2>1, ActorsAreDistinct DEF RootInv, Changer, Actors
  <2>5. \A m \in Resumers : BoundInv(m)'
    BY <1>2, BoundStep
  <2>. QED
    BY <2>3, <2>4, <2>5 DEF RootInv
<1>. QED
  BY <1>1, <1>2

(* A resume and its capsule's preparation leave the root as the resume bound   *)
(* it, and an unstable one was changed by another.                             *)
THEOREM RootInvariance == Spec => []RootInv
<1>1. Init => RootInv
  BY DEF Init, RootInv, RootTypes, BoundInv, Actors
<1>. QED
  BY <1>1, RootInvNext, Invariance, PTL DEF Spec

(* No sound capsule is reported invalid, no verification unstable, and a       *)
(* resume only where a third party made or removed an entry of the root; a     *)
(* preparation finds its own capsule untouched when it verifies it.            *)
THEOREM FalseAlarmNever == Spec => []NoFalseAlarm
<1>1. IInv /\ RootInv => NoFalseAlarm
  BY DEF IInv, VisitInv, Visitors, VerifyInv, PrepInv, NameInv, OwnLockInv, Held, RootInv,
         BoundInv, NoFalseAlarm
<1>. QED
  BY <1>1, Invariance, RootInvariance, PTL

(* A published capsule keeps its name: no other preparation, cleanup, death or *)
(* failure takes it, and a power loss only before the root has been synced.    *)
THEOREM NameIsKept == Spec => NeverReplaced
<1>1. ASSUME IInv, [Next]_vars, NEW p \in Preparers, at[p] = "published"
      PROVE  at'[p] = "published" \/ (losses' # losses /\ synced[p] # "published")
  <2>1. TypeOK /\ PrepInv(p) /\ p \in Actors
    BY <1>1 DEF IInv, Actors
  <2>2. CASE at' = at
    BY <1>1, <2>2
  <2>3. ASSUME NEW q \in Preparers, CreateStaging(q) \/ Rename(q) \/ RemoveStaging(q)
        PROVE  at'[p] = "published"
    <3>1. PICK name : at' = [at EXCEPT ![q] = name] /\ (at[q] = "published" => name = "published")
      <4>1. PrepInv(q)
        BY <1>1 DEF IInv
      <4>2. at = [at EXCEPT ![q] = at[q]]
        BY <2>1 DEF TypeOK
      <4>. QED
        BY <2>3, <4>1, <4>2
           DEF CreateStaging, Rename, RemoveStaging, PrepInv, NameInv
    <3>. QED
      BY <1>1, <2>1, <3>1 DEF TypeOK
  <2>4. CASE PowerLoss
    <3>1. at'[p] \in {at[p], synced[p]} /\ losses' = losses + 1
      BY <2>4 DEF PowerLoss
    <3>. QED
      BY <1>1, <2>1, <3>1 DEF TypeOK
  <2>5. ASSUME NEW q \in Preparers, Prepare(q) \/ Fail(q)
        PROVE  at' = at \/ CreateStaging(q) \/ Rename(q) \/ RemoveStaging(q)
    BY <2>5 DEF Prepare, Fail, AcquireCreatorLock, Probe, CreatePersistentLock, WriteArtifacts,
       SyncTree, WriteMarker, SyncMarker, Write, SyncDirectory, MarkPublished, SyncPublication,
       VerifyPublished, ReturnPrepared, RemovePart, SyncRemoval, AbandonStaging, files
  <2>6. ASSUME NEW m \in Resumers, Resume(m) PROVE at' = at
    BY <2>6 DEF Resume, Open, TryMutatorLock, BeginPreflight, Preflight, BindRoot, OpenSession,
       Revalidate, AppendRow, EndResume, files
  <2>7. ASSUME NEW v \in Verifiers, Verify(v) PROVE at' = at
    BY <2>7 DEF Verify, Open, TrySharedLock, BeginVerify, EndVerify, files
  <2>8. ASSUME NEW a \in Actors, Die(a) PROVE at' = at
    BY <2>8 DEF Die, files
  <2>9. UNCHANGED vars => at' = at
    BY DEF vars, files
  <2>. QED
    BY <1>1, <2>2, <2>3, <2>4, <2>5, <2>6, <2>7, <2>8, <2>9 DEF Next
<1>2. IInv /\ [Next]_vars =>
        [\A p \in Preparers :
           at[p] = "published" => at'[p] = "published"
                                  \/ (losses' # losses /\ synced[p] # "published")]_vars
  BY <1>1
<1>. QED
  BY <1>2, Invariance, PTL DEF Spec, NeverReplaced
=============================================================================
