------------------------- MODULE CapsulePublication -------------------------
(* A results root: preparations build a capsule in a private staging directory *)
(* and publish it under its run id, resumes and verifications open what is     *)
(* published.  Creators serialize on the creator lock; a capsule's own lock is *)
(* held exclusively by its preparation and by a resume, shared by a            *)
(* verification.  Any of them may fail, be interrupted or die at every step,   *)
(* and the machine may lose power.                                             *)
(*                                                                             *)
(* A directory is named by the preparation that made it.  What a directory     *)
(* holds, and the name it has in the root, are on stable storage only once the *)
(* directory that holds the entry is synced.                                   *)
EXTENDS Naturals, FiniteSets

CONSTANTS
    Preparers, Resumers, Verifiers,  \* invocations
    NoOne,                           \* a free lock, an unopened directory
    RunIds,                          \* generated run ids, the destination names
    MaxAppends,                      \* bound on the changes of a ledger
    MaxLosses                        \* bound on power losses

Actors == Preparers \cup Resumers \cup Verifiers
Parts == {"lock", "artifacts", "marker"}

ASSUME ActorsAreDistinct ==
    /\ Preparers \cap Resumers = {} /\ Preparers \cap Verifiers = {}
    /\ Resumers \cap Verifiers = {} /\ NoOne \notin Actors

VARIABLES
    runId,      \* [Preparers -> RunIds], which may collide
    pc,         \* [Actors -> place in the code]
    at, synced, \* [Preparers -> name of the directory in the root], and as last synced
    has, kept,  \* [Preparers -> SUBSET Parts]: what it holds, and as last synced
    creator,    \* holder of .laconian-create.lock
    exclusive,  \* [Preparers -> holder of its .laconian.lock]
    shared,     \* [Preparers -> verifications that hold it shared]
    target,     \* [Resumers \cup Verifiers -> the directory they opened]
    version,    \* [Preparers -> changes of its ledgers]
    changes,    \* [Actors -> entries each made or removed in the root]: what its
                \* size and times tell of it
    bound,      \* [Resumers -> the changes when the resume bound the root]
    seen,       \* [Verifiers -> version when the verification began]
    losses

files == <<runId, at, synced, has, kept, version, changes>>
locks == <<creator, exclusive, shared>>
vars == <<pc, files, locks, target, bound, seen, losses>>

Goto(a, place) == pc' = [pc EXCEPT ![a] = place]

Init ==
    /\ runId \in [Preparers -> RunIds]
    /\ pc = [a \in Actors |-> "new"]
    /\ at = [p \in Preparers |-> "none"] /\ synced = at
    /\ has = [p \in Preparers |-> {}] /\ kept = has
    /\ creator = NoOne
    /\ exclusive = [p \in Preparers |-> NoOne]
    /\ shared = [p \in Preparers |-> {}]
    /\ target = [a \in Resumers \cup Verifiers |-> NoOne]
    /\ version = [p \in Preparers |-> 0]
    /\ changes = [a \in Actors |-> 0]
    /\ bound = [m \in Resumers |-> changes]
    /\ seen = [v \in Verifiers |-> 0]
    /\ losses = 0

-----------------------------------------------------------------------------
(* An entry of the results root is made, renamed or removed.                    *)
ChangeRoot(a) == changes' = [changes EXCEPT ![a] = @ + 1]

(* Preparation *)

Building == {"creating", "staged", "probed", "locked", "written", "treeSynced",
             "marked", "ready", "renamed"}
Public == {"published", "visible", "verified"}
Undoing == {"cleaning", "removed"}

(* The lock's file is made where the root has none, or has lost it.            *)
AcquireCreatorLock(p) ==
    /\ pc[p] = "new" /\ creator = NoOne
    /\ creator' = p
    /\ ChangeRoot(p) \/ UNCHANGED changes
    /\ Goto(p, "creating")
    /\ UNCHANGED <<runId, at, synced, has, kept, version, exclusive, shared, target, bound,
                   seen, losses>>

(* Leaving the preparation closes its descriptors, and with them its locks.    *)
Leave(p, result) ==
    /\ Goto(p, result)
    /\ creator' = NoOne
    /\ exclusive' = [exclusive EXCEPT ![p] = IF @ = p THEN NoOne ELSE @]
    /\ UNCHANGED <<shared, target, bound, seen, losses>>

CreateStaging(p) ==
    /\ pc[p] = "creating"
    /\ at' = [at EXCEPT ![p] = "staging"] /\ ChangeRoot(p)
    /\ Goto(p, "staged")
    /\ UNCHANGED <<runId, synced, has, kept, version, locks, target, bound, seen, losses>>

(* The probe directory is removed and the staging directory synced again.      *)
Probe(p) ==
    /\ pc[p] = "staged"
    /\ Goto(p, "probed")
    /\ UNCHANGED <<files, locks, target, bound, seen, losses>>

CreatePersistentLock(p) ==
    /\ pc[p] = "probed"
    /\ has' = [has EXCEPT ![p] = @ \cup {"lock"}]
    /\ exclusive' = [exclusive EXCEPT ![p] = p]
    /\ Goto(p, "locked")
    /\ UNCHANGED <<runId, at, synced, kept, version, changes, creator, shared, target, bound, seen, losses>>

Write(p, from, part, to) ==
    /\ pc[p] = from
    /\ has' = [has EXCEPT ![p] = @ \cup {part}]
    /\ Goto(p, to)
    /\ UNCHANGED <<runId, at, synced, kept, version, changes, locks, target, bound, seen, losses>>

SyncDirectory(p, from, to) ==
    /\ pc[p] = from
    /\ kept' = [kept EXCEPT ![p] = has[p]]
    /\ Goto(p, to)
    /\ UNCHANGED <<runId, at, synced, has, version, changes, locks, target, bound, seen, losses>>

WriteArtifacts(p) == Write(p, "locked", "artifacts", "written")
SyncTree(p) == SyncDirectory(p, "written", "treeSynced")
WriteMarker(p) == Write(p, "treeSynced", "marker", "marked")

SyncMarker(p) == SyncDirectory(p, "marked", "ready")

Occupied(p) == \E q \in Preparers : at[q] = "published" /\ runId[q] = runId[p]

(* Variant: an ordinary rename, which takes the name from what has it.         *)
RenameReplacing(p) ==
    /\ pc[p] = "ready"
    /\ at' = [q \in Preparers |->
                IF q = p THEN "published"
                ELSE IF at[q] = "published" /\ runId[q] = runId[p] THEN "none"
                ELSE at[q]]
    /\ ChangeRoot(p)
    /\ Goto(p, "renamed")
    /\ UNCHANGED <<runId, synced, has, kept, version, locks, target, bound, seen, losses>>

(* Atomic rename without replacement; an occupied name starts the cleanup.     *)
Rename(p) ==
    /\ pc[p] = "ready"
    /\ IF Occupied(p)
          THEN Goto(p, "cleaning") /\ UNCHANGED <<at, changes>>
          ELSE /\ at' = [at EXCEPT ![p] = "published"] /\ ChangeRoot(p)
               /\ Goto(p, "renamed")
    /\ UNCHANGED <<runId, synced, has, kept, version, locks, target, bound, seen, losses>>

(* The staging object learns that it is published.                             *)
MarkPublished(p) ==
    /\ pc[p] = "renamed"
    /\ Goto(p, "published")
    /\ UNCHANGED <<files, locks, target, bound, seen, losses>>

SyncRoot == synced' = at

(* Variant: the results root is not synced after the rename.                   *)
SyncPublicationSkipped(p) ==
    /\ pc[p] = "published"
    /\ Goto(p, "visible")
    /\ UNCHANGED <<files, locks, target, bound, seen, losses>>

SyncPublication(p) ==
    /\ pc[p] = "published"
    /\ SyncRoot
    /\ Goto(p, "visible")
    /\ UNCHANGED <<runId, at, has, kept, version, changes, locks, target, bound, seen, losses>>

(* The capsule it finds behind its own name must be valid and PREPARED.        *)
VerifyPublished(p) ==
    /\ pc[p] = "visible"
    /\ IF at[p] = "published" /\ has[p] = Parts /\ version[p] = 0
          THEN Goto(p, "verified") /\ UNCHANGED <<creator, exclusive, shared, target, bound, seen, losses>>
          ELSE Leave(p, "post_publish")
    /\ UNCHANGED files

ReturnPrepared(p) == pc[p] = "verified" /\ Leave(p, "prepared") /\ UNCHANGED files

(* A step fails or is interrupted.  What is not yet known to be published is   *)
(* cleaned up; what is published stays.                                        *)
Fail(p) ==
    /\ \/ pc[p] = "creating" /\ Leave(p, "failed")
       \/ /\ pc[p] \in Building \ {"creating"}
          /\ exclusive' = [exclusive EXCEPT ![p] = NoOne]
          /\ Goto(p, "cleaning")
          /\ UNCHANGED <<creator, shared, target, bound, seen, losses>>
       \/ pc[p] \in Public /\ Leave(p, "post_publish")
    /\ UNCHANGED files

(* Cleanup goes on only while the staging name still names the directory.      *)
RemovePart(p) ==
    /\ pc[p] = "cleaning" /\ at[p] = "staging"
    /\ \E part \in has[p] : has' = [has EXCEPT ![p] = @ \ {part}]
    /\ UNCHANGED <<runId, pc, at, synced, kept, version, changes, locks, target, bound, seen, losses>>

RemoveStaging(p) ==
    /\ pc[p] = "cleaning" /\ at[p] = "staging" /\ has[p] = {}
    /\ at' = [at EXCEPT ![p] = "none"] /\ ChangeRoot(p)
    /\ kept' = [kept EXCEPT ![p] = {}]
    /\ Goto(p, "removed")
    /\ UNCHANGED <<runId, synced, has, version, locks, target, bound, seen, losses>>

SyncRemoval(p) ==
    /\ pc[p] = "removed"
    /\ SyncRoot
    /\ Leave(p, "failed")
    /\ UNCHANGED <<runId, at, has, kept, version, changes>>

(* Variant: a failed cleanup leaves the creator lock's descriptor open.        *)
AbandonKeepingLock(p) ==
    /\ pc[p] \in Undoing
    /\ Goto(p, "failed")
    /\ UNCHANGED <<files, locks, target, bound, seen, losses>>

(* Cleanup fails: the staging directory, or what is left of it, is abandoned.  *)
AbandonStaging(p) ==
    /\ pc[p] \in Undoing
    /\ Leave(p, "failed")
    /\ UNCHANGED files

Prepare(p) ==
    \/ AcquireCreatorLock(p) \/ CreateStaging(p) \/ Probe(p) \/ CreatePersistentLock(p)
    \/ WriteArtifacts(p) \/ SyncTree(p) \/ WriteMarker(p) \/ SyncMarker(p)
    \/ Rename(p) \/ MarkPublished(p) \/ SyncPublication(p) \/ VerifyPublished(p)
    \/ ReturnPrepared(p) \/ RemovePart(p) \/ RemoveStaging(p) \/ SyncRemoval(p)
    \/ AbandonStaging(p)

-----------------------------------------------------------------------------
(* Resume and verification open a published capsule by its path.               *)

Open(a) ==
    /\ pc[a] = "new"
    /\ \E p \in Preparers : at[p] = "published" /\ target' = [target EXCEPT ![a] = p]
    /\ Goto(a, "opened")
    /\ UNCHANGED <<files, locks, bound, seen, losses>>

Target(a) == target[a]

(* A lock that cannot be had at once is busy; one that is not there is invalid. *)
TryMutatorLock(m) ==
    /\ pc[m] = "opened"
    /\ IF "lock" \notin has[Target(m)]
          THEN Goto(m, "invalid") /\ UNCHANGED exclusive
          ELSE IF exclusive[Target(m)] # NoOne \/ shared[Target(m)] # {}
          THEN Goto(m, "busy") /\ UNCHANGED exclusive
          ELSE exclusive' = [exclusive EXCEPT ![Target(m)] = m] /\ Goto(m, "locked")
    /\ UNCHANGED <<files, creator, shared, target, bound, seen, losses>>

ReleaseMutator(m, result) ==
    /\ exclusive' = [exclusive EXCEPT ![Target(m)] = NoOne]
    /\ Goto(m, result)
    /\ UNCHANGED <<creator, shared, target, bound, seen, losses>>

(* The mutator probes the filesystem in a staging directory of its own beside  *)
(* the capsule.                                                                *)
BeginPreflight(m) ==
    /\ pc[m] = "locked"
    /\ ChangeRoot(m)
    /\ Goto(m, "probing")
    /\ UNCHANGED <<runId, at, synced, has, kept, version, locks, target, bound, seen, losses>>

(* Variant: the staging directory is removed without syncing the root.         *)
PreflightUnsynced(m) ==
    /\ pc[m] = "probing"
    /\ at[Target(m)] = "published"
    /\ ChangeRoot(m)
    /\ Goto(m, "preflight")
    /\ UNCHANGED <<runId, at, synced, has, kept, version, locks, target, bound, seen, losses>>

(* Removing it syncs the root, and with it the capsule's own name; the capsule *)
(* is still found behind that name.                                            *)
Preflight(m) ==
    /\ pc[m] = "probing"
    /\ at[Target(m)] = "published"
    /\ SyncRoot /\ ChangeRoot(m)
    /\ Goto(m, "preflight")
    /\ UNCHANGED <<runId, at, has, kept, version, locks, target, bound, seen, losses>>

(* Variant: the probe's staging directory is removed after the root is bound.  *)
BindRootTooEarly(m) ==
    /\ pc[m] = "preflight"
    /\ bound' = [bound EXCEPT ![m] = changes] /\ ChangeRoot(m)
    /\ Goto(m, "verifying")
    /\ UNCHANGED <<runId, at, synced, has, kept, version, locks, target, seen, losses>>

(* The verification of the capsule begins: the root is bound as it is, with    *)
(* its size and times.                                                         *)
BindRoot(m) ==
    /\ pc[m] = "preflight"
    /\ bound' = [bound EXCEPT ![m] = changes]
    /\ Goto(m, "verifying")
    /\ UNCHANGED <<files, locks, target, seen, losses>>

(* It ends, and the root must be as it was bound.                              *)
OpenSession(m) ==
    /\ pc[m] = "verifying"
    /\ IF has[Target(m)] # Parts THEN ReleaseMutator(m, "invalid")
       ELSE IF changes # bound[m] THEN ReleaseMutator(m, "unstable")
       ELSE Goto(m, "session") /\ UNCHANGED <<locks, target, bound, seen, losses>>
    /\ UNCHANGED files

(* So it must at every later look: before recovery truncates or appends, and   *)
(* at every call and append boundary (where the resume says of it that its     *)
(* producer's runtime differs).                                                *)
Revalidate(m) ==
    /\ pc[m] = "session"
    /\ changes # bound[m]
    /\ ReleaseMutator(m, "unstable")
    /\ UNCHANGED files

AppendRow(m) ==
    /\ pc[m] = "session" /\ version[Target(m)] < MaxAppends
    /\ version' = [version EXCEPT ![Target(m)] = @ + 1]
    /\ UNCHANGED <<runId, pc, at, synced, has, kept, changes, locks, target, bound, seen, losses>>

EndResume(m) ==
    /\ pc[m] \in {"locked", "probing", "preflight", "verifying", "session"}
    /\ ReleaseMutator(m, "done")
    /\ UNCHANGED files

Resume(m) ==
    \/ Open(m) \/ TryMutatorLock(m) \/ BeginPreflight(m) \/ Preflight(m) \/ BindRoot(m)
    \/ OpenSession(m) \/ Revalidate(m) \/ AppendRow(m) \/ EndResume(m)

TrySharedLock(v) ==
    /\ pc[v] = "opened"
    /\ IF "lock" \notin has[Target(v)]
          THEN Goto(v, "invalid") /\ UNCHANGED shared
          ELSE IF exclusive[Target(v)] # NoOne
          THEN Goto(v, "busy") /\ UNCHANGED shared
          ELSE shared' = [shared EXCEPT ![Target(v)] = @ \cup {v}] /\ Goto(v, "locked")
    /\ UNCHANGED <<files, creator, exclusive, target, bound, seen, losses>>

BeginVerify(v) ==
    /\ pc[v] = "locked"
    /\ seen' = [seen EXCEPT ![v] = version[Target(v)]]
    /\ Goto(v, "reading")
    /\ UNCHANGED <<files, locks, target, bound, losses>>

(* A snapshot that changed between first and last look is unstable.            *)
EndVerify(v) ==
    /\ pc[v] = "reading"
    /\ Goto(v, IF has[Target(v)] # Parts THEN "invalid"
               ELSE IF version[Target(v)] # seen[v] THEN "unstable" ELSE "valid")
    /\ shared' = [shared EXCEPT ![Target(v)] = @ \ {v}]
    /\ UNCHANGED <<files, creator, exclusive, target, bound, seen, losses>>

Verify(v) == Open(v) \/ TrySharedLock(v) \/ BeginVerify(v) \/ EndVerify(v)

-----------------------------------------------------------------------------
(* A process dies: the kernel releases its locks and nothing is cleaned up.    *)
Returned == {"prepared", "post_publish", "failed", "busy", "invalid", "unstable",
             "valid", "done", "killed"}
Die(a) ==
    /\ pc[a] \notin Returned \cup {"new"}
    /\ Goto(a, "killed")
    /\ creator' = IF creator = a THEN NoOne ELSE creator
    /\ exclusive' = [p \in Preparers |-> IF exclusive[p] = a THEN NoOne ELSE exclusive[p]]
    /\ shared' = [p \in Preparers |-> shared[p] \ {a}]
    /\ UNCHANGED <<files, target, bound, seen, losses>>

(* The machine stops.  Each directory keeps its name, or goes back to the one  *)
(* last synced; so does each entry in it.                                      *)
PowerLoss ==
    /\ losses < MaxLosses
    /\ losses' = losses + 1
    /\ at' \in {f \in [Preparers -> {"none", "staging", "published"}] :
                  \A p \in Preparers : f[p] \in {at[p], synced[p]}}
    /\ has' \in {f \in [Preparers -> SUBSET Parts] :
                   \A p \in Preparers : /\ kept[p] \cap has[p] \subseteq f[p]
                                        /\ f[p] \subseteq kept[p] \cup has[p]}
    /\ synced' = at' /\ kept' = has'
    /\ pc' = [a \in Actors |-> IF pc[a] \in Returned \cup {"new"} THEN pc[a] ELSE "killed"]
    /\ creator' = NoOne
    /\ exclusive' = [p \in Preparers |-> NoOne]
    /\ shared' = [p \in Preparers |-> {}]
    /\ UNCHANGED <<runId, changes, target, bound, version, seen>>

Next ==
    \/ \E p \in Preparers : Prepare(p) \/ Fail(p)
    \/ \E m \in Resumers : Resume(m)
    \/ \E v \in Verifiers : Verify(v)
    \/ \E a \in Actors : Die(a)
    \/ PowerLoss

Spec == Init /\ [][Next]_vars

(* A preparation is one thread; its system calls end.                          *)
FairSpec == Spec /\ \A p \in Preparers : WF_vars(Prepare(p))

-----------------------------------------------------------------------------
(* Properties *)

(* What can be seen under a run id is a whole capsule, through failures and    *)
(* cleanups at every step, deaths and power losses: the tree is synced, the    *)
(* marker is written last and synced, and only then is the name given.  A      *)
(* preparation that reported success is there, whatever happens.               *)
PublishedIsWhole ==
    \A p \in Preparers : /\ at[p] = "published" => has[p] = Parts
                         /\ pc[p] = "prepared" => at[p] = "published"

(* A published capsule keeps its name whatever other preparations do; only a   *)
(* power loss before the root is synced takes it back.                         *)
NeverReplaced ==
    [][\A p \in Preparers :
          at[p] = "published" => at'[p] = "published"
                                 \/ (losses' # losses /\ synced[p] # "published")]_vars

(* Rows are written, and a provider constructed, only in a capsule that a      *)
(* power loss cannot take away, even if its preparation died before the sync   *)
(* of the root or that sync failed.                                            *)
SessionsAreDurable ==
    \A m \in Resumers :
        pc[m] = "session" => synced[target[m]] = "published" /\ kept[target[m]] = Parts

(* A sound capsule in use is not reported broken: no other operation touches   *)
(* it before its preparation has verified it, a verification waits for those   *)
(* that append, and a resume finds the root changed only when another entry    *)
(* was made or removed beside it since it bound the root: neither by its own   *)
(* probe, nor by the preparation of its capsule, nor by a verification.        *)
NoFalseAlarm ==
    /\ \A p \in Preparers : pc[p] \in Public => version[p] = 0 /\ at[p] = "published"
    /\ \A a \in Resumers \cup Verifiers : pc[a] # "invalid"
    /\ \A v \in Verifiers : pc[v] # "unstable"
    /\ \A m \in Resumers : pc[m] = "unstable" =>
          \E a \in (Preparers \cup Resumers) \ {m, target[m]} : bound[m][a] < changes[a]

(* Every preparation ends, and lets the next one in.                           *)
PreparationsEnd == \A p \in Preparers : <>(pc[p] \in Returned)
=============================================================================
