------------------------- MODULE RuntimeProvenance -------------------------
(* The installed code a session runs, while somebody may install another       *)
(* version of it: its capture, file by file; the import guard, which executes  *)
(* captured sources but leaves extensions to the loader that maps the file;    *)
(* and the checkpoints around every request.  Modules imported before the      *)
(* capture are older than any of these checks and are not part of this.        *)
EXTENDS Naturals, Sequences, FiniteSets, SequencesExt

CONSTANTS
    Packages,       \* the runner and its dependencies: sequences of files, in capture order
    Extensions,     \* files that are no Python source
    Contents,
    Foreign,        \* what a finder other than the guard would have executed
    MaxChanges      \* changes of files or of the import state

Files == UNION { ToSet(Packages[i]) : i \in DOMAIN Packages }

ConstantsAreLegal ==
    /\ Packages \in Seq(Seq(Files)) /\ Extensions \subseteq Files
    /\ Foreign \notin Contents /\ MaxChanges \in Nat

-----------------------------------------------------------------------------
(* What one phase after the other does with the files, in order.               *)

Each(do, files) == [i \in DOMAIN files |-> [do |-> do, file |-> files[i]]]
Once(do) == <<[do |-> do]>>
AllFiles == FlattenSeq(Packages)

(* Each package is read and then looked at again, before the next one.         *)
Capture ==
    FlattenSeq([i \in DOMAIN Packages |->
                  Each("read", Packages[i]) \o Each("verify", Packages[i])])

(* Variant: the policy takes the captured files as they are.                   *)
PolicyUnchecked == Once("adopt")

Policy == Once("adopt") \o Each("own", AllFiles)

Guard == Once("state") \o Each("own", AllFiles)
Authority == Capture \o Policy \o Once("state") \o Once("compare") \o Guard

(* Variant: a checkpoint compares what it captures, and no identities.         *)
CheckpointOfContents == Capture \o Once("compare") \o Once("state")

Checkpoint == Capture \o Once("compare") \o Each("own", AllFiles) \o Once("state")

(* The stages of a session, and what stands before each.                       *)
Following ==
    [starting |-> "binding", binding |-> "bound", bound |-> "requested",
     requested |-> "answering", answering |-> "recorded", recorded |-> "requested"]
Checks(stage) ==
    CASE stage \in {"binding", "bound"} -> Checkpoint
      [] stage \in {"requested", "recorded"} -> Checkpoint \o Checkpoint
      [] stage = "answering" -> <<>>

-----------------------------------------------------------------------------
VARIABLES
    disk,           \* for each file its content and identity (times, inode, size)
    hooks,          \* the import state: as the guard left it, or "changed"
    changes,
    read,           \* the files as the current capture has them
    policy,         \* the files the policy owns, as first captured
    stage, todo,    \* a stage is entered once todo is empty
    importing, loaded,
    executed,       \* for each file, what has been executed in its name, and who found it
    strangers,      \* modules of other finders that stand in sys.modules as such
    seen            \* contents of all files since the first capture began

session == <<read, policy, stage, todo>>
interpreter == <<importing, loaded, executed, strangers>>
vars == <<disk, hooks, changes, session, interpreter, seen>>

Nothing == [at |-> "nothing"]
ContentOf(files) == [f \in Files |-> files[f].content]

(* The environment of the capsule records these.                               *)
Recorded == [f \in Files |-> CHOOSE c \in Contents : TRUE]

Init ==
    /\ disk \in [Files -> [content : Contents, identity : {0}]]
    /\ hooks = "fixed" /\ changes = 0
    /\ read = disk /\ policy = disk
    /\ stage = "starting" /\ todo = Authority
    /\ importing = Nothing /\ loaded = {} /\ executed = [f \in Files |-> {}]
    /\ strangers = {} /\ seen = {ContentOf(disk)}

-----------------------------------------------------------------------------
(* Somebody else.  Every change of a file gives it another identity.           *)

Install(f, content) ==
    /\ changes < MaxChanges /\ changes' = changes + 1
    /\ disk' = [disk EXCEPT ![f] = [content |-> content, identity |-> changes']]
    /\ seen' = IF stage = "starting" THEN seen \cup {ContentOf(disk')} ELSE seen
    /\ UNCHANGED <<hooks, session, interpreter>>

(* Code of the provider or of an import changes the import state, or changes   *)
(* it back.                                                                    *)
Importable == todo = <<>> /\ stage \in {"binding", "answering"}

ChangeHooks ==
    /\ Importable
    /\ changes < MaxChanges /\ changes' = changes + 1
    /\ hooks' = IF hooks = "fixed" THEN "changed" ELSE "fixed"
    /\ UNCHANGED <<disk, session, interpreter, seen>>

-----------------------------------------------------------------------------
(* The phases.                                                                 *)

Owned(f) == disk[f].identity = policy[f].identity

(* The import state, and of the modules that are loaded the strangers: those   *)
(* the guard loaded come from files that are looked at anyway.                 *)
StateIsFixed == hooks = "fixed" /\ strangers = {}

Holds(check) ==
    CASE check.do = "verify" -> disk[check.file].identity = read[check.file].identity
      [] check.do = "own" -> Owned(check.file)
      [] check.do = "state" -> StateIsFixed
      [] check.do = "compare" -> ContentOf(read) = Recorded

Step(do) == todo # <<>> /\ Head(todo).do = do /\ todo' = Tail(todo)

ReadFile ==
    /\ Step("read")
    /\ read' = [read EXCEPT ![Head(todo).file] = disk[Head(todo).file]]
    /\ UNCHANGED <<disk, hooks, changes, policy, stage, interpreter, seen>>

Adopt ==
    /\ Step("adopt") /\ policy' = read
    /\ UNCHANGED <<disk, hooks, changes, read, stage, interpreter, seen>>

Check ==
    /\ todo # <<>> /\ Head(todo).do \in {"verify", "own", "state", "compare"}
    /\ IF Holds(Head(todo))
          THEN todo' = Tail(todo) /\ UNCHANGED stage
          ELSE todo' = <<>> /\ stage' = "refused"
    /\ seen' = IF Head(todo).do = "compare" THEN {} ELSE seen
    /\ UNCHANGED <<disk, hooks, changes, read, policy, interpreter>>

Proceed ==
    /\ todo = <<>> /\ stage # "refused" /\ importing = Nothing
    /\ stage' = Following[stage] /\ todo' = Checks(stage')
    /\ UNCHANGED <<disk, hooks, changes, read, policy, interpreter, seen>>

-----------------------------------------------------------------------------
(* One import at a time.  Whoever imports may survive the failure of one.      *)

(* The audit hook, called before any finder if the import raises its event: an *)
(* import statement and __import__ do, importlib.import_module does not.       *)
Audit(event) == event => hooks = "fixed"

(* The guard, while it is the first finder; it looks at the import state too.  *)
(* Before it, or without it, another finder answers what the hook has let by.  *)
Finder(event) ==
    IF hooks = "fixed" THEN "guard" ELSE IF event THEN "audited" ELSE "unaudited"

FindSpec(f, event) ==
    /\ Importable /\ importing = Nothing /\ f \notin loaded
    /\ Audit(event) /\ (hooks = "fixed" => Owned(f))
    /\ importing' = [at |-> "found", file |-> f, finder |-> Finder(event)]
    /\ UNCHANGED <<disk, hooks, changes, session, loaded, executed, strangers, seen>>

(* exec_module of a source, create_module of an extension: origin first.       *)
BeginModule ==
    /\ importing.at = "found"
    /\ importing' = IF importing.finder = "guard" /\ ~Owned(importing.file)
                       THEN Nothing ELSE [importing EXCEPT !.at = "validated"]
    /\ UNCHANGED <<disk, hooks, changes, session, loaded, executed, strangers, seen>>

Executes(f, finder) ==
    IF finder # "guard" THEN Foreign
    ELSE IF f \in Extensions THEN disk[f].content ELSE policy[f].content

ExecuteModule ==
    /\ importing.at = "validated"
    /\ executed' = [executed EXCEPT ![importing.file] = @ \cup
                      {[finder |-> importing.finder,
                        code |-> Executes(importing.file, importing.finder)]}]
    /\ importing' = [importing EXCEPT !.at = "executed"]
    /\ UNCHANGED <<disk, hooks, changes, session, loaded, strangers, seen>>

(* post_validate: a module that fails it has run, but is not kept.             *)
EndModule ==
    /\ importing.at = "executed" /\ importing.finder = "guard" /\ importing' = Nothing
    /\ loaded' = IF hooks = "fixed" /\ Owned(importing.file)
                    THEN loaded \cup {importing.file} ELSE loaded
    /\ UNCHANGED <<disk, hooks, changes, session, executed, strangers, seen>>

(* The module of another finder stands in sys.modules as what it is, or with   *)
(* the spec of the file whose name it has, or is taken out again.              *)
EndForeignModule ==
    /\ importing.at = "executed" /\ importing.finder # "guard" /\ importing' = Nothing
    /\ \/ /\ loaded' = loaded \cup {importing.file}
          /\ strangers' \in {strangers, strangers \cup {importing.file}}
       \/ UNCHANGED <<loaded, strangers>>
    /\ UNCHANGED <<disk, hooks, changes, session, executed, seen>>

Next ==
    \/ \E f \in Files, c \in Contents : Install(f, c)
    \/ ChangeHooks
    \/ ReadFile \/ Adopt \/ Check \/ Proceed
    \/ \E f \in Files, event \in BOOLEAN : FindSpec(f, event)
    \/ BeginModule \/ ExecuteModule \/ EndModule \/ EndForeignModule

Spec == Init /\ [][Next]_vars

-----------------------------------------------------------------------------
(* When a request is made, and when its answer is recorded, all that the guard *)
(* found is the code the capsule records, also where a file was replaced under *)
(* an extension's import and put back before the checkpoint.  Other code has   *)
(* run only by an import that raised no audit event while the import state was *)
(* changed; by then that state is as the guard left it and no module of such   *)
(* an import stands in sys.modules as such.  With no change to the recorded    *)
(* installation nothing is refused.                                            *)
Accounted(f) ==
    {[finder |-> "guard", code |-> Recorded[f]], [finder |-> "unaudited", code |-> Foreign]}

GuardRunsRecordedCode ==
    /\ todo = <<>> /\ stage \in {"requested", "recorded"} =>
         StateIsFixed /\ \A f \in Files : executed[f] \subseteq Accounted(f)
    /\ stage = "refused" => changes > 0 \/ ContentOf(disk) # Recorded

(* What the policy compares with the capsule was installed all at one time,    *)
(* although it is captured file by file and package by package.                *)
OneInstallation ==
    stage = "starting" /\ todo # <<>> /\ Head(todo).do = "compare" => ContentOf(policy) \in seen
=============================================================================
