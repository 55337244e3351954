--------------------------- MODULE JournalBinding ---------------------------
(* The two ledgers of a capsule are read and appended through retained         *)
(* descriptors while nothing stops a program that ignores the lock.  Each      *)
(* operation is the sequence of its looks at the file system; it refuses at    *)
(* the first that contradicts an earlier one.  Stamps are those of a coarse    *)
(* clock: two changes in one tick are told apart by size and content alone.    *)
EXTENDS Naturals, Sequences, SequencesExt

CONSTANTS
    EventRows, RawRows,  \* rows the ledgers start with
    MaxEdits,            \* bound on changes made from outside
    MaxOperations,       \* bound on operations
    MaxTime              \* bound on the clock

ConstantsAreLegal == {EventRows, RawRows, MaxEdits, MaxOperations, MaxTime} \subseteq Nat

Ledgers == {"events", "raw"}
Sides == {"reader", "writer"}

VARIABLES
    inodes,      \* sequence of [rows, stamp]
    path,        \* [Ledgers -> the inode its name leads to]
    root,        \* stamp of the capsule directory
    parent,      \* stamp of the results root it stands in
    now, fresh,  \* the clock; every row ever written is another number
    operation,   \* name of the last operation begun
    todo,        \* its looks that remain
    fd,          \* [Sides -> [Ledgers -> inode]]
    base,        \* [Sides -> [Ledgers -> identity it is bound to]]
    read,        \* [Sides -> [Ledgers -> rows that were hashed]]
    part,        \* [Sides -> [Ledgers -> rows of the pass under way]]
    rootBase, parentBase, \* stamps of the two directories the session is bound to
    mode,        \* of the transaction: "none", "open" or "poisoned"
    refused,     \* why the last operation failed, if it did
    accepted,    \* pairs of rows the last operation accepted, if it read any
    held,        \* pairs of rows the two names have led to since it began
    edits, besides, operations

world == <<inodes, path, root, parent, now, fresh>>
binding == <<fd, base, read, part, rootBase, parentBase>>
outcome == <<mode, refused, accepted>>
vars == <<world, operation, todo, binding, outcome, held, edits, besides, operations>>

Nothing == [l \in Ledgers |-> <<>>]
Unbound == [inode |-> 0, size |-> 0, stamp |-> 0]

Identity(i) == [inode |-> i, size |-> Len(inodes[i].rows), stamp |-> inodes[i].stamp]
Pair(files, names) == [l \in Ledgers |-> files[names[l]].rows]

Init ==
    /\ inodes = << [rows |-> [n \in 1 .. EventRows |-> n], stamp |-> 0],
                   [rows |-> [n \in 1 .. RawRows |-> EventRows + n], stamp |-> 0] >>
    /\ path = [l \in Ledgers |-> IF l = "events" THEN 1 ELSE 2]
    /\ root = 0 /\ parent = 0 /\ now = 0 /\ fresh = EventRows + RawRows + 1
    /\ operation = "none" /\ todo = <<>>
    /\ fd = [s \in Sides |-> [l \in Ledgers |-> 0]]
    /\ base = [s \in Sides |-> [l \in Ledgers |-> Unbound]]
    /\ read = [s \in Sides |-> Nothing] /\ part = [s \in Sides |-> Nothing]
    /\ rootBase = 0 /\ parentBase = 0 /\ mode = "none" /\ refused = "no"
    /\ accepted = {} /\ held = {} /\ edits = 0 /\ besides = 0 /\ operations = 0

-----------------------------------------------------------------------------
(* Operations as sequences of looks.  A look that binds "new" is only          *)
(* remembered; any other must repeat what its side is bound to.                *)

Look(see, s, ls, bind) == [see |-> see, side |-> s, of |-> ls, bind |-> bind]
Stat(see, s, l) == Look(see, s, {l}, "same")

Opening(s, l, bind) == << Look("path", s, {l}, bind), Stat("open", s, l), Stat("fd", s, l) >>
BothStats(s) == << Stat("fd", s, "events"), Stat("fd", s, "raw"),
                   Stat("path", s, "events"), Stat("path", s, "raw") >>

Root(bind) == << Look("root", "reader", {}, bind) >>

(* _snapshot_one                                                               *)
Snapshot(l) ==
    Opening("writer", l, "new") \o << Look("rows", "writer", {l}, "new"),
                                      Stat("fd", "writer", l), Stat("path", "writer", l) >>

(* _scan_journal_pair_descriptors                                              *)
ThreePasses(s, bind) ==
    << Look("rows", s, {"events"}, bind), Look("rows", s, {"raw"}, bind),
       Look("rows", s, Ledgers, "same") >> \o BothStats(s)

(* Variant: every verification compares the whole identity of the directories. *)
ReadPairBetweenRoots ==
    Root("new") \o Opening("reader", "events", "new") \o Opening("reader", "raw", "new")
        \o ThreePasses("reader", "new") \o Root("same")

ReadPair ==
    Opening("reader", "events", "new") \o Opening("reader", "raw", "new")
        \o ThreePasses("reader", "new")

(* _precheck_transaction_pair_size, the two snapshots, the update descriptors  *)
(* bound to them, and each scanned again.                                      *)
OpenTransaction ==
    Opening("writer", "events", "new") \o Opening("writer", "raw", "new")
        \o Snapshot("events") \o Snapshot("raw")
        \o Opening("writer", "events", "same") \o Opening("writer", "raw", "same")
        \o << Look("rows", "writer", {"events"}, "same"),
              Stat("fd", "writer", "events"), Stat("path", "writer", "events"),
              Look("rows", "writer", {"raw"}, "same"),
              Stat("fd", "writer", "raw"), Stat("path", "writer", "raw") >>

ScanRetained ==
    << Stat("fd", "writer", "events"), Stat("fd", "writer", "raw") >>
        \o ThreePasses("writer", "same")

Recheck ==
    << Stat("fd", "writer", "events"), Stat("path", "writer", "events"),
       Stat("fd", "writer", "raw"), Stat("path", "writer", "raw") >>

RehashOne(l) ==
    << Stat("fd", "writer", l), Stat("path", "writer", l), Look("rows", "writer", {l}, "same"),
       Stat("fd", "writer", l), Stat("path", "writer", l) >>
Rehash == RehashOne("events") \o RehashOne("raw") \o Recheck
JointRecheck == Rehash \o Recheck

Agree == << Look("agree", "reader", {}, "same") >>

(* _make_mutator_session_v1, _revalidate_mutator_session_v1, _append_framed    *)
MakeSession ==
    Root("new") \o ReadPair \o Root("same") \o OpenTransaction \o Root("same")
        \o ScanRetained \o Agree \o Root("same")
Revalidate ==
    Root("same") \o ReadPair \o Root("same") \o ScanRetained \o Agree \o Root("same")
        \o JointRecheck
AppendTo(l) == Recheck \o << Stat("write", "writer", l), Stat("grown", "writer", l) >>

Scripts ==
    [ verify |-> ReadPair, session |-> MakeSession, scan |-> ScanRetained,
      revalidate |-> Revalidate,
      append_event |-> AppendTo("events"), append_raw |-> AppendTo("raw") ]

Begin(name) ==
    /\ todo = <<>> /\ operations < MaxOperations
    /\ IF name \in {"verify", "session"} THEN mode = "none" ELSE mode = "open"
    /\ operation' = name /\ todo' = Scripts[name]
    /\ held' = {Pair(inodes, path)} /\ accepted' = {}
    /\ operations' = operations + 1
    /\ refused' = "no" /\ part' = [s \in Sides |-> Nothing]
    /\ UNCHANGED <<world, fd, base, read, rootBase, parentBase, mode, edits, besides>>

-----------------------------------------------------------------------------
(* What the last look leaves behind, and what a contradicted one does: a       *)
(* failure on the writer's side poisons a transaction that exists.             *)
Reading == {"verify", "session", "scan", "revalidate"}
Result(rows) == IF operation \in Reading THEN {rows} ELSE {}

Advance(rows) ==
    /\ todo' = Tail(todo)
    /\ IF Tail(todo) = <<>>
          THEN /\ mode' = IF operation = "session" THEN "open" ELSE mode
               /\ accepted' = Result(rows)
          ELSE UNCHANGED <<mode, accepted>>
    /\ UNCHANGED refused

Refuse(s, why) ==
    /\ todo' = <<>> /\ refused' = why
    /\ mode' = IF s = "writer" /\ mode = "open" THEN "poisoned" ELSE mode
    /\ UNCHANGED <<accepted, binding>>

Same == UNCHANGED <<world, operation, held, edits, besides, operations>>

SeeIdentity(look) ==
    /\ look.see \in {"path", "fd"}
    /\ LET s == look.side
           l == CHOOSE one \in look.of : TRUE
           id == Identity(IF look.see = "path" THEN path[l] ELSE fd[s][l])
       IN  IF look.bind = "new" \/ id = base[s][l]
              THEN /\ base' = [base EXCEPT ![s][l] = id]
                   /\ Advance(read[s])
                   /\ UNCHANGED <<fd, read, part, rootBase, parentBase>>
              ELSE Refuse(s, "unstable")
    /\ Same

OpenFile(look) ==
    /\ look.see = "open"
    /\ \E l \in look.of : fd' = [fd EXCEPT ![look.side][l] = path[l]]
    /\ Advance(read[look.side])
    /\ UNCHANGED <<base, read, part, rootBase, parentBase>>
    /\ Same

(* _rows reads as many bytes as the file had, in whatever order the history    *)
(* asks the two ledgers for rows.                                              *)
ReadRow(look) ==
    /\ look.see = "rows"
    /\ LET s == look.side
       IN  \E l \in look.of :
             LET n == Len(part[s][l]) + 1
             IN  /\ n <= base[s][l].size
                 /\ IF n > Len(inodes[fd[s][l]].rows)
                       THEN Refuse(s, "unstable")
                       ELSE /\ part' = [part EXCEPT ![s][l] = Append(@, inodes[fd[s][l]].rows[n])]
                            /\ UNCHANGED <<todo, fd, base, read, rootBase, parentBase, outcome>>
    /\ Same

(* Variant: the passes are not compared, only their sizes and stamps.          *)
FinishPassUncompared(look) ==
    /\ look.see = "rows"
    /\ LET s == look.side
       IN  /\ \A l \in look.of : Len(part[s][l]) = base[s][l].size
           /\ read' = [read EXCEPT ![s] = [l \in Ledgers |->
                           IF l \in look.of THEN part[s][l] ELSE @[l]]]
           /\ part' = [part EXCEPT ![s] = Nothing]
           /\ Advance(read'[s])
    /\ UNCHANGED <<fd, base, rootBase, parentBase>> /\ Same

FinishPass(look) ==
    /\ look.see = "rows"
    /\ LET s == look.side
       IN  /\ \A l \in look.of : Len(part[s][l]) = base[s][l].size
           /\ IF look.bind = "new" \/ \A l \in look.of : part[s][l] = read[s][l]
                 THEN /\ read' = [read EXCEPT ![s] = [l \in Ledgers |->
                                     IF l \in look.of THEN part[s][l] ELSE @[l]]]
                      /\ part' = [part EXCEPT ![s] = Nothing]
                      /\ Advance(read'[s])
                      /\ UNCHANGED <<fd, base, rootBase, parentBase>>
                 ELSE Refuse(s, "unstable")
    /\ Same

(* The capsule's directory and the results root must be as they were bound.    *)
(* Either change is reported as an unstable snapshot; here the second, which   *)
(* is nobody's touching the capsule, has a name of its own.                    *)
SeeRoot(look) ==
    /\ look.see = "root"
    /\ IF look.bind = "new" \/ (root = rootBase /\ parent = parentBase)
          THEN /\ rootBase' = root /\ parentBase' = parent /\ Advance(read["writer"])
               /\ UNCHANGED <<fd, base, read, part>>
          ELSE Refuse("reader", IF root # rootBase THEN "unstable" ELSE "neighbour")
    /\ Same

(* The pair the verifier read must be the pair the transaction holds.          *)
SeeAgreement(look) ==
    /\ look.see = "agree"
    /\ IF base["reader"] = base["writer"] /\ read["reader"] = read["writer"]
          THEN Advance(read["writer"]) /\ UNCHANGED binding
          ELSE Refuse("reader", "unstable")
    /\ Same

(* _full_write on an appending descriptor, and fsync; either may fail after    *)
(* the row is in the file, or before.                                          *)
WriteRow(look, lands, succeeds) ==
    /\ look.see = "write"
    /\ lands \/ ~succeeds
    /\ \E l \in look.of :
         /\ IF lands
               THEN /\ inodes' = [inodes EXCEPT ![fd["writer"][l]] =
                                    [rows |-> Append(@.rows, fresh), stamp |-> now]]
                    /\ fresh' = fresh + 1
               ELSE UNCHANGED <<inodes, fresh>>
         /\ IF succeeds
               THEN /\ part' = [part EXCEPT !["writer"][l] = <<fresh>>]
                    /\ Advance(read["writer"])
                    /\ UNCHANGED <<fd, base, read, rootBase, parentBase>>
               ELSE Refuse("writer", "io_error")
    /\ held' = held \cup {Pair(inodes', path)}
    /\ UNCHANGED <<path, root, parent, now, operation, edits, besides, operations>>

(* The new cursor: the same inode, larger by the row; its stamp is taken over. *)
SeeGrown(look) ==
    /\ look.see = "grown"
    /\ \E l \in look.of :
         LET id == Identity(fd["writer"][l])
             old == base["writer"][l]
         IN  IF id.inode = old.inode /\ id.size = old.size + 1
                THEN /\ base' = [base EXCEPT !["writer"][l] = id]
                     /\ read' = [read EXCEPT !["writer"][l] = @ \o part["writer"][l]]
                     /\ part' = [part EXCEPT !["writer"] = Nothing]
                     /\ Advance(read["writer"])
                     /\ UNCHANGED <<fd, rootBase, parentBase>>
                ELSE Refuse("writer", "unstable")
    /\ Same

Step ==
    /\ todo # <<>>
    /\ LET look == Head(todo)
       IN  \/ SeeIdentity(look) \/ OpenFile(look) \/ ReadRow(look) \/ FinishPass(look)
           \/ SeeRoot(look) \/ SeeAgreement(look) \/ SeeGrown(look)
           \/ \E lands, succeeds \in BOOLEAN : WriteRow(look, lands, succeeds)

-----------------------------------------------------------------------------
(* The world outside: a program that rewrites a row in place, extends,         *)
(* shortens, or saves a new file under the name; and the clock.                *)
Changed(rows) ==
    { [rows EXCEPT ![n] = fresh] : n \in DOMAIN rows }
        \cup {Append(rows, fresh), SubSeq(rows, 1, Len(rows) - 1)}

Edit(l) ==
    /\ edits + besides < MaxEdits /\ edits' = edits + 1
    /\ fresh' = fresh + 1
    /\ \E rows \in Changed(inodes[path[l]].rows) :
         \/ /\ inodes' = [inodes EXCEPT ![path[l]] = [rows |-> rows, stamp |-> now]]
            /\ UNCHANGED <<path, root>>
         \/ /\ inodes' = Append(inodes, [rows |-> rows, stamp |-> now])
            /\ path' = [path EXCEPT ![l] = Len(inodes')]
            /\ root' = now
    /\ held' = held \cup {Pair(inodes', path')}
    /\ UNCHANGED <<parent, now, operation, todo, binding, outcome, besides, operations>>

(* A preparation, or the probe of another capsule's resume, makes or removes   *)
(* an entry of the results root; within a tick of the last it leaves no trace. *)
Beside ==
    /\ edits + besides < MaxEdits /\ besides' = besides + 1
    /\ parent # now /\ parent' = now
    /\ UNCHANGED <<inodes, path, root, now, fresh, operation, todo, binding, outcome, held,
                   edits, operations>>

Tick ==
    /\ now < MaxTime /\ now' = now + 1
    /\ UNCHANGED <<inodes, path, root, parent, fresh, operation, todo, binding, outcome, held, edits, besides, operations>>

Next ==
    \/ \E name \in DOMAIN Scripts : Begin(name)
    \/ Step
    \/ \E l \in Ledgers : Edit(l)
    \/ Beside \/ Tick

Spec == Init /\ [][Next]_vars

-----------------------------------------------------------------------------
(* Whatever an operation of the journal accepts was, at one moment since the   *)
(* operation began, what both files began with under their names: no reader    *)
(* and no session ever works on rows of the two ledgers that never stood there *)
(* together, even when edits hide in the tick of the clock they were made in.  *)
(* (They may hide that one file was longer at that moment.)                    *)
AcceptedPairExisted ==
    \A pair \in accepted : \E whole \in held : \A l \in Ledgers : IsPrefix(pair[l], whole[l])

(* As long as nobody else touches the files and no write fails, nothing is     *)
(* refused for them: a session is never lost to its own appends.  What happens *)
(* beside the capsule in the results root stops only a session or its          *)
(* revalidation, only where it left its stamp since the session was bound, and *)
(* never a verification, a scan or an append.                                  *)
QuietFilesAreAccepted ==
    /\ edits = 0 => refused # "unstable"
    /\ refused = "neighbour" => operation \in {"session", "revalidate"} /\ parentBase < parent
=============================================================================
