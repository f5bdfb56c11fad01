------------------------------ MODULE FileOps ------------------------------
(***************************************************************************)
(* The operations of a change set, as functions of the disk.               *)
(* companion/internal/txn: what planning an operation decides, what it     *)
(* copies, what it checks again, what it does to the disk and how that is  *)
(* taken back.  A disk maps each path to what is there: nothing, a regular *)
(* file (named by its content, so that a SHA-256 is the content itself) or *)
(* a non-empty directory (named by the tree it holds).                     *)
(***************************************************************************)
EXTENDS Naturals, Sequences, FiniteSetsExt

CONSTANTS
  Paths,      \* workspace-relative paths
  Files,      \* contents of regular files
  Trees,      \* contents of non-empty directories
  Absent      \* nothing at the path

Values == Files \cup Trees \cup {Absent}
Disks == [Paths -> Values]

ASSUME FileOpsAssumption ==
  /\ Files \cap Trees = {}
  /\ Absent \notin Files \cup Trees

\* An Operation; a move's From is its path.  base is expected_sha256, Absent
\* when the caller left it out.
Operations ==
  [type : {"create", "update", "move", "delete"}, path : Paths, to : Paths,
   content : Files, base : Files \cup {Absent}, recursive : BOOLEAN]

\* hashFile: the empty string, here Absent, for what cannot be read as a file.
Hash(v) == IF v \in Files THEN v ELSE Absent

PathsOf(op) == IF op.type = "move" THEN {op.path, op.to} ELSE {op.path}
AllPathsOf(ops) == UNION {PathsOf(ops[i]) : i \in DOMAIN ops}

\* What loadBase says of the file an operation starts from.
LoadBase(op, v) ==
  IF v \in Trees THEN "error" ELSE IF v = Absent \/ v # op.base THEN "conflict" ELSE "ok"

PlanCreate(op, disk) == IF disk[op.path] = Absent THEN "ok" ELSE "conflict"

PlanUpdate(op, disk) == LoadBase(op, disk[op.path])

PlanMove(op, disk) ==
  LET base == LoadBase(op, disk[op.path])
  IN IF base = "ok" /\ disk[op.to] # Absent THEN "conflict" ELSE base

PlanDelete(op, disk) ==
  IF disk[op.path] \in Trees
  THEN IF op.recursive THEN "ok" ELSE "error"
  ELSE LoadBase(op, disk[op.path])

PlanOp(op, disk) ==
  CASE op.type = "create" -> PlanCreate(op, disk)
    [] op.type = "update" -> PlanUpdate(op, disk)
    [] op.type = "move"   -> PlanMove(op, disk)
    [] op.type = "delete" -> PlanDelete(op, disk)

\* One change set may touch each path once.
TouchedTwice(ops, i) ==
  \/ ops[i].type = "move" /\ ops[i].path = ops[i].to
  \/ \E j \in 1 .. i - 1 : PathsOf(ops[j]) \cap PathsOf(ops[i]) # {}

\* The first operation that is not fine decides for the whole set.
Plan(ops, disk) ==
  LET verdict(i) == IF PlanOp(ops[i], disk) # "ok" THEN PlanOp(ops[i], disk)
                    ELSE IF TouchedTwice(ops, i) THEN "error" ELSE "ok"
      bad == {i \in DOMAIN ops : verdict(i) # "ok"}
  IN IF bad = {} THEN "ok" ELSE verdict(Min(bad))

\* What planning remembers of the disk: oldData, beforeSHA and isDir.
Remembered(ops, disk) ==
  [p \in Paths |-> IF p \in AllPathsOf(ops) THEN disk[p] ELSE Absent]

\* backup: the pre-image of everything but a create, read from the disk.
Copied(ops, disk) ==
  [p \in Paths |-> IF \E i \in DOMAIN ops : ops[i].type # "create" /\ ops[i].path = p
                   THEN disk[p] ELSE Absent]

CanCopy(op, old, disk) ==
  \/ op.type = "create"
  \/ disk[op.path] \in Files
  \/ old[op.path] \in Trees /\ disk[op.path] \in Trees

\* apply's look at the disk just before an operation: Lstat for a create,
\* stillAtBase for a file, nothing for a directory.
StillAtBase(op, old, disk) ==
  \/ op.type = "create" /\ disk[op.path] = Absent
  \/ op.type = "delete" /\ old[op.path] \in Trees
  \/ /\ op.type # "create"
     /\ old[op.path] \in Files
     /\ Hash(disk[op.path]) = old[op.path]

(***************************************************************************)
(* File system calls: the set of disks they may leave, empty on an error.  *)
(***************************************************************************)
AtomicWrite(disk, p, v) ==
  IF disk[p] \in Trees THEN {} ELSE {[disk EXCEPT ![p] = v]}

Remove(disk, p) ==
  IF disk[p] \in Files THEN {[disk EXCEPT ![p] = Absent]} ELSE {}

Rename(disk, from, to) ==
  IF \/ disk[from] = Absent
     \/ disk[from] \in Files /\ disk[to] \in Trees
     \/ disk[from] \in Trees /\ disk[to] # Absent
  THEN {} ELSE {[disk EXCEPT ![to] = disk[from], ![from] = Absent]}

\* copyTreeDurable: over a directory that is there, the two mix.
CopyTree(disk, p, v) ==
  IF v = Absent \/ (v \in Files /\ disk[p] \in Trees) \/ (v \in Trees /\ disk[p] \in Files)
  THEN {}
  ELSE {[disk EXCEPT ![p] = x] : x \in IF disk[p] \in Trees THEN Trees ELSE {v}}

\* One operation of apply.
ApplyOp(op, old, disk) ==
  CASE op.type \in {"create", "update"} -> AtomicWrite(disk, op.path, op.content)
    [] op.type = "move" -> Rename(disk, op.path, op.to)
    [] op.type = "delete" -> IF old[op.path] \in Trees
                             THEN {[disk EXCEPT ![op.path] = Absent]}
                             ELSE Remove(disk, op.path)

\* The same with an undo that has nothing for a deleted file.
ReverseForgetsDeletes(op, old, copy, disk) ==
  CASE op.type = "create" -> Remove(disk, op.path)
    [] op.type = "update" -> AtomicWrite(disk, op.path, old[op.path])
    [] op.type = "move" -> Rename(disk, op.to, op.path)
    [] op.type = "delete" -> {disk}

\* The inverse of one operation, as apply's undo closures and rollback's steps
\* run it.  Files come from what was read into memory, directories from the
\* copy as it is on disk by then.
ReverseOp(op, old, copy, disk) ==
  CASE op.type = "create" -> Remove(disk, op.path)
    [] op.type = "update" -> AtomicWrite(disk, op.path, old[op.path])
    [] op.type = "move" -> Rename(disk, op.to, op.path)
    [] op.type = "delete" -> IF old[op.path] \in Trees
                             THEN CopyTree(disk, op.path, copy[op.path])
                             ELSE AtomicWrite(disk, op.path, old[op.path])

\* Step 12: an operation's result as the new state must show it.
Landed(op, disk) ==
  CASE op.type \in {"create", "update"} -> Hash(disk[op.path]) = op.content
    [] op.type = "move" -> Hash(disk[op.to]) = op.base
    [] op.type = "delete" -> disk[op.path] = Absent

\* effectOf that takes a moved file for untouched as soon as its source is back.
EffectBySource(op, old, disk) ==
  IF disk[op.path] = old[op.path] THEN "not_started" ELSE "state_changed"

\* effectOf, after the undo of a set that failed: what the disk says of one operation.
\* A directory that is there again is not thereby proved complete, and whatever is in
\* neither of the two states is unknown.
EffectOf(op, old, disk) ==
  LET from == disk[op.path]
      to == disk[op.to]
      decide(before, after) ==
        IF before THEN "not_started" ELSE IF after THEN "state_changed" ELSE "outcome_unknown"
  IN CASE op.type = "create" -> decide(from = Absent, from = op.content)
       [] op.type = "update" -> decide(from \in Files /\ from = old[op.path], from = op.content)
       [] op.type = "move"   -> decide(from \in Files /\ from = old[op.path] /\ to = Absent,
                                       from = Absent /\ to \in Files /\ to = old[op.path])
       [] op.type = "delete" -> decide(from \in Files /\ from = old[op.path], from = Absent)

\* planRollback without the comparison with the post-apply hashes.
CanRollBackAnyway(ops, copy, disk) ==
  \A i \in DOMAIN ops :
    ops[i].type \in {"update", "delete"} => copy[ops[i].path] # Absent

\* planRollback: every path is still as the change set left it, and what the
\* inverse needs is in the copy.
CanRollBack(ops, copy, disk) ==
  \A i \in DOMAIN ops :
    /\ Landed(ops[i], disk)
    /\ ops[i].type = "update" => copy[ops[i].path] \in Files
    /\ ops[i].type = "move" => disk[ops[i].path] = Absent
    /\ ops[i].type = "delete" => copy[ops[i].path] # Absent
=============================================================================
