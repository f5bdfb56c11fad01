---------------------------- MODULE TxnDataProofs ----------------------------
(***************************************************************************)
(* What Txn leaves on the disk, proved for every workspace, every list of  *)
(* operations and every interleaving: a failed set took back what it did,  *)
(* what its caller is told is so, and a rollback is the inverse.           *)
(*                                                                         *)
(* The invariant follows each operation of each goroutine: before it, the  *)
(* paths hold the pre-image; after it, the result; taken back, the         *)
(* pre-image again; and the copy holds the pre-image or nothing.  Of paths *)
(* somebody else wrote it says nothing.  Operations of one set touch       *)
(* different paths, which is what lets one be done without disturbing what *)
(* is known of the others.                                                 *)
(***************************************************************************)
EXTENDS TxnProofs, WellFoundedInduction

-----------------------------------------------------------------------------
(* Operations, one by one. *)

\* An operation has not been done, or has been, on a disk d that held b when it was planned.
Before(op, b, d) == \A p \in PathsOf(op) : d[p] = b[p]

\* The operation has been done.
After(op, b, d) ==
  /\ op.type \in {"create", "update"} => d[op.path] = op.content
  /\ op.type = "move" => d[op.to] = b[op.path] /\ d[op.path] = Absent
  /\ op.type = "delete" => d[op.path] = Absent

\* What planning an operation found, and what it made sure of for the whole set.
PlanFits(op, b) ==
  /\ op.type = "create" => b[op.path] = Absent
  /\ op.type = "update" => b[op.path] \in Files
  /\ op.type = "move" => op.path # op.to /\ b[op.path] \in Files /\ b[op.path] = op.base /\ b[op.to] = Absent
  /\ op.type = "delete" => b[op.path] # Absent

\* Each path is touched by one operation of a set (Execute step 7).
Disjoint(ops) == \A i, j \in DOMAIN ops : i # j => PathsOf(ops[i]) \cap PathsOf(ops[j]) = {}

\* A plan that came out fine.
PlanHolds(ops, b) == (\A i \in DOMAIN ops : PlanFits(ops[i], b)) /\ Disjoint(ops)

\* A copy is the pre-image or is gone.
CopyFits(op, b, copy) == op.type \in {"update", "delete"} => copy[op.path] \in {b[op.path], Absent}

\* What a worker takes its operations back to.
Base(k) == IF k.kind = "execute" THEN k.old ELSE k.rec.before

\* How far a worker has come with operation i.
IsDone(k, i) ==
  \/ /\ k.kind = "execute"
     /\ (k.pc \in {"apply", "checked"} /\ i < k.i) \/ k.pc \in {"verify", "journal"} \/ (k.pc = "undo" /\ i <= k.i)
  \/ k.kind = "rollback" /\ (k.pc = "asking" \/ (k.pc = "apply" /\ i <= k.i))

\* Operation i is still to be done, or has been rolled back.
IsOpen(k, i) ==
  \/ k.kind = "execute" /\ (k.pc \in {"asking", "approved"} \/ (k.pc \in {"apply", "checked"} /\ i >= k.i))
  \/ k.kind = "rollback" /\ (k.pc = "journal" \/ (k.pc = "apply" /\ i > k.i))

\* Operation i was never done, was undone, or could not be.
IsUndone(k, i) == k.kind = "execute" /\ (k.pc = "undone" \/ (k.pc = "undo" /\ i > k.i))

\* Where operation i stands, on the disk, in the copies and in what the worker remembers.
OpFits(k, i, op, b) ==
  /\ k.kind = "rollback" /\ op.type \in {"update", "delete"} => k.old[op.path] = b[op.path]
  /\ k.kind = "rollback" \/ k.pc \in Copying => CopyFits(op, b, copies[k.set])
  /\ IsDone(k, i) => After(op, b, disk)
  /\ IsOpen(k, i) => Before(op, b, disk)
  /\ IsUndone(k, i) => Before(op, b, disk) \/ (k.torn /\ After(op, b, disk))

\* The disk and the copies, for the operations of a worker whose paths nobody else wrote.
DiskFits(k) ==
  Planned(k) =>
    /\ PlanHolds(k.rec.ops, Base(k))
    /\ \A i \in DOMAIN k.rec.ops :
         PathsOf(k.rec.ops[i]) \cap k.dirty = {} => OpFits(k, i, k.rec.ops[i], Base(k))

\* The same for a row that can be rolled back.
RowRemembers(x) ==
  row[x].status = "applied" /\ row[x].open =>
    /\ PlanHolds(row[x].ops, row[x].before)
    /\ \A i \in DOMAIN row[x].ops :
         PathsOf(row[x].ops[i]) \cap row[x].taint = {} => CopyFits(row[x].ops[i], row[x].before, copies[x])

\* The inductive invariant of the disk: together with TxnInv, what workers and rows may rely on.
DataInv ==
  /\ \A w \in Workers : DiskFits(work[w])
  /\ \A x \in Sets : RowRemembers(x)

\* A non-empty set of numbers has a least one, which is what Min takes.
LEMMA MinFact ==
  ASSUME NEW S \in SUBSET Nat, S # {}
  PROVE  Min(S) \in S
<1>1. PICK x \in S : \A y \in S : ~(<<y, x>> \in OpToRel(<, Nat))
  BY NatLessThanWellFounded, WFMin
<1>2. ASSUME NEW y \in S PROVE x <= y
  <2> SUFFICES ASSUME y < x PROVE FALSE
    OBVIOUS
  <2>1. <<y, x>> \in Nat \X Nat /\ <<y, x>>[1] < <<y, x>>[2]
    OBVIOUS
  <2>2. <<y, x>> \in OpToRel(<, Nat)
    BY <2>1 DEF OpToRel
  <2> QED
    BY <1>1, <2>2
<1> QED
  BY <1>2 DEF Min

\* A plan that came out fine says of every operation what it has to.
LEMMA PlanFact ==
  ASSUME NEW ops \in OpLists, NEW d \in Disks, Plan(ops, d) = "ok", NEW b, b = Remembered(ops, d)
  PROVE  PlanHolds(ops, b) /\ \A i \in DOMAIN ops : Before(ops[i], b, d)
<1>1. DOMAIN ops \in SUBSET Nat /\ \A i \in DOMAIN ops : ops[i] \in Operations
  BY OpsFact
<1>2. ASSUME NEW i \in DOMAIN ops PROVE PlanOp(ops[i], d) = "ok" /\ ~TouchedTwice(ops, i)
  <2> DEFINE verdict(j) == IF PlanOp(ops[j], d) # "ok" THEN PlanOp(ops[j], d)
                           ELSE IF TouchedTwice(ops, j) THEN "error" ELSE "ok"
             bad == {j \in DOMAIN ops : verdict(j) # "ok"}
  <2>1. (IF bad = {} THEN "ok" ELSE verdict(Min(bad))) = "ok"
    BY DEF Plan
  <2>2. bad \in SUBSET Nat
    BY <1>1
  <2>3. bad = {}
    <3> SUFFICES ASSUME bad # {} PROVE FALSE
      OBVIOUS
    <3>1. Min(bad) \in bad
      <4> HIDE DEF bad
      <4> QED
        BY <2>2, MinFact
    <3>2. verdict(Min(bad)) = "ok"
      BY <2>1
    <3> QED
      BY <3>1, <3>2
  <2>4. verdict(i) = "ok"
    BY <2>3
  <2> QED
    BY <2>4
<1>3. \A i \in DOMAIN ops : PathsOf(ops[i]) \subseteq AllPathsOf(ops) /\ PathsOf(ops[i]) \subseteq Paths
  BY <1>1 DEF AllPathsOf, PathsOf, Operations
<1>4. \A i \in DOMAIN ops : \A p \in PathsOf(ops[i]) : b[p] = d[p]
  BY <1>3 DEF Remembered
<1>5. ASSUME NEW i \in DOMAIN ops PROVE PlanFits(ops[i], b)
  <2>1. PICK op \in Operations : op = ops[i] /\ op.path \in Paths /\ op.to \in Paths
    BY <1>1 DEF Operations
  <2>2. op.path \in PathsOf(op) /\ (op.type = "move" => op.to \in PathsOf(op))
    BY DEF PathsOf
  <2>3. b[op.path] = d[op.path] /\ (op.type = "move" => b[op.to] = d[op.to]) /\ d[op.path] \in Values
    BY <1>4, <2>1, <2>2 DEF Disks
  <2>4. PlanOp(op, d) = "ok" /\ (op.type = "move" => op.path # op.to)
    BY <1>2, <2>1 DEF TouchedTwice
  <2>5. CASE op.type = "create"
    BY <2>1, <2>3, <2>4, <2>5 DEF PlanFits, PlanOp, PlanCreate
  <2>6. CASE op.type = "update"
    BY <2>1, <2>3, <2>4, <2>6 DEF PlanFits, PlanOp, PlanUpdate, LoadBase, Values
  <2>7. CASE op.type = "move"
    BY <2>1, <2>3, <2>4, <2>7 DEF PlanFits, PlanOp, PlanMove, LoadBase, Values
  <2>8. CASE op.type = "delete"
    BY <2>1, <2>3, <2>4, <2>8, FileOpsAssumption DEF PlanFits, PlanOp, PlanDelete, LoadBase, Values
  <2> QED
    BY <2>5, <2>6, <2>7, <2>8 DEF Operations
<1>6. Disjoint(ops)
  <2> SUFFICES ASSUME NEW i \in DOMAIN ops, NEW j \in DOMAIN ops, i # j
               PROVE  PathsOf(ops[i]) \cap PathsOf(ops[j]) = {}
    BY DEF Disjoint
  <2>1. j \in 1..i - 1 \/ i \in 1..j - 1
    BY OpsFact
  <2> QED
    BY <1>2, <2>1 DEF TouchedTwice
<1> QED
  BY <1>4, <1>5, <1>6 DEF PlanHolds, Before

\* Doing an operation, and taking it back.
LEMMA ApplyFact ==
  ASSUME NEW op \in Operations, NEW b \in Disks, NEW d \in Disks, NEW e \in ApplyOp(op, b, d)
  PROVE  /\ \A p \in Paths \ PathsOf(op) : e[p] = d[p]
         /\ PlanFits(op, b) /\ Before(op, b, d) => After(op, b, e)
<1>1. op.path \in Paths /\ op.to \in Paths /\ op.type \in {"create", "update", "move", "delete"} /\ op.path \in PathsOf(op)
  BY DEF Operations, PathsOf
<1>2. CASE op.type \in {"create", "update"}
  BY <1>1, <1>2 DEF ApplyOp, AtomicWrite, Disks, PathsOf, After
<1>3. CASE op.type = "move"
  BY <1>1, <1>3 DEF ApplyOp, Rename, Disks, PathsOf, After, Before, PlanFits
<1>4. CASE op.type = "delete"
  BY <1>1, <1>4 DEF ApplyOp, Remove, Disks, PathsOf, After
<1> QED
  BY <1>1, <1>2, <1>3, <1>4

\* ReverseOp touches the paths of its operation only, and brings back the pre-image of one that was done.
LEMMA ReverseFact ==
  ASSUME NEW op \in Operations, NEW b \in Disks, NEW old \in Disks, NEW copy \in Disks, NEW d \in Disks,
         NEW e \in ReverseOp(op, old, copy, d)
  PROVE  /\ \A p \in Paths \ PathsOf(op) : e[p] = d[p]
         /\ /\ PlanFits(op, b) /\ After(op, b, d) /\ CopyFits(op, b, copy)
            /\ op.type \in {"update", "delete"} => old[op.path] = b[op.path]
            => Before(op, b, e)
<1>1. op.path \in Paths /\ op.to \in Paths /\ op.type \in {"create", "update", "move", "delete"} /\ op.content \in Files
  BY DEF Operations
<1>2. CASE op.type = "create"
  BY <1>1, <1>2 DEF ReverseOp, Remove, Disks, PathsOf, Before, PlanFits
<1>3. CASE op.type = "update"
  BY <1>1, <1>3 DEF ReverseOp, AtomicWrite, Disks, PathsOf, Before
<1>4. CASE op.type = "move"
  BY <1>1, <1>4 DEF ReverseOp, Rename, Disks, PathsOf, After, Before, PlanFits
<1>5. CASE op.type = "delete" /\ old[op.path] \in Trees
  BY <1>1, <1>5, FileOpsAssumption DEF ReverseOp, CopyTree, Disks, PathsOf, After, Before, CopyFits
<1>6. CASE op.type = "delete" /\ old[op.path] \notin Trees
  BY <1>1, <1>6 DEF ReverseOp, AtomicWrite, Disks, PathsOf, Before
<1> QED
  BY <1>1, <1>2, <1>3, <1>4, <1>5, <1>6

\* Nobody wrote the paths of an operation: it stands as it stood.
LEMMA SamePaths ==
  ASSUME NEW op \in Operations, NEW b, NEW d, NEW e, \A p \in PathsOf(op) : e[p] = d[p]
  PROVE  (Before(op, b, d) => Before(op, b, e)) /\ (After(op, b, d) => After(op, b, e))
BY DEF Before, After, PathsOf

\* What planRollback saw of an operation.
LEMMA LandedFact ==
  ASSUME NEW op \in Operations, NEW b, NEW d \in Disks, PlanFits(op, b), Landed(op, d),
         op.type = "move" => d[op.path] = Absent
  PROVE  After(op, b, d)
<1>1. op.content \in Files /\ op.type \in {"create", "update", "move", "delete"}
  BY DEF Operations
<1>2. CASE op.type \in {"create", "update"}
  BY <1>1, <1>2, FileOpsAssumption DEF After, Landed, Hash
<1>3. CASE op.type = "move"
  BY <1>1, <1>3, FileOpsAssumption DEF After, Landed, Hash, PlanFits
<1>4. CASE op.type = "delete"
  BY <1>1, <1>4 DEF After, Landed
<1> QED
  BY <1>1, <1>2, <1>3, <1>4

\* The operations of a worker that has planned.
LEMMA PlannedOps ==
  ASSUME TxnInv, NEW v \in Workers, NEW k \in Worker, k = work[v], Planned(k)
  PROVE  k.rec.ops \in OpLists /\ AllPathsOf(k.rec.ops) \subseteq Paths
<1>1. WorkerFits(k) /\ k.pc # "idle" /\ k.kind \in {"execute", "rollback"}
  BY DEF TxnInv, Planned, Worker
<1>2. k.kind = "rollback" => k.pc \in {"asking", "apply", "journal"}
  BY <1>1 DEF WorkerFits, Planned
<1>3. k.rec.ops \in OpLists
  BY <1>1, <1>2 DEF WorkerFits
<1> QED
  BY <1>3, OpsFact DEF AllPathsOf, PathsOf, Operations

\* A worker whose own disk writes are none, and whose paths are marked where others wrote.
LEMMA StillFits ==
  ASSUME TxnInv, NEW v \in Workers, NEW k \in Worker, k = work[v], DiskFits(k), NEW l \in Worker, l = work'[v],
         Planned(l) =>
           /\ Planned(k) /\ l.kind = k.kind /\ l.set = k.set /\ l.rec.ops = k.rec.ops /\ l.rec.before = k.rec.before
           /\ l.old = k.old /\ k.dirty \subseteq l.dirty /\ (k.torn => l.torn)
           /\ \A p \in AllPathsOf(k.rec.ops) : disk'[p] # disk[p] => p \in l.dirty
           /\ copies'[k.set] = copies[k.set] \/ copies'[k.set] = Nothing
           /\ l.kind = "execute" /\ l.pc \in Copying => k.pc \in Copying
           /\ \A i \in DOMAIN k.rec.ops :
                /\ IsDone(l, i) => IsDone(k, i)
                /\ IsOpen(l, i) => IsOpen(k, i)
                /\ IsUndone(l, i) => IsUndone(k, i) \/ IsOpen(k, i) \/ (IsDone(k, i) /\ l.torn)
  PROVE  DiskFits(work[v])'
<1> SUFFICES ASSUME Planned(l) PROVE DiskFits(work[v])'
  BY DEF DiskFits
<1>1. PICK ops : ops = k.rec.ops /\ ops = l.rec.ops
  OBVIOUS
<1>2. PICK b : b = Base(k) /\ b = Base(l)
  BY DEF Base
<1>3. PlanHolds(ops, b)
  BY <1>1, <1>2 DEF DiskFits
<1>4. ops \in OpLists
  BY <1>1, PlannedOps
<1>5. ASSUME NEW i \in DOMAIN ops, PathsOf(ops[i]) \cap l.dirty = {}
      PROVE  OpFits(l, i, ops[i], b)'
  <2>1. PICK op \in Operations : op = ops[i]
    BY <1>4, OpsFact
  <2>2. PathsOf(op) \subseteq AllPathsOf(ops) /\ op.path \in Paths
    BY <2>1 DEF AllPathsOf, Operations
  <2>3. PathsOf(op) \cap k.dirty = {} /\ \A p \in PathsOf(op) : disk'[p] = disk[p]
    BY <1>1, <1>5, <2>1, <2>2
  <2>4. OpFits(k, i, op, b)
    BY <1>1, <1>2, <2>1, <2>3 DEF DiskFits
  <2>5. (Before(op, b, disk) => Before(op, b, disk')) /\ (After(op, b, disk) => After(op, b, disk'))
    BY <2>3, SamePaths
  <2>6. CopyFits(op, b, copies[k.set]) => CopyFits(op, b, copies'[k.set])
    BY <2>2 DEF CopyFits, Nothing
  <2>7. /\ IsDone(l, i) => IsDone(k, i)
        /\ IsOpen(l, i) => IsOpen(k, i)
        /\ IsUndone(l, i) => IsUndone(k, i) \/ IsOpen(k, i) \/ (IsDone(k, i) /\ l.torn)
    BY <1>1
  <2>8. l.kind = "rollback" \/ l.pc \in Copying => k.kind = "rollback" \/ k.pc \in Copying
    BY DEF Worker
  <2> QED
    BY <2>1, <2>4, <2>5, <2>6, <2>7, <2>8 DEF OpFits
<1> QED
  BY <1>1, <1>2, <1>3, <1>5 DEF DiskFits

\* A row that can still be rolled back is the row it was.
LEMMA RowStays ==
  ASSUME TxnInv, TxnInv', NEW x \in Sets, RowRemembers(x),
         row'[x].status = "applied" /\ row'[x].open =>
           row'[x] = row[x] /\ (copies'[x] = copies[x] \/ copies'[x] = Nothing)
  PROVE  RowRemembers(x)'
<1> SUFFICES ASSUME row'[x].status = "applied", row'[x].open, row'[x] = row[x],
                    copies'[x] = copies[x] \/ copies'[x] = Nothing
             PROVE  RowRemembers(x)'
  BY DEF RowRemembers
<1>1. row[x].ops \in OpLists
  BY DEF TxnInv, RowFits
<1>2. ASSUME NEW i \in DOMAIN row[x].ops, CopyFits(row[x].ops[i], row[x].before, copies[x])
      PROVE  CopyFits(row[x].ops[i], row[x].before, copies'[x])
  <2>1. row[x].ops[i] \in Operations /\ row[x].ops[i].path \in Paths
    BY <1>1, OpsFact DEF Operations
  <2> QED
    BY <1>2, <2>1 DEF CopyFits, Nothing
<1> QED
  BY <1>2 DEF RowRemembers

\* A step of worker w that writes no file, seen from the others and from the rows.
LEMMA MoverFits ==
  ASSUME TxnInv, TxnInv', DataInv, NEW w \in Workers, NEW r \in Worker, Moves(w, r), UNCHANGED disk,
         DiskFits(work[w])',
         \A v \in Workers \ {w} : Planned(work[v]) =>
            copies'[work[v].set] = copies[work[v].set] \/ copies'[work[v].set] = Nothing,
         \A x \in Sets : \/ RowRemembers(x)'
                         \/ row'[x].status = "applied" /\ row'[x].open =>
                              row'[x] = row[x] /\ (copies'[x] = copies[x] \/ copies'[x] = Nothing)
  PROVE  DataInv'
<1>1. \A v \in Workers \ {w} : work'[v] = work[v] /\ work[v] \in Worker
  BY MoveFact DEF TxnInv, TxnTypeOK
<1>2. ASSUME NEW v \in Workers PROVE DiskFits(work[v])'
  <2>1. CASE v = w
    BY <2>1
  <2>2. CASE v # w
    <3>1. PICK k \in Worker : k = work[v] /\ k = work'[v] /\ DiskFits(k)
      BY <1>1, <2>2 DEF DataInv
    <3> QED
      BY <2>2, <3>1, StillFits
  <2> QED
    BY <2>1, <2>2
<1>3. ASSUME NEW x \in Sets PROVE RowRemembers(x)'
  BY RowStays DEF DataInv
<1> QED
  BY <1>2, <1>3 DEF DataInv

\* A worker marked where somebody else wrote.
LEMMA MarkedFits ==
  ASSUME TxnInv, DataInv, NEW v \in Workers, NEW changed \in SUBSET Paths, work'[v] = Marked(work[v], changed),
         \A p \in Paths : disk'[p] # disk[p] => p \in changed, UNCHANGED copies
  PROVE  DiskFits(work[v])'
<1>1. PICK k \in Worker : k = work[v] /\ DiskFits(k)
  BY DEF DataInv, TxnInv, TxnTypeOK
<1>2. PICK l : l = Marked(k, changed) /\ l = work'[v]
  BY <1>1
<1>3. /\ l \in Worker /\ SameWorker(l, k) /\ l.old = k.old /\ l.torn = k.torn /\ k.dirty \subseteq l.dirty
      /\ Planned(k) => l.dirty = k.dirty \cup (changed \cap AllPathsOf(k.rec.ops))
  BY <1>2, MarkedFact
<1>4. /\ l.pc = k.pc /\ l.kind = k.kind /\ l.set = k.set /\ l.i = k.i /\ l.rec = k.rec
      /\ Planned(l) <=> Planned(k)
  BY <1>3 DEF SameWorker, Planned
<1>5. \A i : /\ IsDone(l, i) <=> IsDone(k, i)
             /\ IsOpen(l, i) <=> IsOpen(k, i)
             /\ IsUndone(l, i) <=> IsUndone(k, i)
  BY <1>4 DEF IsDone, IsOpen, IsUndone
<1>6. Planned(k) => \A p \in AllPathsOf(k.rec.ops) : disk'[p] # disk[p] => p \in l.dirty
  BY <1>1, <1>3, PlannedOps
<1> QED
  BY <1>1, <1>2, <1>3, <1>4, <1>5, <1>6, StillFits

\* A step of worker w that leaves disk d behind.
LEMMA WriterFits ==
  ASSUME TxnInv, TxnInv', DataInv, NEW w \in Workers, NEW d \in Disks, NEW r \in Worker, Writes(w, d, r),
         UNCHANGED <<row, copies>>, DiskFits(work[w])'
  PROVE  DataInv'
<1>1. Differ(d) \in SUBSET Paths /\ \A p \in Paths : disk'[p] # disk[p] => p \in Differ(d)
  BY DEF Differ, Writes
<1>2. ASSUME NEW v \in Workers PROVE DiskFits(work[v])'
  <2>1. CASE v = w
    BY <2>1
  <2>2. CASE v # w
    <3>1. work'[v] = Marked(work[v], Differ(d))
      BY <2>2 DEF Writes
    <3> QED
      BY <1>1, <3>1, MarkedFits
  <2> QED
    BY <2>1, <2>2
<1>3. ASSUME NEW x \in Sets PROVE RowRemembers(x)'
  BY RowStays DEF DataInv
<1> QED
  BY <1>2, <1>3 DEF DataInv

\* A worker that ends.
LEMMA ReleaseFits ==
  ASSUME TxnInv, TxnInv', DataInv, NEW w \in Workers, NEW x \in Sets, x = work[w].set, NEW r \in Row,
         Release(w), UNCHANGED disk, Update(x, r) \/ UNCHANGED row, r.status # "applied" \/ RowRemembers(x)',
         copies' = copies \/ copies' = [copies EXCEPT ![x] = Nothing]
  PROVE  DataInv'
<1>1. Moves(w, Idle) /\ Idle \in Worker /\ Idle.pc = "idle"
  BY RestTypes DEF Release
<1>2. work'[w] = Idle /\ TxnTypeOK
  BY <1>1, MoveFact DEF TxnInv
<1>3. DiskFits(work[w])'
  BY <1>1, <1>2 DEF DiskFits, Planned
<1>4. \A y \in Sets : copies'[y] = copies[y] \/ copies'[y] = Nothing
  BY <1>2 DEF TxnTypeOK
<1>5. \A v \in Workers : work[v].set \in Sets
  BY <1>2 DEF TxnTypeOK, Worker
<1>6. \A y \in Sets : \/ RowRemembers(y)'
                      \/ row'[y].status = "applied" /\ row'[y].open => row'[y] = row[y]
  <2> SUFFICES ASSUME NEW y \in Sets
               PROVE  RowRemembers(y)' \/ (row'[y].status = "applied" /\ row'[y].open => row'[y] = row[y])
    OBVIOUS
  <2>1. CASE UNCHANGED row
    BY <2>1
  <2>2. CASE Update(x, r)
    BY <1>2, <2>2 DEF Update, TxnTypeOK
  <2> QED
    BY <2>1, <2>2
<1> QED
  BY <1>1, <1>3, <1>4, <1>5, <1>6, MoverFits

\* A worker that goes on without writing.
LEMMA GoesOnFits ==
  ASSUME TxnInv, TxnInv', DataInv, NEW w \in Workers, NEW k \in Worker, k = work[w], NEW l \in Worker, Moves(w, l),
         Planned(k), UNCHANGED <<disk, copies>>,
         \A x \in Sets : row'[x] = row[x] \/ row'[x].status # "applied",
         l.kind = k.kind, l.set = k.set, l.rec.ops = k.rec.ops, l.rec.before = k.rec.before, l.old = k.old, l.dirty = k.dirty,
         k.torn => l.torn,
         l.kind = "execute" /\ l.pc \in Copying => k.pc \in Copying,
         \A i \in DOMAIN k.rec.ops :
            /\ IsDone(l, i) => IsDone(k, i)
            /\ IsOpen(l, i) => IsOpen(k, i)
            /\ IsUndone(l, i) => IsUndone(k, i) \/ IsOpen(k, i) \/ (IsDone(k, i) /\ l.torn)
  PROVE  DataInv'
<1>1. l = work'[w]
  BY MoveFact DEF TxnInv
<1>2. DiskFits(k)
  BY DEF DataInv
<1>3. DiskFits(work[w])'
  BY <1>1, <1>2, StillFits
<1> QED
  BY <1>3, MoverFits

\* Execute remembers what it read when it planned.
LEMMA PlanExecuteFits ==
  ASSUME TxnInv, TxnInv', DataInv, NEW w \in Workers, PlanExecute(w)
  PROVE  DataInv'
<1>1. PICK x \in Sets : x = work[w].set
  BY DEF TxnInv, TxnTypeOK, Worker
<1>2. TxnTypeOK /\ work[w] \in Worker /\ row[x] \in Row /\ disk \in Disks
  BY DEF TxnInv, TxnTypeOK
<1>3. work[w].kind = "execute" /\ work[w].pc = "claimed" /\ UNCHANGED <<disk, copies>>
  BY DEF PlanExecute, At
<1>4. CASE Release(w) /\ UNCHANGED row
  BY <1>1, <1>3, <1>4, RestTypes, ReleaseFits
<1>5. CASE Finish(w, Ended(row[x], "failed"))
  <2>1. PICK r : r = Ended(row[x], "failed")
    OBVIOUS
  <2>2. "failed" \in Statuses
    BY DEF Statuses, Terminal
  <2>3. r \in Row /\ r.status = "failed"
    BY <1>2, <2>1, <2>2, EndedFact
  <2>4. Release(w) /\ (Update(x, r) \/ UNCHANGED row)
    BY <1>1, <1>5, <2>1 DEF Finish, UpdateFails
  <2> QED
    BY <1>1, <1>3, <2>3, <2>4, ReleaseFits
<1>6. ASSUME Plan(Ops(w), disk) = "ok", row[x].status = "pending" => row[x].ops = Ops(w),
             NEW rec, rec = (IF row[x].status = "pending" THEN row[x] ELSE Created(Ops(w))),
             row' = [row EXCEPT ![x] = rec],
             Moves(w, [work[w] EXCEPT !.pc = "asking", !.rec = rec, !.old = Remembered(Ops(w), disk)])
      PROVE  DataInv'
  <2>1. PICK ops \in OpLists : ops = Ops(w)
    BY <1>2, <1>3 DEF TxnInv, WorkerFits, Ops
  <2>2. rec \in Row /\ rec.ops = ops /\ rec.status = "pending"
    BY <1>2, <1>6, <2>1, CreatedFact
  <2>3. PICK b \in Disks : b = Remembered(ops, disk)
    BY <1>2, CopyTypes
  <2>4. PICK l : l = [work[w] EXCEPT !.pc = "asking", !.rec = rec, !.old = b]
    OBVIOUS
  <2>5. l \in Worker /\ l.pc = "asking" /\ l.kind = "execute" /\ l.rec = rec /\ l.old = b
    BY <1>2, <1>3, <2>2, <2>4 DEF Worker
  <2>6. Moves(w, l)
    BY <1>6, <2>1, <2>3, <2>4
  <2>7. l = work'[w]
    BY <1>2, <2>5, <2>6, MoveFact
  <2>8. PlanHolds(ops, b) /\ \A i \in DOMAIN ops : Before(ops[i], b, disk)
    BY <1>2, <1>6, <2>1, <2>3, PlanFact
  <2>9. \A i \in DOMAIN ops : OpFits(l, i, ops[i], b)'
    BY <1>3, <2>5, <2>8 DEF OpFits, IsDone, IsOpen, IsUndone, Copying, Carrying
  <2>10. DiskFits(work[w])'
    BY <2>2, <2>5, <2>7, <2>8, <2>9 DEF DiskFits, Base
  <2>11. \A y \in Sets : row'[y].status = "applied" => row'[y] = row[y]
    BY <1>2, <1>6, <2>2 DEF TxnTypeOK
  <2> QED
    BY <1>3, <2>5, <2>6, <2>10, <2>11, MoverFits
<1> QED
  BY <1>1, <1>4, <1>5, <1>6 DEF PlanExecute

\* An answer changes no file.
LEMMA AnsweredFits ==
  ASSUME TxnInv, TxnInv', DataInv, NEW w \in Workers, NEW a, Answered(w, a)
  PROVE  DataInv'
<1>1. PICK x \in Sets : x = work[w].set
  BY DEF TxnInv, TxnTypeOK, Worker
<1>2. TxnTypeOK /\ work[w] \in Worker
  BY DEF TxnInv, TxnTypeOK
<1>3. work[w].kind = "execute" /\ work[w].pc = "asking" /\ UNCHANGED <<disk, copies>>
  BY DEF Answered, At
<1>4. PICK rec \in Row : rec = work[w].rec
  BY <1>2 DEF Worker
<1>5. CASE Release(w) /\ UNCHANGED row
  BY <1>1, <1>3, <1>5, RestTypes, ReleaseFits
<1>6. ASSUME NEW s \in {"denied", "failed"}, Finish(w, Ended(rec, s)) PROVE DataInv'
  <2>1. PICK r : r = Ended(rec, s)
    OBVIOUS
  <2>2. s \in Statuses
    BY DEF Statuses, Terminal
  <2>3. r \in Row /\ r.status = s
    BY <2>1, <2>2, EndedFact
  <2>4. Release(w) /\ (Update(x, r) \/ UNCHANGED row)
    BY <1>1, <1>6, <2>1 DEF Finish, UpdateFails
  <2> QED
    BY <1>1, <1>3, <2>3, <2>4, ReleaseFits
<1>7. ASSUME Update(x, [rec EXCEPT !.status = "approved"]),
             Moves(w, [work[w] EXCEPT !.pc = "approved", !.rec.status = "approved"])
      PROVE  DataInv'
  <2>1. PICK r : r = [rec EXCEPT !.status = "approved"]
    OBVIOUS
  <2>2. "approved" \in Statuses
    BY DEF Statuses
  <2>3. r \in Row /\ r.status = "approved" /\ r.ops = rec.ops /\ r.before = rec.before
    BY <2>1, <2>2 DEF Row
  <2>4. PICK k \in Worker : k = work[w]
    BY <1>2
  <2>5. PICK l : l = [k EXCEPT !.pc = "approved", !.rec = r]
    OBVIOUS
  <2>6. Moves(w, l)
    BY <1>4, <1>7, <2>1, <2>4, <2>5 DEF Worker
  <2>7. /\ l \in Worker /\ l.pc = "approved" /\ l.kind = k.kind /\ l.set = k.set /\ l.rec = r /\ l.old = k.old
        /\ l.dirty = k.dirty /\ l.torn = k.torn
    BY <2>3, <2>4, <2>5 DEF Worker
  <2>8. \A i : /\ ~IsDone(l, i) /\ ~IsUndone(l, i)
               /\ IsOpen(k, i)
    BY <1>3, <2>4, <2>7 DEF IsDone, IsOpen, IsUndone
  <2>9. \A y \in Sets : row'[y] = row[y] \/ row'[y].status # "applied"
    BY <1>2, <1>7, <2>1, <2>3 DEF Update, TxnTypeOK
  <2>10. Planned(k) /\ l.pc \notin Copying
    BY <1>3, <2>4, <2>7 DEF Planned, Copying, Carrying
  <2> QED
    BY <1>3, <1>4, <2>3, <2>4, <2>6, <2>7, <2>8, <2>9, <2>10, GoesOnFits
<1> QED
  BY <1>1, <1>4, <1>5, <1>6, <1>7 DEF Answered, UpdateFails

\* The copies are of what the plan saw, on the paths nobody wrote since.
LEMMA BackupFits ==
  ASSUME TxnInv, TxnInv', DataInv, NEW w \in Workers, Backup(w)
  PROVE  DataInv'
<1>1. PICK x \in Sets : x = work[w].set
  BY DEF TxnInv, TxnTypeOK, Worker
<1>2. TxnTypeOK /\ work[w] \in Worker /\ disk \in Disks
  BY DEF TxnInv, TxnTypeOK
<1>3. work[w].kind = "execute" /\ work[w].pc = "approved" /\ UNCHANGED disk /\ Planned(work[w])
  BY DEF Backup, At, Planned
<1>4. PICK rec \in Row : rec = work[w].rec
  BY <1>2 DEF Worker
<1>5. CASE copies' = [copies EXCEPT ![x] = Nothing] /\ Finish(w, Ended(rec, "failed"))
  <2>1. PICK r : r = Ended(rec, "failed")
    OBVIOUS
  <2>2. "failed" \in Statuses
    BY DEF Statuses, Terminal
  <2>3. r \in Row /\ r.status = "failed"
    BY <2>1, <2>2, EndedFact
  <2>4. Release(w) /\ (Update(x, r) \/ UNCHANGED row)
    BY <1>1, <1>5, <2>1 DEF Finish, UpdateFails
  <2> QED
    BY <1>1, <1>3, <1>5, <2>3, <2>4, ReleaseFits
<1>6. ASSUME copies' = [copies EXCEPT ![x] = Copied(Ops(w), disk)], UNCHANGED row,
             Moves(w, [work[w] EXCEPT !.pc = "apply", !.i = 1, !.rec.loc = TRUE])
      PROVE  DataInv'
  <2>1. PICK r : r = [rec EXCEPT !.loc = TRUE]
    OBVIOUS
  <2>2. r \in Row /\ r.ops = rec.ops
    BY <2>1 DEF Row
  <2>3. PICK k \in Worker : k = work[w] /\ DiskFits(k) /\ k.rec = rec /\ k.pc = "approved" /\ k.kind = "execute"
    BY <1>2, <1>3, <1>4 DEF DataInv
  <2>4. PICK l : l = [k EXCEPT !.pc = "apply", !.i = 1, !.rec = r]
    OBVIOUS
  <2>5. Moves(w, l)
    BY <1>6, <2>1, <2>3, <2>4 DEF Worker
  <2>6. /\ l \in Worker /\ l.pc = "apply" /\ l.i = 1 /\ l.kind = "execute" /\ l.set = x /\ l.rec = r /\ l.old = k.old
        /\ l.dirty = k.dirty
    BY <1>1, <2>2, <2>3, <2>4 DEF Worker
  <2>7. l = work'[w]
    BY <1>2, <2>5, <2>6, MoveFact
  <2>8. PICK ops \in OpLists : ops = rec.ops /\ ops = Ops(w)
    BY <1>2, <1>3, <1>4 DEF TxnInv, WorkerFits, Ops
  <2>9. PICK b : b = Base(k) /\ b = Base(l)
    BY <2>3, <2>6 DEF Base
  <2>10. PlanHolds(ops, b)
    BY <1>3, <2>3, <2>8, <2>9 DEF DiskFits
  <2>11. copies'[x] = Copied(ops, disk) /\ \A y \in Sets \ {x} : copies'[y] = copies[y]
    BY <1>2, <1>6, <2>8 DEF TxnTypeOK
  <2>12. ASSUME NEW i \in DOMAIN ops, PathsOf(ops[i]) \cap l.dirty = {}
         PROVE  OpFits(l, i, ops[i], b)'
    <3>1. PICK op \in Operations : op = ops[i] /\ i \in 1..Len(ops)
      BY <2>8, OpsFact
    <3>2. OpFits(k, i, op, b)
      BY <1>3, <2>3, <2>6, <2>8, <2>9, <2>12, <3>1 DEF DiskFits
    <3>3. Before(op, b, disk)
      BY <2>3, <3>2 DEF OpFits, IsOpen
    <3>4. op.path \in Paths /\ op.path \in PathsOf(op)
      BY DEF Operations, PathsOf
    <3>5. op.type \in {"update", "delete"} => copies'[x][op.path] = b[op.path]
      BY <2>11, <3>1, <3>3, <3>4 DEF Copied, Before
    <3>6. ~(i < 1)
      BY <3>1
    <3> QED
      BY <1>3, <2>6, <3>1, <3>3, <3>5, <3>6 DEF OpFits, IsDone, IsUndone, CopyFits
  <2>13. DiskFits(work[w])'
    BY <2>2, <2>7, <2>6, <2>8, <2>9, <2>10, <2>12 DEF DiskFits
  <2>14. \A v \in Workers \ {w} : Planned(work[v]) => copies'[work[v].set] = copies[work[v].set]
    <3>1. \A v \in Workers : work[v].set \in Sets
      BY <1>2 DEF TxnTypeOK, Worker
    <3> QED
      BY <1>1, <1>3, <2>11, <3>1, AloneOnSet
  <2>15. row[x].status = "approved"
    BY <1>1, <1>2, <1>3 DEF TxnInv, WorkerFits, Carrying
  <2> QED
    BY <1>3, <1>6, <2>5, <2>6, <2>11, <2>13, <2>14, <2>15, MoverFits
<1> QED
  BY <1>1, <1>4, <1>5, <1>6 DEF Backup

\* The look before an operation, the verification and the end of the undo.
LEMMA CheckOpFits ==
  ASSUME TxnInv, TxnInv', DataInv, NEW w \in Workers, CheckOp(w)
  PROVE  DataInv'
<1>1. work[w].kind = "execute" /\ work[w].pc = "apply" /\ work[w].pc \in Copying /\ Planned(work[w]) /\ UNCHANGED <<disk, copies, row>>
  BY DEF CheckOp, At, Copying, Carrying, Planned
<1>2. PICK k \in Worker : k = work[w] /\ k.i \in Nat /\ k.i \in 1..Len(Ops(w)) /\ DOMAIN k.rec.ops \subseteq Nat
  <2>1. Ops(w) \in OpLists /\ work[w] \in Worker /\ work[w].i \in Nat /\ work[w].i \in 1..Len(Ops(w))
    BY <1>1, CopyingFact
  <2> QED
    BY <2>1, OpsFact DEF Ops
<1>3. CASE Goes(w, "checked")
  <2>1. PICK l : l = [k EXCEPT !.pc = "checked"]
    OBVIOUS
  <2>2. /\ l \in Worker /\ l.pc = "checked" /\ l.i = k.i /\ l.kind = k.kind /\ l.set = k.set /\ l.rec = k.rec /\ l.old = k.old
        /\ l.dirty = k.dirty /\ l.torn = k.torn
    BY <2>1 DEF Worker
  <2>3. \A i : (IsDone(l, i) <=> IsDone(k, i)) /\ (IsOpen(l, i) <=> IsOpen(k, i)) /\ ~IsUndone(l, i)
    BY <1>1, <1>2, <2>2 DEF IsDone, IsOpen, IsUndone
  <2> QED
    BY <1>1, <1>2, <1>3, <2>1, <2>2, <2>3, GoesOnFits DEF Goes
<1>4. CASE Moves(w, [work[w] EXCEPT !.pc = "undo", !.i = @ - 1])
  <2>1. PICK n \in Nat : n = k.i - 1
    BY <1>2
  <2>2. PICK l : l = [k EXCEPT !.pc = "undo", !.i = n]
    OBVIOUS
  <2>3. /\ l \in Worker /\ l.pc = "undo" /\ l.i = n /\ l.kind = k.kind /\ l.set = k.set /\ l.rec = k.rec /\ l.old = k.old
        /\ l.dirty = k.dirty /\ l.torn = k.torn
    BY <2>2 DEF Worker
  <2>4. Moves(w, l)
    BY <1>2, <1>4, <2>1, <2>2 DEF Worker
  <2>5. \A i \in DOMAIN k.rec.ops : (IsDone(l, i) => IsDone(k, i)) /\ (IsUndone(l, i) => IsOpen(k, i)) /\ ~IsOpen(l, i)
    BY <1>1, <1>2, <2>1, <2>3 DEF IsDone, IsOpen, IsUndone
  <2> QED
    BY <1>1, <1>2, <2>3, <2>4, <2>5, GoesOnFits
<1> QED
  BY <1>3, <1>4 DEF CheckOp

\* Looking at what landed changes nothing; a look that fails turns to the undo with everything done.
LEMMA VerifyOpFits ==
  ASSUME TxnInv, TxnInv', DataInv, NEW w \in Workers, VerifyOp(w)
  PROVE  DataInv'
<1>1. work[w].kind = "execute" /\ work[w].pc = "verify" /\ work[w].pc \in Copying /\ Planned(work[w]) /\ UNCHANGED <<disk, copies, row>>
  BY DEF VerifyOp, At, Copying, Carrying, Planned
<1>2. PICK k \in Worker : k = work[w] /\ k.i \in Nat /\ Len(Ops(w)) \in Nat /\ DOMAIN k.rec.ops = 1..Len(Ops(w))
  <2>1. Ops(w) \in OpLists /\ work[w] \in Worker /\ work[w].i \in Nat /\ Len(Ops(w)) \in Nat
    BY <1>1, CopyingFact
  <2> QED
    BY <2>1, OpsFact DEF Ops
<1>3. ASSUME NEW p \in {"verify", "undo", "journal"}, NEW n \in Nat, p = "undo" => n = Len(Ops(w)),
             NEW l, l = [k EXCEPT !.pc = p, !.i = n], Moves(w, l)
      PROVE  DataInv'
  <2>1. /\ l \in Worker /\ l.pc = p /\ l.i = n /\ l.kind = k.kind /\ l.set = k.set /\ l.rec = k.rec /\ l.old = k.old
        /\ l.dirty = k.dirty /\ l.torn = k.torn
    BY <1>3 DEF Worker
  <2>2. \A i \in DOMAIN k.rec.ops : IsDone(k, i) /\ ~IsUndone(l, i) /\ ~IsOpen(l, i)
    BY <1>1, <1>2, <1>3, <2>1 DEF IsDone, IsOpen, IsUndone
  <2> QED
    BY <1>1, <1>2, <1>3, <2>1, <2>2, GoesOnFits
<1>4. CASE Moves(w, [work[w] EXCEPT !.pc = "undo", !.i = Len(Ops(w))])
  <2>1. PICK n \in Nat : n = Len(Ops(w))
    BY <1>2
  <2> QED
    BY <1>2, <1>3, <1>4, <2>1
<1>5. CASE Goes(w, "journal")
  <2>1. [k EXCEPT !.pc = "journal"] = [k EXCEPT !.pc = "journal", !.i = k.i]
    BY <1>2 DEF Worker
  <2> QED
    BY <1>2, <1>3, <1>5, <2>1 DEF Goes
<1>6. CASE Moves(w, [work[w] EXCEPT !.i = @ + 1])
  <2>1. PICK n \in Nat : n = k.i + 1
    BY <1>2
  <2>2. [k EXCEPT !.i = @ + 1] = [k EXCEPT !.pc = "verify", !.i = n]
    BY <1>1, <1>2, <2>1 DEF Worker
  <2> QED
    BY <1>2, <1>3, <1>6, <2>1, <2>2
<1> QED
  BY <1>4, <1>5, <1>6 DEF VerifyOp

\* After the last undo step every operation is undone, or an undo step failed.
LEMMA UndoEndsFits ==
  ASSUME TxnInv, TxnInv', DataInv, NEW w \in Workers, UndoEnds(w)
  PROVE  DataInv'
<1>1. /\ work[w].kind = "execute" /\ work[w].pc = "undo" /\ work[w].pc \in Copying /\ Planned(work[w]) /\ work[w].i = 0
      /\ UNCHANGED <<disk, copies, row>>
  BY DEF UndoEnds, At, Copying, Carrying, Planned
<1>2. PICK k \in Worker : k = work[w] /\ DOMAIN k.rec.ops = 1..Len(Ops(w)) /\ Len(Ops(w)) \in Nat
  <2>1. Ops(w) \in OpLists /\ work[w] \in Worker
    BY <1>1, CopyingFact
  <2> QED
    BY <2>1, OpsFact DEF Ops
<1>3. PICK l : l = [k EXCEPT !.pc = "undone"]
  OBVIOUS
<1>4. /\ l \in Worker /\ l.pc = "undone" /\ l.kind = k.kind /\ l.set = k.set /\ l.rec = k.rec /\ l.old = k.old
      /\ l.dirty = k.dirty /\ l.torn = k.torn
  BY <1>3 DEF Worker
<1>5. Moves(w, l)
  BY <1>2, <1>3 DEF UndoEnds, Goes
<1>6. \A i \in DOMAIN k.rec.ops : IsUndone(k, i) /\ ~IsDone(l, i) /\ ~IsOpen(l, i)
  BY <1>1, <1>2, <1>4 DEF IsDone, IsOpen, IsUndone
<1> QED
  BY <1>1, <1>2, <1>4, <1>5, <1>6, GoesOnFits

\* What doing operation n, or taking it back, leaves of the operations when it leaves disk d.
Operates(k, l, n, d) ==
  LET op == k.rec.ops[n]
      b == Base(k)
  IN /\ \A p \in Paths \ PathsOf(op) : d[p] = disk[p]
     /\ PlanFits(op, b) /\ OpFits(k, n, op, b) =>
          /\ IsDone(l, n) => After(op, b, d)
          /\ IsOpen(l, n) \/ IsUndone(l, n) => Before(op, b, d)
     /\ \A i \in DOMAIN k.rec.ops \ {n} :
          /\ IsDone(l, i) => IsDone(k, i)
          /\ IsOpen(l, i) => IsOpen(k, i)
          /\ IsUndone(l, i) => IsUndone(k, i)

\* A worker that does an operation, or takes it back.
LEMMA OperatorFits ==
  ASSUME TxnInv, TxnInv', DataInv, NEW w \in Workers, NEW k \in Worker, k = work[w], NEW l \in Worker, NEW d \in Disks,
         Writes(w, d, l), Planned(k), UNCHANGED <<row, copies>>, k.rec.ops \in OpLists,
         l.kind = k.kind, l.set = k.set, l.rec = k.rec, l.old = k.old, l.dirty = k.dirty, l.torn = k.torn,
         l.kind = "execute" /\ l.pc \in Copying => k.pc \in Copying,
         NEW n \in DOMAIN k.rec.ops, Operates(k, l, n, d)
  PROVE  DataInv'
<1>0. PICK op \in Operations, b \in {Base(k)} : op = k.rec.ops[n] /\ b = Base(k)
  BY OpsFact
<1>1. l = work'[w] /\ disk' = d
  BY WritesFact DEF TxnInv, Writes
<1>2. DiskFits(k)
  BY DEF DataInv
<1>3. PlanHolds(k.rec.ops, b) /\ b = Base(l)
  BY <1>0, <1>2 DEF DiskFits, Base
<1>6. l.kind = "rollback" \/ l.pc \in Copying => k.kind = "rollback" \/ k.pc \in Copying
  BY DEF Worker
<1>4. ASSUME NEW i \in DOMAIN k.rec.ops, PathsOf(k.rec.ops[i]) \cap l.dirty = {}
      PROVE  OpFits(l, i, k.rec.ops[i], b)'
  <2>1. OpFits(k, i, k.rec.ops[i], b)
    BY <1>0, <1>2, <1>4 DEF DiskFits
  <2>2. CASE i = n
    <3>1. PlanFits(op, b)
      BY <1>0, <1>3, <2>2 DEF PlanHolds
    <3>2. (IsDone(l, n) => After(op, b, d)) /\ (IsOpen(l, n) \/ IsUndone(l, n) => Before(op, b, d))
      BY <1>0, <2>1, <2>2, <3>1 DEF Operates
    <3>3. /\ k.kind = "rollback" /\ op.type \in {"update", "delete"} => k.old[op.path] = b[op.path]
          /\ k.kind = "rollback" \/ k.pc \in Copying => CopyFits(op, b, copies[k.set])
      BY <1>0, <2>1, <2>2 DEF OpFits
    <3> QED
      BY <1>0, <1>1, <1>6, <2>2, <3>2, <3>3 DEF OpFits
  <2>3. CASE i # n
    <3>1. PICK q \in Operations : q = k.rec.ops[i]
      BY OpsFact
    <3>2. PathsOf(q) \cap PathsOf(op) = {} /\ PathsOf(q) \subseteq Paths
      <4>1. PathsOf(q) \cap PathsOf(op) = {}
        BY <1>0, <1>3, <2>3, <3>1 DEF PlanHolds, Disjoint
      <4>2. PathsOf(q) \subseteq Paths
        BY DEF PathsOf, Operations
      <4> QED
        BY <4>1, <4>2
    <3>3. \A p \in PathsOf(q) : d[p] = disk[p]
      BY <1>0, <3>2 DEF Operates
    <3>4. (Before(q, b, disk) => Before(q, b, d)) /\ (After(q, b, disk) => After(q, b, d))
      BY <3>3, SamePaths
    <3>5. (IsDone(l, i) => IsDone(k, i)) /\ (IsOpen(l, i) => IsOpen(k, i)) /\ (IsUndone(l, i) => IsUndone(k, i))
      BY <2>3 DEF Operates
    <3> QED
      BY <1>1, <1>6, <2>1, <3>1, <3>4, <3>5 DEF OpFits
  <2> QED
    BY <2>2, <2>3
<1>5. DiskFits(work[w])'
  BY <1>1, <1>3, <1>4 DEF DiskFits
<1> QED
  BY <1>5, WriterFits

\* An operation is done, or the undo begins with the one before it.
LEMMA DoOpFits ==
  ASSUME TxnInv, TxnInv', DataInv, NEW w \in Workers, DoOp(w)
  PROVE  DataInv'
<1>1. work[w].kind = "execute" /\ work[w].pc = "checked" /\ work[w].pc \in Copying /\ Planned(work[w]) /\ UNCHANGED <<copies, row>>
  BY DEF DoOp, At, Copying, Carrying, Planned
<1>2. PICK k \in Worker : /\ k = work[w] /\ k.i \in Nat /\ k.i \in 1..Len(Ops(w)) /\ Len(Ops(w)) \in Nat
                          /\ DOMAIN k.rec.ops = 1..Len(Ops(w)) /\ k.rec.ops \in OpLists /\ k.old \in Disks
  <2>1. Ops(w) \in OpLists /\ work[w] \in Worker /\ work[w].i \in Nat /\ work[w].i \in 1..Len(Ops(w)) /\ Len(Ops(w)) \in Nat /\ work[w].old \in Disks
    BY <1>1, CopyingFact
  <2> QED
    BY <2>1, OpsFact DEF Ops
<1>3. PICK op \in Operations : op = k.rec.ops[k.i] /\ op = Op(w) /\ disk \in Disks
  BY <1>1, <1>2, CopyingFact DEF Op, Ops
<1>4. CASE Moves(w, [work[w] EXCEPT !.pc = "undo", !.i = @ - 1]) /\ UNCHANGED disk
  <2>1. PICK n \in Nat : n = k.i - 1
    BY <1>2
  <2>2. PICK l : l = [k EXCEPT !.pc = "undo", !.i = n]
    OBVIOUS
  <2>3. /\ l \in Worker /\ l.pc = "undo" /\ l.i = n /\ l.kind = k.kind /\ l.set = k.set /\ l.rec = k.rec /\ l.old = k.old
        /\ l.dirty = k.dirty /\ l.torn = k.torn
    BY <2>2 DEF Worker
  <2>4. Moves(w, l)
    BY <1>2, <1>4, <2>1, <2>2 DEF Worker
  <2>5. \A i \in DOMAIN k.rec.ops : (IsDone(l, i) => IsDone(k, i)) /\ (IsUndone(l, i) => IsOpen(k, i)) /\ ~IsOpen(l, i)
    BY <1>1, <1>2, <2>1, <2>3 DEF IsDone, IsOpen, IsUndone
  <2> QED
    BY <1>1, <1>2, <1>4, <2>3, <2>4, <2>5, GoesOnFits
<1>5. ASSUME NEW d \in ApplyOp(Op(w), work[w].old, disk), Writes(w, d, NextOp(w)) PROVE DataInv'
  <2>1. PICK b \in Disks : b = Base(k) /\ b = k.old
    BY <1>1, <1>2 DEF Base
  <2>2. /\ d \in Disks /\ \A p \in Paths \ PathsOf(op) : d[p] = disk[p]
        /\ PlanFits(op, b) /\ Before(op, b, disk) => After(op, b, d)
    BY <1>2, <1>3, <1>5, <2>1, ApplyTypes, ApplyFact
  <2>3. OpFits(k, k.i, op, b) => Before(op, b, disk)
    BY <1>1, <1>2 DEF OpFits, IsOpen
  <2>4. ASSUME NEW p \in {"verify", "apply"}, NEW n \in Nat, p = "apply" => n = k.i + 1, p = "verify" => k.i = Len(Ops(w)),
               NEW l, l = [k EXCEPT !.pc = p, !.i = n], Writes(w, d, l)
        PROVE  DataInv'
    <3>1. /\ l \in Worker /\ l.pc = p /\ l.i = n /\ l.kind = k.kind /\ l.set = k.set /\ l.rec = k.rec /\ l.old = k.old
          /\ l.dirty = k.dirty /\ l.torn = k.torn
      BY <2>4 DEF Worker
    <3>2. ~IsOpen(l, k.i) /\ ~IsUndone(l, k.i)
      BY <1>1, <1>2, <2>4, <3>1 DEF IsOpen, IsUndone
    <3>3. \A i \in DOMAIN k.rec.ops \ {k.i} : /\ IsDone(l, i) => IsDone(k, i)
                                              /\ IsOpen(l, i) => IsOpen(k, i)
                                              /\ ~IsUndone(l, i)
      BY <1>1, <1>2, <2>4, <3>1 DEF IsDone, IsOpen, IsUndone
    <3>4. PICK m \in DOMAIN k.rec.ops : m = k.i
      BY <1>2
    <3>5. PlanFits(op, b) /\ OpFits(k, m, op, b) =>
            /\ IsDone(l, m) => After(op, b, d)
            /\ IsOpen(l, m) \/ IsUndone(l, m) => Before(op, b, d)
      BY <2>2, <2>3, <3>2, <3>4
    <3>6. Writes(w, d, l) /\ (l.pc \in Copying => k.pc \in Copying) /\ Planned(k)
      BY <1>1, <1>2, <2>4
    <3>7. \A i \in DOMAIN k.rec.ops \ {m} : /\ IsDone(l, i) => IsDone(k, i)
                                            /\ IsOpen(l, i) => IsOpen(k, i)
                                            /\ IsUndone(l, i) => IsUndone(k, i)
      BY <3>3, <3>4
    <3>8. op = k.rec.ops[m] /\ k.rec.ops \in OpLists /\ UNCHANGED <<row, copies>>
      BY <1>1, <1>2, <1>3, <3>4
    <3>9. Operates(k, l, m, d)
      BY <2>1, <2>2, <3>5, <3>7, <3>8 DEF Operates
    <3> QED
      BY <1>2, <2>2, <3>1, <3>6, <3>8, <3>9, OperatorFits
  <2>5. CASE work[w].i = Len(Ops(w))
    BY <1>2, <1>5, <2>4, <2>5 DEF NextOp
  <2>6. CASE work[w].i # Len(Ops(w))
    <3>1. PICK n \in Nat : n = k.i + 1
      BY <1>2
    <3>2. NextOp(w) = [k EXCEPT !.pc = "apply", !.i = n]
      BY <1>2, <2>6, <3>1 DEF NextOp, Worker
    <3> QED
      BY <1>5, <2>4, <3>1, <3>2
  <2> QED
    BY <2>5, <2>6
<1> QED
  BY <1>4, <1>5 DEF DoOp

\* An operation is undone, or the set is torn.
LEMMA UndoOpFits ==
  ASSUME TxnInv, TxnInv', DataInv, NEW w \in Workers, UndoOp(w)
  PROVE  DataInv'
<1>1. /\ work[w].kind = "execute" /\ work[w].pc = "undo" /\ work[w].pc \in Copying /\ Planned(work[w]) /\ work[w].i > 0
      /\ UNCHANGED <<copies, row>>
  BY DEF UndoOp, At, Copying, Carrying, Planned
<1>2. PICK k \in Worker : /\ k = work[w] /\ k.i \in Nat /\ k.i \in 1..Len(Ops(w)) /\ Len(Ops(w)) \in Nat
                          /\ DOMAIN k.rec.ops = 1..Len(Ops(w)) /\ k.rec.ops \in OpLists /\ k.old \in Disks /\ copies[k.set] \in Disks
  <2>1. /\ Ops(w) \in OpLists /\ work[w] \in Worker /\ work[w].i \in Nat /\ work[w].i \in 0..Len(Ops(w)) /\ Len(Ops(w)) \in Nat
        /\ work[w].old \in Disks /\ copies[work[w].set] \in Disks
    BY <1>1, CopyingFact
  <2> QED
    BY <1>1, <2>1, OpsFact DEF Ops
<1>3. PICK op \in Operations : op = k.rec.ops[k.i] /\ op = Op(w) /\ disk \in Disks
  BY <1>1, <1>2, CopyingFact DEF Op, Ops
<1>4. PICK n \in Nat : n = k.i - 1
  BY <1>2
<1>5. CASE Moves(w, [work[w] EXCEPT !.i = @ - 1, !.torn = TRUE]) /\ UNCHANGED disk
  <2>1. PICK l : l = [k EXCEPT !.i = n, !.torn = TRUE]
    OBVIOUS
  <2>2. /\ l \in Worker /\ l.pc = k.pc /\ l.i = n /\ l.kind = k.kind /\ l.set = k.set /\ l.rec = k.rec /\ l.old = k.old
        /\ l.dirty = k.dirty /\ l.torn
    BY <2>1 DEF Worker
  <2>3. Moves(w, l)
    BY <1>2, <1>4, <1>5, <2>1 DEF Worker
  <2>4. \A i \in DOMAIN k.rec.ops : /\ IsDone(l, i) => IsDone(k, i)
                                    /\ ~IsOpen(l, i)
                                    /\ IsUndone(l, i) => IsUndone(k, i) \/ IsDone(k, i)
    BY <1>1, <1>2, <1>4, <2>2 DEF IsDone, IsOpen, IsUndone
  <2> QED
    BY <1>1, <1>2, <1>5, <2>2, <2>3, <2>4, GoesOnFits
<1>6. ASSUME NEW d \in ReverseOp(Op(w), work[w].old, copies[work[w].set], disk), Writes(w, d, [work[w] EXCEPT !.i = @ - 1])
      PROVE  DataInv'
  <2>1. PICK b \in Disks : b = Base(k) /\ b = k.old
    BY <1>1, <1>2 DEF Base
  <2>2. /\ d \in Disks /\ \A p \in Paths \ PathsOf(op) : d[p] = disk[p]
        /\ PlanFits(op, b) /\ After(op, b, disk) /\ CopyFits(op, b, copies[k.set]) => Before(op, b, d)
    BY <1>2, <1>3, <1>6, <2>1, ReverseTypes, ReverseFact
  <2>3. OpFits(k, k.i, op, b) => After(op, b, disk) /\ CopyFits(op, b, copies[k.set])
    BY <1>1, <1>2 DEF OpFits, IsDone
  <2>4. PICK l : l = [k EXCEPT !.i = n]
    OBVIOUS
  <2>5. /\ l \in Worker /\ l.pc = k.pc /\ l.i = n /\ l.kind = k.kind /\ l.set = k.set /\ l.rec = k.rec /\ l.old = k.old
        /\ l.dirty = k.dirty /\ l.torn = k.torn
    BY <2>4 DEF Worker
  <2>6. Writes(w, d, l)
    BY <1>2, <1>4, <1>6, <2>4 DEF Worker
  <2>7. ~IsDone(l, k.i)
    BY <1>1, <1>2, <1>4, <2>5 DEF IsDone
  <2>8. \A i \in DOMAIN k.rec.ops \ {k.i} : /\ IsDone(l, i) => IsDone(k, i)
                                            /\ ~IsOpen(l, i)
                                            /\ IsUndone(l, i) => IsUndone(k, i)
    BY <1>1, <1>2, <1>4, <2>5 DEF IsDone, IsOpen, IsUndone
  <2>9. PICK m \in DOMAIN k.rec.ops : m = k.i
    BY <1>2
  <2>10. PlanFits(op, b) /\ OpFits(k, m, op, b) =>
           /\ IsDone(l, m) => After(op, b, d)
           /\ IsOpen(l, m) \/ IsUndone(l, m) => Before(op, b, d)
    BY <2>2, <2>3, <2>7, <2>9
  <2>11. (l.pc \in Copying => k.pc \in Copying) /\ Planned(k)
    BY <1>1, <1>2
  <2>12. \A i \in DOMAIN k.rec.ops \ {m} : /\ IsDone(l, i) => IsDone(k, i)
                                           /\ IsOpen(l, i) => IsOpen(k, i)
                                           /\ IsUndone(l, i) => IsUndone(k, i)
    BY <2>8, <2>9
  <2>13. op = k.rec.ops[m] /\ k.rec.ops \in OpLists /\ UNCHANGED <<row, copies>>
    BY <1>1, <1>2, <1>3, <2>9
  <2>14. Operates(k, l, m, d)
    BY <2>1, <2>2, <2>10, <2>12, <2>13 DEF Operates
  <2> QED
    BY <1>2, <2>2, <2>5, <2>6, <2>11, <2>13, <2>14, OperatorFits
<1> QED
  BY <1>5, <1>6 DEF UndoOp

\* The verdict hands what Execute knew to the row.
LEMMA VerdictFits ==
  ASSUME TxnInv, TxnInv', DataInv, NEW w \in Workers, ExecuteFails(w) \/ JournalApplied(w)
  PROVE  DataInv'
<1>1. PICK x \in Sets : x = work[w].set
  BY DEF TxnInv, TxnTypeOK, Worker
<1>2. TxnTypeOK /\ UNCHANGED <<disk, copies>>
  BY DEF TxnInv, ExecuteFails, JournalApplied
<1>3. PICK k \in Worker : k = work[w] /\ DiskFits(k)
  BY DEF TxnInv, TxnTypeOK, DataInv
<1>4. PICK rec \in Row : rec = k.rec
  BY DEF Worker
<1>5. CASE ExecuteFails(w)
  <2>1. PICK r : r = Ended(rec, "failed")
    OBVIOUS
  <2>2. "failed" \in Statuses
    BY DEF Statuses, Terminal
  <2>3. r \in Row /\ r.status = "failed"
    BY <2>1, <2>2, EndedFact
  <2>4. Release(w) /\ (Update(x, r) \/ UNCHANGED row)
    BY <1>1, <1>3, <1>4, <1>5, <2>1 DEF ExecuteFails, Finish, UpdateFails
  <2> QED
    BY <1>1, <1>2, <2>3, <2>4, ReleaseFits
<1>6. CASE JournalApplied(w)
  <2>1. PICK r : r = [rec EXCEPT !.status = "applied", !.open = TRUE, !.before = k.old, !.taint = k.dirty]
    OBVIOUS
  <2>2. "applied" \in Statuses /\ k.old \in Disks /\ k.dirty \in SUBSET Paths
    BY DEF Statuses, Terminal, Worker
  <2>3. r \in Row /\ r.status = "applied" /\ r.ops = rec.ops /\ r.before = k.old /\ r.taint = k.dirty
    BY <2>1, <2>2 DEF Row
  <2>4. k.kind = "execute" /\ k.pc = "journal" /\ Planned(k) /\ k.pc \in Copying /\ Base(k) = k.old
    BY <1>3, <1>6 DEF JournalApplied, At, Planned, Copying, Carrying, Base
  <2>5. /\ PlanHolds(rec.ops, k.old)
        /\ \A i \in DOMAIN rec.ops : PathsOf(rec.ops[i]) \cap k.dirty = {} => CopyFits(rec.ops[i], k.old, copies[x])
    BY <1>1, <1>3, <1>4, <2>4 DEF DiskFits, OpFits
  <2>6. Release(w) /\ (Update(x, r) \/ UNCHANGED row)
    BY <1>1, <1>3, <1>4, <1>6, <2>1 DEF JournalApplied, UpdateFails
  <2>7. CASE UNCHANGED row
    BY <1>1, <1>2, <2>6, <2>7, RestTypes, ReleaseFits
  <2>8. CASE Update(x, r)
    <3>1. row'[x] = r
      BY <1>2, <2>8 DEF Update, TxnTypeOK
    <3>2. RowRemembers(x)'
      BY <1>2, <2>3, <2>5, <3>1 DEF RowRemembers
    <3> QED
      BY <1>1, <1>2, <2>3, <2>6, <3>2, ReleaseFits
  <2> QED
    BY <2>6, <2>7, <2>8
<1> QED
  BY <1>5, <1>6

\* Rollback plans only over a disk that shows the operations done and a copy that has what it needs.
LEMMA PlanRollbackFits ==
  ASSUME TxnInv, TxnInv', DataInv, NEW w \in Workers, PlanRollback(w)
  PROVE  DataInv'
<1>1. PICK x \in Sets : x = work[w].set
  BY DEF TxnInv, TxnTypeOK, Worker
<1>2. TxnTypeOK /\ work[w] \in Worker /\ row[x] \in Row /\ copies[x] \in Disks /\ disk \in Disks
  BY DEF TxnInv, TxnTypeOK
<1>3. work[w].kind = "rollback" /\ UNCHANGED <<disk, row, copies>>
  BY DEF PlanRollback, At
<1>4. CASE Release(w)
  BY <1>1, <1>3, <1>4, RestTypes, ReleaseFits
<1>5. ASSUME row[x].status = "applied", row[x].open, CanRollBack(row[x].ops, copies[x], disk),
             Moves(w, [work[w] EXCEPT !.pc = "asking", !.rec = row[x], !.old = copies[x], !.dirty = row[x].taint])
      PROVE  DataInv'
  <2>1. PICK l : l = [work[w] EXCEPT !.pc = "asking", !.rec = row[x], !.old = copies[x], !.dirty = row[x].taint]
    OBVIOUS
  <2>2. row[x].taint \in SUBSET Paths
    BY <1>2 DEF Row
  <2>3. /\ l \in Worker /\ l.pc = "asking" /\ l.kind = "rollback" /\ l.set = x /\ l.rec = row[x] /\ l.old = copies[x]
        /\ l.dirty = row[x].taint
    BY <1>1, <1>2, <1>3, <2>1, <2>2 DEF Worker
  <2>4. Moves(w, l)
    BY <1>5, <2>1
  <2>5. l = work'[w]
    BY <1>2, <2>3, <2>4, MoveFact
  <2>6. PICK ops \in OpLists : ops = row[x].ops
    BY <1>5 DEF TxnInv, RowFits
  <2>7. PICK b : b = row[x].before /\ b = Base(l)
    BY <2>3 DEF Base
  <2>8. /\ PlanHolds(ops, b)
        /\ \A i \in DOMAIN ops : PathsOf(ops[i]) \cap l.dirty = {} => CopyFits(ops[i], b, copies[x])
    BY <1>5, <2>3, <2>6, <2>7 DEF DataInv, RowRemembers
  <2>9. ASSUME NEW i \in DOMAIN ops, PathsOf(ops[i]) \cap l.dirty = {}
        PROVE  OpFits(l, i, ops[i], b)'
    <3>1. PICK op \in Operations : op = ops[i]
      BY OpsFact
    <3>2. /\ PlanFits(op, b) /\ CopyFits(op, b, copies[x]) /\ Landed(op, disk)
          /\ op.type = "update" => copies[x][op.path] \in Files
          /\ op.type = "move" => disk[op.path] = Absent
          /\ op.type = "delete" => copies[x][op.path] # Absent
      BY <1>5, <2>6, <2>8, <2>9, <3>1 DEF PlanHolds, CanRollBack
    <3>3. After(op, b, disk)
      BY <1>2, <3>2, LandedFact
    <3>4. op.type \in {"update", "delete"} => copies[x][op.path] = b[op.path]
      BY <3>2, FileOpsAssumption DEF CopyFits
    <3> QED
      BY <1>3, <2>3, <3>1, <3>2, <3>3, <3>4 DEF OpFits, IsOpen, IsUndone
  <2>10. DiskFits(work[w])'
    BY <2>3, <2>5, <2>6, <2>7, <2>8, <2>9 DEF DiskFits
  <2> QED
    BY <1>3, <2>3, <2>4, <2>10, MoverFits
<1> QED
  BY <1>1, <1>4, <1>5 DEF PlanRollback

\* Waiting for the answer changes no file of its own.
LEMMA RollbackAnsweredFits ==
  ASSUME TxnInv, TxnInv', DataInv, NEW w \in Workers, NEW a, RollbackAnswered(w, a)
  PROVE  DataInv'
<1>1. PICK x \in Sets : x = work[w].set
  BY DEF TxnInv, TxnTypeOK, Worker
<1>2. work[w].pc = "asking" /\ work[w].kind = "rollback" /\ UNCHANGED <<disk, row, copies>> /\ Planned(work[w])
  BY DEF RollbackAnswered, At, Planned
<1>3. CASE Release(w)
  BY <1>1, <1>2, <1>3, RestTypes, ReleaseFits
<1>4. CASE Moves(w, [work[w] EXCEPT !.pc = "apply", !.i = Len(Ops(w))])
  <2>1. PICK k \in Worker : k = work[w] /\ k.rec.ops \in OpLists /\ Ops(w) = k.rec.ops
    BY <1>1, <1>2, RollbackFact
  <2>2. PICK n \in Nat : n = Len(Ops(w)) /\ DOMAIN k.rec.ops = 1..n
    BY <2>1, OpsFact
  <2>3. PICK l : l = [k EXCEPT !.pc = "apply", !.i = n]
    OBVIOUS
  <2>4. /\ l \in Worker /\ l.pc = "apply" /\ l.i = n /\ l.kind = k.kind /\ l.set = k.set /\ l.rec = k.rec /\ l.old = k.old
        /\ l.dirty = k.dirty /\ l.torn = k.torn
    BY <2>3 DEF Worker
  <2>5. Moves(w, l)
    BY <1>4, <2>1, <2>2, <2>3
  <2>6. \A i \in DOMAIN k.rec.ops : IsDone(k, i) /\ ~IsOpen(l, i) /\ ~IsUndone(l, i)
    BY <1>2, <2>1, <2>2, <2>4 DEF IsDone, IsOpen, IsUndone
  <2>7. ~(l.kind = "execute") /\ Planned(k)
    BY <1>2, <2>1, <2>4
  <2> QED
    BY <1>2, <2>1, <2>4, <2>5, <2>6, <2>7, GoesOnFits
<1> QED
  BY <1>3, <1>4 DEF RollbackAnswered

\* Rollback's verdict.
LEMMA TakenBackFits ==
  ASSUME TxnInv, TxnInv', DataInv, NEW w \in Workers, NEW s \in {"rolled_back", "failed"},
         (Update(work[w].set, Ended(work[w].rec, s)) /\ UNCHANGED hist) \/ UpdateFails(work[w].set), Release(w),
         UNCHANGED <<disk, copies>>
  PROVE  DataInv'
<1>1. PICK x \in Sets : x = work[w].set
  BY DEF TxnInv, TxnTypeOK, Worker
<1>2. PICK rec \in Row : rec = work[w].rec
  BY DEF TxnInv, TxnTypeOK, Worker
<1>3. PICK r : r = Ended(rec, s)
  OBVIOUS
<1>4. s \in Statuses
  BY DEF Statuses, Terminal
<1>5. r \in Row /\ r.status = s
  BY <1>3, <1>4, EndedFact
<1>6. Update(x, r) \/ UNCHANGED row
  BY <1>1, <1>2, <1>3 DEF UpdateFails
<1> QED
  BY <1>1, <1>5, <1>6, ReleaseFits

\* An operation is rolled back.
LEMMA RollbackOpFits ==
  ASSUME TxnInv, TxnInv', DataInv, NEW w \in Workers, RollbackOp(w)
  PROVE  DataInv'
<1>1. PICK x \in Sets : x = work[w].set
  BY DEF TxnInv, TxnTypeOK, Worker
<1>2. work[w].pc = "apply" /\ work[w].kind = "rollback" /\ UNCHANGED copies /\ Planned(work[w])
  BY DEF RollbackOp, At, Planned
<1>3. CASE Finish(w, Ended(work[w].rec, "failed")) /\ UNCHANGED disk
  BY <1>2, <1>3, TakenBackFits DEF Finish
<1>4. ASSUME NEW d \in ReverseOp(Op(w), work[w].old, copies[x], disk), UNCHANGED row,
             Writes(w, d, [work[w] EXCEPT !.i = @ - 1, !.pc = IF work[w].i = 1 THEN "journal" ELSE "apply"])
      PROVE  DataInv'
  <2>1. PICK k \in Worker : /\ k = work[w] /\ k.rec.ops \in OpLists /\ Ops(w) = k.rec.ops /\ WorkerFits(k) /\ k.set = x
                            /\ k.old \in Disks /\ copies[x] \in Disks /\ disk \in Disks
    BY <1>1, <1>2, RollbackFact
  <2>2. Len(Ops(w)) \in Nat /\ DOMAIN k.rec.ops = 1..Len(Ops(w)) /\ k.i \in 1..Len(Ops(w)) /\ k.i \in Nat
    <3>1. k.i \in 1..Len(Ops(w)) /\ k.i \in Nat
      BY <1>2, <2>1 DEF WorkerFits, Worker
    <3> QED
      BY <2>1, <3>1, OpsFact
  <2>3. PICK m \in DOMAIN k.rec.ops : m = k.i
    BY <2>2
  <2>4. PICK op \in Operations : op = k.rec.ops[m] /\ op = Op(w)
    BY <2>1, <2>3, OpsFact DEF Op
  <2>5. PICK n \in Nat : n = k.i - 1
    BY <2>2
  <2>6. PICK p \in {"journal", "apply"} : p = (IF k.i = 1 THEN "journal" ELSE "apply")
    OBVIOUS
  <2>7. PICK l : l = [k EXCEPT !.i = n, !.pc = p]
    OBVIOUS
  <2>8. /\ l \in Worker /\ l.pc = p /\ l.i = n /\ l.kind = "rollback" /\ k.kind = "rollback" /\ l.set = k.set /\ l.rec = k.rec
        /\ l.old = k.old /\ l.dirty = k.dirty /\ l.torn = k.torn
    BY <1>2, <2>1, <2>6, <2>7 DEF Worker
  <2>9. Writes(w, d, l)
    BY <1>4, <2>1, <2>5, <2>6, <2>7 DEF Worker
  <2>10. PICK b \in Disks : b = Base(k)
    <3>1. k.rec.before \in Disks
      BY DEF Worker, Row
    <3> QED
      BY <2>8, <3>1 DEF Base
  <2>11. /\ d \in Disks /\ \A q \in Paths \ PathsOf(op) : d[q] = disk[q]
         /\ /\ PlanFits(op, b) /\ After(op, b, disk) /\ CopyFits(op, b, copies[x])
            /\ op.type \in {"update", "delete"} => k.old[op.path] = b[op.path]
            => Before(op, b, d)
    BY <1>4, <2>1, <2>4, ReverseTypes, ReverseFact
  <2>12. OpFits(k, m, op, b) => /\ After(op, b, disk) /\ CopyFits(op, b, copies[x])
                                /\ op.type \in {"update", "delete"} => k.old[op.path] = b[op.path]
    BY <1>2, <2>1, <2>2, <2>3, <2>8 DEF OpFits, IsDone
  <2>13. ~IsDone(l, m)
    BY <2>2, <2>3, <2>5, <2>8 DEF IsDone
  <2>14. \A i \in DOMAIN k.rec.ops \ {m} :
           /\ IsDone(l, i) => IsDone(k, i)
           /\ IsOpen(l, i) => IsOpen(k, i)
           /\ IsUndone(l, i) => IsUndone(k, i)
    BY <1>2, <2>1, <2>2, <2>3, <2>5, <2>6, <2>8 DEF IsDone, IsOpen, IsUndone
  <2>15. Operates(k, l, m, d)
    BY <2>4, <2>10, <2>11, <2>12, <2>13, <2>14 DEF Operates
  <2>16. Planned(k) /\ UNCHANGED <<row, copies>>
    BY <1>2, <1>4, <2>1
  <2> QED
    BY <2>1, <2>8, <2>9, <2>11, <2>15, <2>16, OperatorFits
<1> QED
  BY <1>1, <1>3, <1>4 DEF RollbackOp

\* Every step inside Execute and Rollback keeps the disk as the workers and the rows know it.
LEMMA WorkerStepFits ==
  ASSUME TxnInv, TxnInv', DataInv, NEW w \in Workers, ExecuteStep(w) \/ RollbackStep(w)
  PROVE  DataInv'
<1>1. ASSUME NEW kind \in {"execute", "rollback"}, NEW x \in Sets, NEW ops \in OpLists \cup {<<>>}, Claim(w, kind, x, ops)
      PROVE  DataInv'
  <2>1. PICK l : l = Claimer(kind, x, ops)
    OBVIOUS
  <2>2. l \in Worker /\ l.pc = "claimed"
    BY <2>1, ClaimFact
  <2>3. Moves(w, l) /\ UNCHANGED <<disk, row, copies>>
    BY <1>1, <2>1 DEF Claim, Claimer
  <2>4. l = work'[w]
    BY <2>2, <2>3, MoveFact DEF TxnInv
  <2>5. DiskFits(work[w])'
    BY <2>2, <2>4 DEF DiskFits, Planned
  <2> QED
    BY <2>2, <2>3, <2>5, MoverFits
<1>2. CASE \E x \in Sets, ops \in OpLists : Claim(w, "execute", x, ops)
  BY <1>1, <1>2
<1>3. CASE \E x \in Sets : Claim(w, "rollback", x, <<>>)
  BY <1>1, <1>3
<1>4. JournalRolledBack(w) => DataInv'
  BY TakenBackFits DEF JournalRolledBack
<1> QED
  BY <1>2, <1>3, <1>4, PlanExecuteFits, AnsweredFits, BackupFits, CheckOpFits, DoOpFits, VerifyOpFits, UndoOpFits,
     UndoEndsFits, VerdictFits, PlanRollbackFits, RollbackAnsweredFits, RollbackOpFits
     DEF ExecuteStep, RollbackStep

\* Copies that go, and rows that close.
LEMMA CopiesGoFits ==
  ASSUME TxnInv, TxnInv', DataInv, UNCHANGED <<disk, work>>,
         \A y \in Sets : copies'[y] = copies[y] \/ copies'[y] = Nothing,
         \A y \in Sets : row'[y].status = "applied" /\ row'[y].open => row'[y] = row[y]
  PROVE  DataInv'
<1>1. ASSUME NEW v \in Workers PROVE DiskFits(work[v])'
  <2>1. PICK k \in Worker : k = work[v] /\ k = work'[v] /\ DiskFits(k) /\ k.set \in Sets
    BY DEF DataInv, TxnInv, TxnTypeOK, Worker
  <2> QED
    BY <2>1, StillFits
<1>2. ASSUME NEW x \in Sets PROVE RowRemembers(x)'
  BY RowStays DEF DataInv
<1> QED
  BY <1>1, <1>2 DEF DataInv

\* The cleaner and the clearing screens.
LEMMA TidyFits ==
  ASSUME TxnInv, TxnInv', DataInv, CleanupStep \/ ScreenStep
  PROVE  DataInv'
<1>1. TxnTypeOK /\ copies \in [Sets -> Disks] /\ row \in [Sets -> Row] /\ TxnTypeOK'
  BY DEF TxnInv, TxnTypeOK
<1>2. UNCHANGED <<disk, work>>
  BY DEF CleanupStep, CleanupStarts, CleanupScans, CleanupEvicts, CleanupRemoves, CleanupEnds, ScreenStep, ClearBackups,
         DeleteChangeSets, RemoveDoomed
<1>3. \A y \in Sets : copies'[y] = copies[y] \/ copies'[y] = Nothing
  BY <1>1 DEF CleanupStep, CleanupStarts, CleanupScans, CleanupEvicts, CleanupRemoves, CleanupEnds, ScreenStep, ClearBackups,
              DeleteChangeSets, RemoveDoomed, Drop
<1>4. \A y \in Sets : row'[y].status = "applied" /\ row'[y].open => row'[y] = row[y]
  <2>1. ASSUME NEW x \in Sets, CleanupEvicts(x) PROVE \A y \in Sets : row'[y].open => row'[y] = row[y]
    <3>1. cleaner.kept[x] \in Row
      BY <1>1 DEF TxnTypeOK, Cleaner
    <3>2. ~Closed(cleaner.kept[x]).open
      BY <3>1, ClosedFact
    <3> QED
      BY <1>1, <2>1, <3>2 DEF CleanupEvicts, Update, UpdateFails
  <2>2. CASE ClearBackups
    <3> SUFFICES ASSUME NEW y \in Sets PROVE row'[y].open => row'[y] = row[y]
      OBVIOUS
    <3>1. PICK r \in Row : r = row[y]
      BY <1>1
    <3>2. PICK c \in Row : c = Closed(r) /\ ~c.open
      BY ClosedFact
    <3>3. [c EXCEPT !.loc = FALSE].open = FALSE
      BY <3>2 DEF Row
    <3> QED
      BY <2>2, <3>1, <3>2, <3>3 DEF ClearBackups
  <2>3. CASE DeleteChangeSets
    BY <2>3 DEF DeleteChangeSets, NoRow
  <2> QED
    BY <2>1, <2>2, <2>3 DEF CleanupStep, CleanupStarts, CleanupScans, CleanupRemoves, CleanupEnds, ScreenStep, RemoveDoomed
<1> QED
  BY <1>2, <1>3, <1>4, CopiesGoFits

\* The person, time and the crash.
LEMMA WorldFits ==
  ASSUME TxnInv, TxnInv', DataInv, WorldStep
  PROVE  DataInv'
<1>1. TxnTypeOK /\ row \in [Sets -> Row] /\ TxnTypeOK'
  BY DEF TxnInv, TxnTypeOK
<1>2. ASSUME NEW p \in Paths, NEW u \in Values, UserEdits(p, u) PROVE DataInv'
  <2>1. UNCHANGED <<row, copies>> /\ \A q \in Paths : disk'[q] # disk[q] => q \in {p}
    BY <1>1, <1>2 DEF UserEdits, TxnTypeOK, Disks
  <2>2. ASSUME NEW v \in Workers PROVE DiskFits(work[v])'
    <3>1. work'[v] = Marked(work[v], {p})
      BY <1>2 DEF UserEdits
    <3>2. PICK changed \in SUBSET Paths : changed = {p}
      OBVIOUS
    <3> QED
      BY <2>1, <3>1, <3>2, MarkedFits
  <2>3. ASSUME NEW x \in Sets PROVE RowRemembers(x)'
    BY <2>1, RowStays DEF DataInv
  <2> QED
    BY <2>2, <2>3 DEF DataInv
<1>3. ASSUME NEW x \in Sets, WindowExpires(x) PROVE DataInv'
  <2>1. UNCHANGED <<disk, copies>> /\ row' = [row EXCEPT ![x] = Closed(row[x])] /\ row[x] \in Row
    BY <1>1, <1>3 DEF WindowExpires
  <2>2. ASSUME NEW v \in Workers PROVE DiskFits(work[v])'
    <3>1. PICK k \in Worker : k = work[v] /\ DiskFits(k)
      BY DEF DataInv, TxnInv, TxnTypeOK
    <3>2. PICK l \in Worker : l = work'[v]
      BY <1>1 DEF TxnTypeOK
    <3>3. /\ l.pc = k.pc /\ l.kind = k.kind /\ l.set = k.set /\ l.i = k.i /\ l.old = k.old /\ l.torn = k.torn /\ l.dirty = k.dirty
          /\ l.rec.ops = k.rec.ops /\ l.rec.before = k.rec.before
      BY <1>3, <3>1, <3>2 DEF WindowExpires, Aged, Worker, Row
    <3>4. Planned(l) => Planned(k)
      BY <3>3 DEF Planned
    <3>5. \A i : /\ IsDone(l, i) <=> IsDone(k, i)
                 /\ IsOpen(l, i) <=> IsOpen(k, i)
                 /\ IsUndone(l, i) <=> IsUndone(k, i)
      BY <3>3 DEF IsDone, IsOpen, IsUndone
    <3> QED
      BY <2>1, <3>1, <3>2, <3>3, <3>4, <3>5, StillFits
  <2>3. ASSUME NEW y \in Sets PROVE RowRemembers(y)'
    <3>1. ~Closed(row[x]).open
      BY <2>1, ClosedFact
    <3>2. row'[y].open => row'[y] = row[y]
      BY <1>1, <2>1, <3>1
    <3> QED
      BY <2>1, <3>2, RowStays DEF DataInv
  <2> QED
    BY <2>2, <2>3 DEF DataInv
<1>4. CASE CrashAndRecover
  <2>1. ASSUME NEW v \in Workers PROVE DiskFits(work[v])'
    <3>1. work'[v] = Idle /\ Idle.pc = "idle"
      BY <1>4, RestTypes DEF CrashAndRecover
    <3> QED
      BY <3>1 DEF DiskFits, Planned
  <2>2. ASSUME NEW x \in Sets PROVE RowRemembers(x)'
    <3>1. row'[x].status = "applied" => row'[x] = row[x]
      BY <1>1, <1>4 DEF CrashAndRecover, Recovered, Row
    <3>2. UNCHANGED copies
      BY <1>4 DEF CrashAndRecover
    <3> QED
      BY <3>1, <3>2, RowStays DEF DataInv
  <2> QED
    BY <2>1, <2>2 DEF DataInv
<1> QED
  BY <1>2, <1>3, <1>4 DEF WorldStep

\* Nobody is at work and no row can be rolled back.
LEMMA DataStarts ==
  ASSUME Init
  PROVE  DataInv
<1>1. \A w \in Workers : work[w] = Idle /\ Idle.pc = "idle"
  BY RestTypes DEF Init
<1>2. \A w \in Workers : DiskFits(work[w])
  BY <1>1 DEF DiskFits, Planned
<1>3. \A x \in Sets : row[x].status = "none"
  BY DEF Init, NoRow
<1> QED
  BY <1>2, <1>3 DEF DataInv, RowRemembers

\* Every step keeps it.
LEMMA DataMoves ==
  ASSUME TxnInv, TxnInv', DataInv, [Next]_vars
  PROVE  DataInv'
<1>1. CASE UNCHANGED vars
  <2>1. UNCHANGED <<disk, work, copies, row>>
    BY <1>1 DEF vars
  <2> QED
    BY <2>1, CopiesGoFits
<1>2. CASE Next
  BY <1>2, WorkerStepFits, TidyFits, WorldFits DEF Next
<1> QED
  BY <1>1, <1>2

\* The disk, the copies and what workers and rows remember of them fit in every state.
THEOREM DataHolds == Spec => []DataInv
<1>1. Init => DataInv
  BY DataStarts
<1>2. TxnInv /\ TxnInv' /\ DataInv /\ [Next]_vars => DataInv'
  BY DataMoves
<1> QED
  BY <1>1, <1>2, TxnHolds, PTL DEF Spec

\* What an operation taken back leaves, in a worker's terms.
LEMMA UndoneFact ==
  ASSUME TxnInv, DataInv, NEW w \in Workers, At(w, "execute", "undone"), NEW i \in DOMAIN Ops(w),
         PathsOf(Ops(w)[i]) \cap work[w].dirty = {}
  PROVE  /\ Ops(w)[i] \in Operations /\ work[w].old \in Disks /\ disk \in Disks
         /\ PlanFits(Ops(w)[i], work[w].old)
         /\ \/ Before(Ops(w)[i], work[w].old, disk)
            \/ work[w].torn /\ After(Ops(w)[i], work[w].old, disk)
<1>1. PICK k \in Worker : k = work[w] /\ DiskFits(k) /\ k.old \in Disks /\ disk \in Disks
  BY DEF TxnInv, TxnTypeOK, DataInv, Worker
<1>2. k.kind = "execute" /\ k.pc = "undone" /\ Planned(k) /\ Base(k) = k.old /\ Ops(w) = k.rec.ops
  BY <1>1 DEF At, Planned, Base, Ops
<1>3. Ops(w)[i] \in Operations
  BY <1>1, <1>2, PlannedOps, OpsFact
<1>4. PlanFits(Ops(w)[i], k.old) /\ OpFits(k, i, Ops(w)[i], k.old)
  BY <1>1, <1>2 DEF DiskFits, PlanHolds
<1>5. IsUndone(k, i)
  BY <1>2 DEF IsUndone
<1> QED
  BY <1>1, <1>3, <1>4, <1>5 DEF OpFits

\* A change set that failed half way took back what it had done: apply's deferred undo, with any number of operations of
\* every type, other sets and the person writing next to it.
THEOREM FailedTakesBack == Spec => []UndoRestores
<1>1. TxnInv /\ DataInv => UndoRestores
  <2> SUFFICES ASSUME TxnInv, DataInv, NEW w \in Workers, At(w, "execute", "undone"), ~work[w].torn,
                      NEW i \in DOMAIN Ops(w), PathsOf(Ops(w)[i]) \cap work[w].dirty = {}
               PROVE  \A p \in PathsOf(Ops(w)[i]) : disk[p] = work[w].old[p]
    BY DEF UndoRestores, Agrees
  <2>1. Before(Ops(w)[i], work[w].old, disk)
    BY UndoneFact
  <2> QED
    BY <2>1 DEF Before
<1> QED
  BY <1>1, TxnHolds, DataHolds, PTL

\* effectOf, of an operation that stands undone or done.
LEMMA EffectFact ==
  ASSUME NEW op \in Operations, NEW old \in Disks, NEW d \in Disks, PlanFits(op, old), NEW torn \in BOOLEAN,
         Before(op, old, d) \/ (torn /\ After(op, old, d))
  PROVE  /\ EffectOf(op, old, d) = "not_started" <=>
              old[op.path] \notin Trees /\ \A p \in PathsOf(op) : d[p] = old[p]
         /\ EffectOf(op, old, d) = "state_changed" => torn
         /\ EffectOf(op, old, d) = "outcome_unknown" => old[op.path] \in Trees
<1>1. op.path \in Paths /\ op.to \in Paths /\ op.content \in Files /\ op.type \in {"create", "update", "move", "delete"}
  BY DEF Operations
<1>2. d[op.path] \in Values /\ d[op.to] \in Values /\ old[op.path] \in Values /\ old[op.to] \in Values
  BY <1>1 DEF Disks
<1>3. Absent \notin Files /\ Absent \notin Trees /\ Files \cap Trees = {}
  BY FileOpsAssumption
<1>4. CASE op.type = "create"
  BY <1>1, <1>2, <1>3, <1>4 DEF EffectOf, PathsOf, Before, After, PlanFits
<1>5. CASE op.type = "update"
  BY <1>1, <1>2, <1>3, <1>5 DEF EffectOf, PathsOf, Before, After, PlanFits
<1>6. CASE op.type = "move"
  BY <1>1, <1>2, <1>3, <1>6 DEF EffectOf, PathsOf, Before, After, PlanFits
<1>7. CASE op.type = "delete"
  BY <1>1, <1>2, <1>3, <1>7 DEF EffectOf, PathsOf, Before, After, PlanFits, Values
<1> QED
  BY <1>1, <1>4, <1>5, <1>6, <1>7

\* effectOf tells the truth about every operation of a failed set whose paths nobody else wrote.
THEOREM ToldIsTrue == Spec => []EffectsAreTrue
<1>1. TxnInv /\ DataInv => EffectsAreTrue
  <2> SUFFICES ASSUME TxnInv, DataInv, NEW w \in Workers, At(w, "execute", "undone"),
                      NEW i \in DOMAIN Ops(w), PathsOf(Ops(w)[i]) \cap work[w].dirty = {}
               PROVE  /\ EffectOf(Ops(w)[i], work[w].old, disk) = "not_started" <=>
                           work[w].old[Ops(w)[i].path] \notin Trees /\ \A p \in PathsOf(Ops(w)[i]) : disk[p] = work[w].old[p]
                      /\ EffectOf(Ops(w)[i], work[w].old, disk) = "state_changed" => work[w].torn
                      /\ EffectOf(Ops(w)[i], work[w].old, disk) = "outcome_unknown" => work[w].old[Ops(w)[i].path] \in Trees
    BY DEF EffectsAreTrue
  <2>1. work[w].torn \in BOOLEAN
    BY DEF TxnInv, TxnTypeOK, Worker
  <2> QED
    BY <2>1, UndoneFact, EffectFact
<1> QED
  BY <1>1, TxnHolds, DataHolds, PTL

\* A rollback that went through is the inverse of the change set, whatever happened to rows and copies since it was
\* applied.
THEOREM RollbackTakesBack == Spec => []RollbackIsInverse
<1>1. TxnInv /\ DataInv => RollbackIsInverse
  <2> SUFFICES ASSUME TxnInv, DataInv, NEW w \in Workers, At(w, "rollback", "journal"),
                      NEW i \in DOMAIN Ops(w), PathsOf(Ops(w)[i]) \cap work[w].dirty = {}
               PROVE  \A p \in PathsOf(Ops(w)[i]) : disk[p] = work[w].rec.before[p]
    BY DEF RollbackIsInverse, Agrees
  <2>1. PICK k \in Worker : k = work[w] /\ DiskFits(k)
    BY DEF TxnInv, TxnTypeOK, DataInv
  <2>2. k.kind = "rollback" /\ k.pc = "journal" /\ Planned(k) /\ Base(k) = k.rec.before /\ Ops(w) = k.rec.ops
    BY <2>1 DEF At, Planned, Base, Ops
  <2>3. OpFits(k, i, Ops(w)[i], k.rec.before) /\ IsOpen(k, i)
    BY <2>1, <2>2 DEF DiskFits, IsOpen
  <2> QED
    BY <2>1, <2>3 DEF OpFits, Before
<1> QED
  BY <1>1, TxnHolds, DataHolds, PTL

=============================================================================
