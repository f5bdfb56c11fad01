------------------------------ MODULE TxnProofs ------------------------------
(***************************************************************************)
(* Txn, proved for every number of goroutines, change sets and operations: *)
(* that a set is applied once, that an approved row is being carried out,  *)
(* that open windows have their copies, and that the whole implements      *)
(* ChangeSetLife.                                                          *)
(*                                                                         *)
(* The invariant says of a goroutine what the row of its set must say by   *)
(* the time it has come so far (WorkerFits), of a row what its window,     *)
(* its copy and its histories have to do with each other (RowFits), and of *)
(* a row that the cleaner or a clear handler has read earlier what may     *)
(* have become of it since (CleanersFit).  Every lemma about an action     *)
(* shows two things at once: the invariant after it, and the step of       *)
(* ChangeSetLife it is.                                                    *)
(***************************************************************************)
EXTENDS Txn, TLAPS

-----------------------------------------------------------------------------
(* Rows, claims and the life of a change set. *)

\* A goroutine of Execute that has its yes, and one that has its copies.
Carrying == {"approved", "apply", "checked", "verify", "undo", "undone", "journal"}

\* One that has its copies.
Copying == Carrying \ {"approved"}

\* The statuses a row can have once its window was open.
Opened == {"applied", "failed", "rolled_back"}

\* The copies that taking back ops needs are there.
CopiesServe(ops, copy) ==
  \A i \in DOMAIN ops : ops[i].type \in {"update", "delete"} => copy[ops[i].path] # Absent

\* A worker and the row of its set, as far as the worker has come.
WorkerFits(k) ==
  /\ k.rec.open => k.rec.loc
  /\ k.pc # "idle" => <<k.set, k.kind>> \in inflight
  /\ k.kind = "execute" =>
       /\ ~k.rec.open
       /\ k.pc # "idle" => k.rec.ops \in OpLists
       /\ k.pc = "asking" => row[k.set].status = "pending"
       /\ k.pc \in Carrying => row[k.set].status = "approved"
       /\ k.pc \in Copying => k.rec.loc /\ (k.set \notin hist.robbed => CopiesServe(k.rec.ops, copies[k.set]))
       /\ k.pc = "approved" \/ (k.pc \in {"apply", "checked"} /\ k.i = 1) => k.set \notin hist.begun
       /\ k.pc \in {"apply", "checked", "verify"} => k.i \in 1..Len(k.rec.ops)
       /\ k.pc = "undo" => k.i \in 0..Len(k.rec.ops)
  /\ k.kind = "rollback" => k.pc \in {"idle", "claimed", "asking", "apply", "journal"}
  /\ k.kind = "rollback" /\ k.pc \in {"asking", "apply", "journal"} =>
       /\ row[k.set].status = "applied" \/ k.set \in hist.cleared
       /\ k.rec.ops \in OpLists
       /\ k.pc = "apply" => k.i \in 1..Len(k.rec.ops)

\* A row alone.
RowFits(x) ==
  /\ row[x].status # "none" => row[x].ops \in OpLists
  /\ row[x].open => row[x].status \in Opened /\ row[x].loc
  /\ x \in hist.begun => row[x].status \in {"approved"} \cup Terminal
  /\ x \in hist.cleared => row[x].status = "none"
  /\ x \notin hist.robbed => CopyOutlivesWindow(x)

\* A row and those who would still remove its copy or write it from an earlier reading.
CleanersFit(x) ==
  /\ cleaner.kept[x] # NoRow =>
       /\ cleaner.kept[x].status \in Opened /\ cleaner.kept[x].ops \in OpLists
       /\ x \in hist.cleared \/ (row[x].status \in Opened /\ cleaner.kept[x].status \in {"applied", row[x].status})
  /\ x \in cleaner.victim /\ ~cleaner.early =>
       (x \in hist.cleared \/ row[x].status \in Terminal) /\ ~(row[x].status = "applied" /\ row[x].open)
  /\ x \in doomed =>
       (x \in hist.cleared \/ row[x].status \in Terminal) /\ ~(row[x].status = "applied" /\ row[x].open)

\* Engine.inflight lets one Execute and one Rollback in per id.
OneWorkerEach ==
  \A w, v \in Workers :
    work[w].pc # "idle" /\ work[v].pc # "idle" /\ work[w].set = work[v].set /\ work[w].kind = work[v].kind => w = v

\* The inductive invariant of the file transaction, as far as rows, claims and copies go.
TxnInv ==
  /\ TxnTypeOK
  /\ OneWorkerEach
  /\ \A w \in Workers : WorkerFits(work[w])
  /\ \A x \in Sets : RowFits(x) /\ CleanersFit(x)
  /\ ApprovedIsCarriedOut

\* Where a worker stands.
Stages == {"idle", "claimed", "asking", "approved", "apply", "checked", "verify", "undo", "undone", "journal"}

\* A worker that has planned.
Planned(k) == k.pc \notin {"idle", "claimed"}

\* The same worker, but for the paths others wrote.
SameWorker(l, k) == l.pc = k.pc /\ l.kind = k.kind /\ l.set = k.set /\ l.i = k.i /\ l.rec = k.rec

\* What others see of change set y.
SetKept(y) ==
  /\ row'[y] = row[y] /\ copies'[y] = copies[y]
  /\ y \in hist'.begun <=> y \in hist.begun
  /\ y \in hist'.lapsed <=> y \in hist.lapsed
  /\ y \in hist'.robbed <=> y \in hist.robbed
  /\ y \in hist'.cleared <=> y \in hist.cleared

\* No row, and nobody at work.
LEMMA RestTypes ==
  /\ Nothing \in Disks
  /\ NoRow \in Row /\ NoRow.status = "none" /\ NoRow.ops = <<>> /\ ~NoRow.open /\ ~NoRow.loc
  /\ Idle \in Worker /\ Idle.pc = "idle" /\ Idle.kind = "execute" /\ Idle.rec = NoRow
<1>1. Nothing \in Disks
  BY DEF Nothing, Disks, Values
<1>2. NoRow \in Row /\ NoRow.status = "none" /\ NoRow.ops = <<>> /\ ~NoRow.open /\ ~NoRow.loc
  <2>1. "none" \in Statuses /\ <<>> \in OpLists \cup {<<>>}
    BY DEF Statuses
  <2> QED
    BY <1>1, <2>1 DEF NoRow, Row
<1>3. (CHOOSE x \in Sets : TRUE) \in Sets
  BY TxnAssumption
<1>4. Idle \in Worker /\ Idle.pc = "idle" /\ Idle.kind = "execute" /\ Idle.rec = NoRow
  BY <1>1, <1>2, <1>3 DEF Idle, Worker
<1> QED
  BY <1>1, <1>2, <1>4

\* A row that ends, and one whose window is closed.
LEMMA EndedFact ==
  ASSUME NEW rec \in Row, NEW s \in Statuses, NEW r, r = Ended(rec, s)
  PROVE  r \in Row /\ r.status = s /\ r.ops = rec.ops /\ r.open = rec.open /\ r.loc = rec.loc
<1>1. r = [status |-> s, ops |-> rec.ops, before |-> Nothing, open |-> rec.open, loc |-> rec.loc, taint |-> {}]
  BY DEF Ended, Row
<1>2. rec.ops \in OpLists \cup {<<>>} /\ rec.open \in BOOLEAN /\ rec.loc \in BOOLEAN
  BY DEF Row
<1>3. r \in Row
  BY <1>1, <1>2, RestTypes DEF Row
<1> QED
  BY <1>1, <1>3

\* Closing a window leaves a row that says the same but for the window.
LEMMA ClosedFact ==
  ASSUME NEW rec \in Row, NEW r, r = Closed(rec)
  PROVE  r \in Row /\ r.status = rec.status /\ r.ops = rec.ops /\ ~r.open /\ r.loc = rec.loc
<1>1. r = [status |-> rec.status, ops |-> rec.ops, before |-> Nothing, open |-> FALSE, loc |-> rec.loc, taint |-> {}]
  BY DEF Closed, Row
<1>2. rec.ops \in OpLists \cup {<<>>} /\ rec.status \in Statuses /\ rec.loc \in BOOLEAN
  BY DEF Row
<1>3. r \in Row
  BY <1>1, <1>2, RestTypes DEF Row
<1> QED
  BY <1>1, <1>3

\* A step of one worker moves that worker alone.
LEMMA MoveFact ==
  ASSUME TxnTypeOK, NEW w \in Workers, NEW r \in Worker, Moves(w, r)
  PROVE  /\ work' \in [Workers -> Worker] /\ work'[w] = r
         /\ \A v \in Workers \ {w} : work'[v] = work[v]
BY DEF TxnTypeOK, Moves

\* Marking touches the history of what others wrote and nothing else.
LEMMA MarkedFact ==
  ASSUME NEW k \in Worker, NEW changed \in SUBSET Paths, NEW r, r = Marked(k, changed)
  PROVE  /\ r \in Worker /\ SameWorker(r, k) /\ r.old = k.old /\ r.torn = k.torn /\ k.dirty \subseteq r.dirty
         /\ Planned(k) => r.dirty = k.dirty \cup (changed \cap AllPathsOf(k.rec.ops))
<1>1. CASE k.pc \in {"idle", "claimed"}
  BY <1>1 DEF Marked, SameWorker, Planned
<1>2. CASE k.pc \notin {"idle", "claimed"}
  <2>1. PICK d \in SUBSET Paths : d = k.dirty \cup (changed \cap AllPathsOf(k.rec.ops))
    BY DEF Worker
  <2>2. r = [k EXCEPT !.dirty = d]
    BY <1>2, <2>1 DEF Marked, Worker
  <2>3. /\ r \in Worker /\ r.pc = k.pc /\ r.kind = k.kind /\ r.set = k.set /\ r.i = k.i /\ r.rec = k.rec
        /\ r.old = k.old /\ r.torn = k.torn /\ r.dirty = d
    BY <2>2 DEF Worker
  <2> QED
    BY <1>2, <2>1, <2>3 DEF SameWorker, Planned
<1> QED
  BY <1>1, <1>2

\* A worker that writes moves, and only marks the others.
LEMMA WritesFact ==
  ASSUME TxnTypeOK, NEW w \in Workers, NEW r \in Worker, NEW d \in Disks, Writes(w, d, r)
  PROVE  /\ disk' \in Disks /\ work' \in [Workers -> Worker] /\ work'[w] = r
         /\ \A v \in Workers \ {w} : SameWorker(work'[v], work[v])
<1>1. Differ(d) \in SUBSET Paths
  BY DEF Differ
<1>2. ASSUME NEW v \in Workers \ {w} PROVE work'[v] \in Worker /\ SameWorker(work'[v], work[v])
  BY <1>1, MarkedFact DEF Writes, TxnTypeOK
<1>3. work'[w] = r /\ work' = [v \in Workers |-> work'[v]]
  BY DEF Writes
<1>4. \A v \in Workers : work'[v] \in Worker
  BY <1>2, <1>3
<1> QED
  BY <1>2, <1>3, <1>4 DEF Writes

\* The life of the change sets, as Life sees it.
LifeStatus == [x \in Sets |-> row[x].status]

\* The sets that can be undone.
LifeWindow == {x \in Sets : row[x].status = "applied" /\ row[x].open}

\* The sets being written after a yes.
LifeCarrying == {x \in Sets : \E w \in Workers : Carries(w, x)}

\* The sets being undone after a yes.
LifeTaking == {x \in Sets : \E w \in Workers : TakesBack(w, x)}

\* A step of the life, or none.
LifeStep == Life!LifeNext \/ UNCHANGED <<LifeStatus, LifeWindow, LifeCarrying, LifeTaking>>

\* Two workers past their plan are never on the same set: the gate holds one of each kind, and a set that Execute
\* carries out is not one that Rollback takes back.
LEMMA AloneOnSet ==
  ASSUME TxnInv, NEW w \in Workers, NEW v \in Workers, w # v, Planned(work[w]), Planned(work[v])
  PROVE  work[w].set # work[v].set
<1> SUFFICES ASSUME work[w].set = work[v].set PROVE FALSE
  OBVIOUS
<1>1. work[w] \in Worker /\ work[v] \in Worker /\ WorkerFits(work[w]) /\ WorkerFits(work[v])
  BY DEF TxnInv, TxnTypeOK
<1>2. work[w].kind # work[v].kind
  BY DEF TxnInv, OneWorkerEach, Planned
<1>3. PICK x \in Sets : x = work[w].set /\ RowFits(x)
  BY <1>1 DEF TxnInv, Worker
<1>4. ASSUME NEW k \in Worker, Planned(k), k.set = x, WorkerFits(k), k.kind = "execute"
      PROVE  row[x].status \in {"pending", "approved"}
  <2>1. k.pc = "asking" \/ k.pc \in Carrying
    BY <1>4 DEF Planned, Worker, Carrying
  <2> QED
    BY <1>4, <2>1 DEF WorkerFits
<1>5. ASSUME NEW k \in Worker, Planned(k), k.set = x, WorkerFits(k), k.kind = "rollback"
      PROVE  row[x].status = "applied" \/ row[x].status = "none"
  <2>1. k.pc \in {"asking", "apply", "journal"}
    BY <1>5 DEF Planned, WorkerFits
  <2> QED
    BY <1>3, <1>5, <2>1 DEF WorkerFits, RowFits
<1>6. work[w].kind \in {"execute", "rollback"} /\ work[v].kind \in {"execute", "rollback"}
  BY <1>1 DEF Worker
<1> QED
  BY <1>1, <1>2, <1>3, <1>4, <1>5, <1>6

\* A step of one worker that touches no change set but its own, on which no other worker
\* has planned anything.
LEMMA SetMoves ==
  ASSUME TxnInv, TxnTypeOK', NEW w \in Workers, NEW x \in Sets, x = work[w].set, work[w].pc # "idle",
         \A v \in Workers \ {w} : SameWorker(work'[v], work[v]) /\ (Planned(work[v]) => work[v].set # x),
         \A y \in Sets \ {x} : SetKept(y),
         UNCHANGED <<cleaner, doomed>>,
         \/ work'[w].pc = "idle" /\ inflight' = inflight \ {<<x, work[w].kind>>}
         \/ work'[w].pc # "idle" /\ work'[w].set = x /\ work'[w].kind = work[w].kind /\ inflight' = inflight,
         WorkerFits(work[w])', RowFits(x)', CleanersFit(x)',
         row'[x].status = "approved" => x \in hist'.lapsed \/ Carries(w, x)'
  PROVE  /\ TxnInv'
         /\ LifeStatus' = [LifeStatus EXCEPT ![x] = row'[x].status]
         /\ LifeWindow' = IF row'[x].status = "applied" /\ row'[x].open THEN LifeWindow \cup {x} ELSE LifeWindow \ {x}
         /\ LifeCarrying' = IF Carries(w, x)' THEN LifeCarrying \cup {x} ELSE LifeCarrying \ {x}
         /\ LifeTaking' = IF TakesBack(w, x)' THEN LifeTaking \cup {x} ELSE LifeTaking \ {x}
         /\ x \in LifeCarrying <=> Carries(w, x)
         /\ x \in LifeTaking <=> TakesBack(w, x)
<1>1. \A v \in Workers : work[v] \in Worker /\ work'[v] \in Worker /\ WorkerFits(work[v])
  BY DEF TxnInv, TxnTypeOK
<1>2. OneWorkerEach'
  <2> SUFFICES ASSUME NEW u \in Workers, NEW v \in Workers, work'[u].pc # "idle", work'[v].pc # "idle",
                      work'[u].set = work'[v].set, work'[u].kind = work'[v].kind
               PROVE  u = v
    BY DEF OneWorkerEach
  <2>1. \A z \in Workers : work'[z].pc # "idle" => work[z].pc # "idle" /\ work'[z].set = work[z].set /\ work'[z].kind = work[z].kind
    BY DEF SameWorker
  <2> QED
    BY <2>1 DEF TxnInv, OneWorkerEach
<1>3. ASSUME NEW v \in Workers PROVE WorkerFits(work[v])'
  <2>1. CASE v = w
    BY <2>1
  <2>2. CASE v # w
    <3>1. /\ work'[v].pc = work[v].pc /\ work'[v].kind = work[v].kind /\ work'[v].set = work[v].set /\ work'[v].i = work[v].i
          /\ work'[v].rec = work[v].rec /\ work[v].set \in Sets
      BY <1>1, <2>2 DEF SameWorker, Worker
    <3>2. work[v].pc # "idle" => <<work[v].set, work[v].kind>> \in inflight'
      <4>1. work[v].pc # "idle" => <<work[v].set, work[v].kind>> \in inflight /\ <<work[v].set, work[v].kind>> # <<x, work[w].kind>>
        BY <1>1, <2>2 DEF WorkerFits, TxnInv, OneWorkerEach
      <4> QED
        BY <4>1
    <3>3. CASE Planned(work[v])
      <4>1. SetKept(work[v].set)
        BY <2>2, <3>1, <3>3
      <4> QED
        BY <1>1, <3>1, <3>2, <4>1 DEF WorkerFits, SetKept
    <3>4. CASE ~Planned(work[v])
      BY <1>1, <3>1, <3>2, <3>4 DEF WorkerFits, Planned, Carrying, Copying
    <3> QED
      BY <3>3, <3>4
  <2> QED
    BY <2>1, <2>2
<1>4. ASSUME NEW y \in Sets PROVE RowFits(y)' /\ CleanersFit(y)'
  <2>1. CASE y = x
    BY <2>1
  <2>2. CASE y # x
    BY <2>2 DEF TxnInv, RowFits, CleanersFit, SetKept, CopyOutlivesWindow
  <2> QED
    BY <2>1, <2>2
<1>5. ASSUME NEW v \in Workers \ {w}, NEW y \in Sets
      PROVE  /\ Carries(v, y)' <=> Carries(v, y) /\ y # x
             /\ TakesBack(v, y)' <=> TakesBack(v, y) /\ y # x
             /\ ~Carries(v, x) /\ ~TakesBack(v, x)
  BY DEF Carries, TakesBack, SameWorker, Planned
<1>6. ASSUME NEW y \in Sets, y # x
      PROVE  ~Carries(w, y) /\ ~TakesBack(w, y) /\ ~Carries(w, y)' /\ ~TakesBack(w, y)'
  BY <1>6 DEF Carries, TakesBack
<1>7. ApprovedIsCarriedOut'
  <2> SUFFICES ASSUME NEW y \in Sets, row'[y].status = "approved"
               PROVE  y \in hist'.lapsed \/ \E v \in Workers : Carries(v, y)'
    BY DEF ApprovedIsCarriedOut, Carries
  <2>1. CASE y = x
    BY <2>1
  <2>2. CASE y # x
    <3>1. y \in hist.lapsed \/ \E v \in Workers : Carries(v, y)
      BY <2>2 DEF TxnInv, ApprovedIsCarriedOut, Carries, SetKept
    <3> QED
      BY <2>2, <3>1, <1>5, <1>6 DEF SetKept
  <2> QED
    BY <2>1, <2>2
<1>8. TxnInv'
  BY <1>2, <1>3, <1>4, <1>7 DEF TxnInv
<1>9. LifeStatus' = [LifeStatus EXCEPT ![x] = row'[x].status]
  BY DEF LifeStatus, SetKept
<1>10. LifeWindow' = IF row'[x].status = "applied" /\ row'[x].open THEN LifeWindow \cup {x} ELSE LifeWindow \ {x}
  BY DEF LifeWindow, SetKept
<1>11. LifeCarrying' = IF Carries(w, x)' THEN LifeCarrying \cup {x} ELSE LifeCarrying \ {x}
  BY <1>5, <1>6 DEF LifeCarrying
<1>12. LifeTaking' = IF TakesBack(w, x)' THEN LifeTaking \cup {x} ELSE LifeTaking \ {x}
  BY <1>5, <1>6 DEF LifeTaking
<1>13. (x \in LifeCarrying <=> Carries(w, x)) /\ (x \in LifeTaking <=> TakesBack(w, x))
  BY <1>5 DEF LifeCarrying, LifeTaking
<1> QED
  BY <1>8, <1>9, <1>10, <1>11, <1>12, <1>13

\* One worker comes or goes without having been seen: nothing else changes.
LEMMA QuietMoves ==
  ASSUME TxnInv, NEW w \in Workers, NEW k \in Worker, Moves(w, k),
         UNCHANGED <<disk, row, copies, cleaner, doomed, hist>>,
         inflight' \in SUBSET (Sets \X {"execute", "rollback"}),
         \A y \in Sets : ~Carries(w, y) /\ ~TakesBack(w, y),
         k.pc \in {"idle", "claimed"},
         k.rec.open => k.rec.loc,
         k.kind = "execute" => ~k.rec.open /\ (k.pc # "idle" => k.rec.ops \in OpLists),
         k.pc # "idle" => /\ <<k.set, k.kind>> \in inflight'
                          /\ \A v \in Workers \ {w} : work[v].pc # "idle" => work[v].set # k.set \/ work[v].kind # k.kind,
         \A v \in Workers \ {w} : work[v].pc # "idle" => <<work[v].set, work[v].kind>> \in inflight'
  PROVE  TxnInv' /\ LifeStep
<1>1. work' \in [Workers -> Worker] /\ work'[w] = k /\ \A v \in Workers \ {w} : work'[v] = work[v]
  BY MoveFact DEF TxnInv
<1>2. TxnTypeOK'
  BY <1>1 DEF TxnInv, TxnTypeOK
<1>3. OneWorkerEach'
  BY <1>1 DEF TxnInv, OneWorkerEach
<1>4. ASSUME NEW v \in Workers PROVE WorkerFits(work[v])'
  <2>1. CASE v = w
    BY <1>1, <2>1 DEF WorkerFits, Carrying, Copying
  <2>2. CASE v # w
    BY <1>1, <2>2 DEF TxnInv, WorkerFits
  <2> QED
    BY <2>1, <2>2
<1>5. \A y \in Sets : RowFits(y)' /\ CleanersFit(y)'
  BY DEF TxnInv, RowFits, CleanersFit, CopyOutlivesWindow
<1>6. \A v \in Workers, y \in Sets : (Carries(v, y)' <=> Carries(v, y)) /\ (TakesBack(v, y)' <=> TakesBack(v, y))
  BY <1>1 DEF Carries, TakesBack
<1>7. ApprovedIsCarriedOut'
  BY <1>6 DEF TxnInv, ApprovedIsCarriedOut, Carries
<1>8. UNCHANGED <<LifeStatus, LifeWindow, LifeCarrying, LifeTaking>>
  BY <1>6 DEF LifeStatus, LifeWindow, LifeCarrying, LifeTaking
<1> QED
  BY <1>2, <1>3, <1>4, <1>5, <1>7, <1>8 DEF TxnInv, LifeStep

\* A worker that wrote nothing yet leaves: the gate opens, no row changes.
LEMMA Leaves ==
  ASSUME TxnInv, NEW w \in Workers, work[w].pc # "idle", Release(w),
         UNCHANGED <<disk, row, copies, cleaner, doomed, hist>>,
         \A y \in Sets : ~Carries(w, y) /\ ~TakesBack(w, y)
  PROVE  TxnInv' /\ LifeStep
<1>1. \A v \in Workers \ {w} : work[v].pc # "idle" => <<work[v].set, work[v].kind>> \in inflight'
  <2> SUFFICES ASSUME NEW v \in Workers \ {w}, work[v].pc # "idle"
               PROVE  <<work[v].set, work[v].kind>> \in inflight'
    OBVIOUS
  <2>1. <<work[v].set, work[v].kind>> \in inflight
    BY DEF TxnInv, WorkerFits
  <2>2. work[v].set # work[w].set \/ work[v].kind # work[w].kind
    BY DEF TxnInv, OneWorkerEach
  <2> QED
    BY <2>1, <2>2 DEF Release
<1>2. inflight' \in SUBSET (Sets \X {"execute", "rollback"})
  BY DEF TxnInv, TxnTypeOK, Release
<1>3. Moves(w, Idle)
  BY DEF Release
<1>4. PICK k : k = Idle
  OBVIOUS
<1> QED
  BY <1>1, <1>2, <1>3, <1>4, RestTypes, QuietMoves

\* The goroutine of a call that came through claim.
Claimer(kind, x, ops) ==
  [Idle EXCEPT !.pc = "claimed", !.kind = kind, !.set = x, !.rec.ops = ops]

\* What claim hands its caller is a worker.
LEMMA ClaimFact ==
  ASSUME NEW kind \in {"execute", "rollback"}, NEW x \in Sets, NEW ops \in OpLists \cup {<<>>},
         NEW k, k = Claimer(kind, x, ops)
  PROVE  k \in Worker /\ k.pc = "claimed" /\ k.kind = kind /\ k.set = x /\ ~k.rec.open /\ k.rec.ops = ops
<1>1. PICK r : r = [NoRow EXCEPT !.ops = ops]
  OBVIOUS
<1>2. r \in Row /\ r.ops = ops /\ ~r.open
  BY <1>1, RestTypes DEF Row
<1>3. k = [Idle EXCEPT !.pc = "claimed", !.kind = kind, !.set = x, !.rec = r]
  BY <1>1, RestTypes DEF Worker, Claimer
<1> QED
  BY <1>2, <1>3, RestTypes DEF Worker

\* claim keeps the invariant: it refuses an id that is taken.
LEMMA ClaimMoves ==
  ASSUME TxnInv, NEW w \in Workers, NEW kind \in {"execute", "rollback"}, NEW x \in Sets, NEW ops \in OpLists \cup {<<>>},
         kind = "execute" => ops \in OpLists, Claim(w, kind, x, ops)
  PROVE  TxnInv' /\ LifeStep
<1>1. PICK k : k = Claimer(kind, x, ops)
  OBVIOUS
<1>2. k \in Worker /\ k.pc = "claimed" /\ k.kind = kind /\ k.set = x /\ ~k.rec.open /\ k.rec.ops = ops
  BY <1>1, ClaimFact
<1>3. Moves(w, k) /\ inflight' = inflight \cup {<<x, kind>>} /\ <<x, kind>> \notin inflight /\ work[w].pc = "idle"
  BY <1>1 DEF Claim, Claimer
<1>4. \A v \in Workers : work[v].pc # "idle" => <<work[v].set, work[v].kind>> \in inflight
  BY DEF TxnInv, WorkerFits
<1>5. \A v \in Workers \ {w} : work[v].pc # "idle" => work[v].set # k.set \/ work[v].kind # k.kind
  BY <1>2, <1>3, <1>4
<1>6. \A y \in Sets : ~Carries(w, y) /\ ~TakesBack(w, y)
  BY <1>3 DEF Carries, TakesBack
<1>7. inflight' \in SUBSET (Sets \X {"execute", "rollback"})
  BY <1>3 DEF TxnInv, TxnTypeOK
<1>8. UNCHANGED <<disk, row, copies, cleaner, doomed, hist>>
  BY DEF Claim
<1> QED
  BY <1>2, <1>3, <1>4, <1>5, <1>6, <1>7, <1>8, QuietMoves

\* A worker with a plan goes on: the row, the copy and the gate stay as they are.
LEMMA GoesOn ==
  ASSUME TxnInv, TxnTypeOK', NEW w \in Workers, NEW x \in Sets, x = work[w].set, work[w].pc # "idle",
         \A v \in Workers \ {w} : SameWorker(work'[v], work[v]) /\ (Planned(work[v]) => work[v].set # x),
         UNCHANGED <<row, copies, inflight, cleaner, doomed>>,
         hist' = hist \/ (hist' = [hist EXCEPT !.begun = @ \cup {x}] /\ At(w, "execute", "checked")),
         work'[w].pc # "idle", work'[w].set = x, work'[w].kind = work[w].kind,
         WorkerFits(work[w])',
         Carries(w, x)' <=> Carries(w, x), TakesBack(w, x) => TakesBack(w, x)',
         TakesBack(w, x)' => TakesBack(w, x) \/ row[x].status \in {"applied", "none"}
  PROVE  TxnInv' /\ LifeStep
<1>1. work[w] \in Worker /\ WorkerFits(work[w]) /\ RowFits(x) /\ CleanersFit(x)
  BY DEF TxnInv, TxnTypeOK
<1>3. hist'.lapsed = hist.lapsed /\ hist'.robbed = hist.robbed /\ hist'.cleared = hist.cleared /\ hist'.begun \subseteq hist.begun \cup {x} /\ hist.begun \subseteq hist'.begun
  BY DEF TxnInv, TxnTypeOK
<1>4. \A y \in Sets \ {x} : SetKept(y)
  BY <1>3 DEF SetKept
<1>5. RowFits(x)'
  <2>1. x \in hist'.begun => row[x].status \in {"approved"} \cup Terminal
    BY <1>1, <1>3 DEF RowFits, WorkerFits, At, Carrying
  <2> QED
    BY <1>1, <1>3, <2>1 DEF RowFits, CopyOutlivesWindow
<1>6. CleanersFit(x)'
  BY <1>1, <1>3 DEF CleanersFit
<1>7. row'[x].status = "approved" => x \in hist'.lapsed \/ Carries(w, x)'
  <2> SUFFICES ASSUME row[x].status = "approved", x \notin hist.lapsed PROVE Carries(w, x)
    BY <1>3
  <2>1. PICK v \in Workers : Carries(v, x)
    BY DEF TxnInv, ApprovedIsCarriedOut, Carries
  <2>2. v = w
    BY <2>1 DEF Carries, Planned
  <2> QED
    BY <2>1, <2>2
<1>8. /\ TxnInv'
      /\ LifeStatus' = [LifeStatus EXCEPT ![x] = row'[x].status]
      /\ LifeWindow' = IF row'[x].status = "applied" /\ row'[x].open THEN LifeWindow \cup {x} ELSE LifeWindow \ {x}
      /\ LifeCarrying' = IF Carries(w, x)' THEN LifeCarrying \cup {x} ELSE LifeCarrying \ {x}
      /\ LifeTaking' = IF TakesBack(w, x)' THEN LifeTaking \cup {x} ELSE LifeTaking \ {x}
      /\ x \in LifeCarrying <=> Carries(w, x)
      /\ x \in LifeTaking <=> TakesBack(w, x)
  BY <1>4, <1>5, <1>6, <1>7, SetMoves
<1>9. LifeStatus' = LifeStatus /\ LifeWindow' = LifeWindow /\ LifeCarrying' = LifeCarrying
  BY <1>8 DEF LifeStatus, LifeWindow
<1>10. CASE TakesBack(w, x)' <=> TakesBack(w, x)
  BY <1>8, <1>9, <1>10 DEF LifeStep
<1>11. CASE TakesBack(w, x)' /\ ~TakesBack(w, x)
  <2>1. LifeTaking' = LifeTaking \cup {x} /\ x \notin LifeTaking /\ LifeStatus[x] \in {"applied", "none"}
    BY <1>8, <1>11 DEF LifeStatus
  <2>2. Life!ConfirmUndo(x)
    BY <1>9, <2>1 DEF Life!ConfirmUndo, LifeStatus, LifeWindow, LifeCarrying, LifeTaking
  <2> QED
    BY <1>8, <2>2 DEF LifeStep, Life!LifeNext
<1> QED
  BY <1>10, <1>11

\* A worker writes its verdict, or fails to, and is gone.
LEMMA Finishes ==
  ASSUME TxnInv, NEW w \in Workers, NEW x \in Sets, x = work[w].set, work[w].pc # "idle",
         \A v \in Workers \ {w} : Planned(work[v]) => work[v].set # x,
         NEW d \in Disks, NEW r \in Row,
         (Update(x, r) /\ UNCHANGED hist) \/ UpdateFails(x), Release(w),
         copies' = copies \/ (copies' = [copies EXCEPT ![x] = d] /\ row[x].status = "approved" /\ r.status = "failed"),
         UNCHANGED <<disk, cleaner, doomed>>,
         r.ops \in OpLists, r.open => r.loc,
         \/ row[x].status = "pending" /\ r.status \in {"denied", "failed"} /\ ~r.open /\ ~Carries(w, x) /\ ~TakesBack(w, x)
         \/ /\ row[x].status = "approved" /\ Carries(w, x) /\ ~TakesBack(w, x)
            /\ \/ r.status = "failed" /\ ~r.open
               \/ r.status = "applied" /\ r.open /\ (x \notin hist.robbed => CopiesServe(r.ops, copies[x]))
         \/ /\ row[x].status = "applied" \/ x \in hist.cleared
            /\ TakesBack(w, x) /\ ~Carries(w, x) /\ r.status \in {"rolled_back", "failed"}
  PROVE  TxnInv' /\ LifeStep
<1>1. RowFits(x) /\ CleanersFit(x) /\ TxnTypeOK
  BY DEF TxnInv
<1>2. work' \in [Workers -> Worker] /\ work'[w] = Idle /\ \A v \in Workers \ {w} : work'[v] = work[v]
  BY <1>1, RestTypes, MoveFact DEF Release
<1>3. inflight' = inflight \ {<<x, work[w].kind>>}
  BY DEF Release
<1>4. /\ row' = IF hist' = hist /\ row[x].status # "none" /\ row' # row THEN [row EXCEPT ![x] = r] ELSE row
      /\ row' \in [Sets -> Row]
  BY <1>1 DEF Update, UpdateFails, TxnTypeOK
<1>5. /\ hist' \in [begun : SUBSET Sets, lapsed : SUBSET Sets, robbed : SUBSET Sets, cleared : SUBSET Sets]
      /\ hist'.begun = hist.begun /\ hist'.robbed = hist.robbed /\ hist'.cleared = hist.cleared
      /\ \A y \in Sets \ {x} : y \in hist'.lapsed <=> y \in hist.lapsed
  <2>1. CASE UNCHANGED hist
    BY <1>1, <2>1 DEF TxnTypeOK
  <2>2. CASE UpdateFails(x)
    <3>1. PICK l \in SUBSET Sets : l = IF row[x].status = "approved" THEN hist.lapsed \cup {x} ELSE hist.lapsed
      BY <1>1 DEF TxnTypeOK
    <3>2. hist' = [hist EXCEPT !.lapsed = l]
      BY <2>2, <3>1 DEF UpdateFails
    <3> QED
      BY <1>1, <3>1, <3>2 DEF TxnTypeOK
  <2> QED
    BY <2>1, <2>2
<1>6. copies' \in [Sets -> Disks] /\ \A y \in Sets \ {x} : copies'[y] = copies[y]
  BY <1>1 DEF TxnTypeOK
<1>7. TxnTypeOK'
  BY <1>1, <1>2, <1>3, <1>4, <1>5, <1>6 DEF TxnTypeOK
<1>8. \A y \in Sets \ {x} : SetKept(y)
  BY <1>1, <1>4, <1>5, <1>6 DEF SetKept, TxnTypeOK
<1>9. WorkerFits(work[w])'
  BY <1>2, RestTypes DEF WorkerFits, Carrying, Copying
<1>10. /\ row'[x] = row[x] \/ (row'[x] = r /\ row[x].status # "none")
       /\ row'[x].status = "approved" /\ row'[x] = row[x] => x \in hist'.lapsed \/ row[x] = r
  BY <1>1 DEF TxnTypeOK, Update, UpdateFails
<1>11. RowFits(x)'
  <2>1. CASE row'[x] = row[x]
    <3>1. row[x].status = "applied" => copies'[x] = copies[x]
      OBVIOUS
    <3> QED
      BY <1>1, <1>5, <2>1, <3>1 DEF RowFits, CopyOutlivesWindow
  <2>2. CASE row'[x] = r /\ row[x].status # "none"
    <3>1. r.status \in Terminal /\ (r.open => r.status \in Opened)
      BY DEF Terminal, Opened
    <3>2. x \notin hist.cleared
      BY <1>1, <2>2 DEF RowFits
    <3>3. x \notin hist.robbed => CopyOutlivesWindow(x)'
      BY <2>2 DEF CopyOutlivesWindow, CopiesServe
    <3> QED
      BY <1>5, <2>2, <3>1, <3>2, <3>3 DEF RowFits
  <2> QED
    BY <1>10, <2>1, <2>2
<1>12. CleanersFit(x)'
  <2>1. CASE row'[x] = row[x]
    BY <1>1, <1>5, <2>1 DEF CleanersFit
  <2>2. CASE row'[x] = r /\ row[x].status # "none"
    <3>1. x \notin hist.cleared
      BY <1>1, <2>2 DEF RowFits
    <3>2. CASE row[x].status \in {"pending", "approved"}
      <4>1. cleaner.kept[x] = NoRow /\ ~(x \in cleaner.victim /\ ~cleaner.early) /\ x \notin doomed
        BY <1>1, <3>1, <3>2 DEF CleanersFit, Opened, Terminal
      <4> QED
        BY <4>1 DEF CleanersFit
    <3>3. CASE row[x].status = "applied" /\ r.status \in {"rolled_back", "failed"}
      <4>1. r.status \in Opened /\ r.status \in Terminal /\ r.status # "applied"
        BY <3>3 DEF Opened, Terminal
      <4>2. cleaner.kept[x] # NoRow => cleaner.kept[x].status = "applied" /\ cleaner.kept[x].ops \in OpLists
        BY <1>1, <3>1, <3>3 DEF CleanersFit
      <4> QED
        BY <1>1, <1>5, <2>2, <3>1, <4>1, <4>2 DEF CleanersFit, Opened
    <3> QED
      BY <3>1, <3>2, <3>3
  <2> QED
    BY <1>10, <2>1, <2>2
<1>13. ~Carries(w, x)' /\ ~TakesBack(w, x)'
  BY <1>2, RestTypes DEF Carries, TakesBack
<1>14. row'[x].status = "approved" => x \in hist'.lapsed \/ Carries(w, x)'
  <2> SUFFICES ASSUME row'[x].status = "approved", x \notin hist'.lapsed PROVE FALSE
    OBVIOUS
  <2> QED
    BY <1>10
<1>15. /\ TxnInv'
       /\ LifeStatus' = [LifeStatus EXCEPT ![x] = row'[x].status]
       /\ LifeWindow' = IF row'[x].status = "applied" /\ row'[x].open THEN LifeWindow \cup {x} ELSE LifeWindow \ {x}
       /\ LifeCarrying' = LifeCarrying \ {x} /\ LifeTaking' = LifeTaking \ {x}
       /\ x \in LifeCarrying <=> Carries(w, x)
       /\ x \in LifeTaking <=> TakesBack(w, x)
  <2>1. \A v \in Workers \ {w} : SameWorker(work'[v], work[v]) /\ (Planned(work[v]) => work[v].set # x)
    BY <1>2 DEF SameWorker
  <2>2. work'[w].pc = "idle"
    BY <1>2, RestTypes
  <2> QED
    BY <1>3, <1>7, <1>8, <1>9, <1>11, <1>12, <1>13, <1>14, <2>1, <2>2, SetMoves
<1>16. LifeStatus[x] = row[x].status /\ (x \in LifeWindow <=> row[x].status = "applied" /\ row[x].open)
  BY DEF LifeStatus, LifeWindow
<1>17. row'[x] = row[x] => LifeStatus' = LifeStatus /\ LifeWindow' = LifeWindow
  BY <1>15, <1>16 DEF LifeStatus
<1>18. CASE row[x].status = "pending" /\ r.status \in {"denied", "failed"} /\ ~Carries(w, x) /\ ~TakesBack(w, x)
  <2>1. LifeCarrying' = LifeCarrying /\ LifeTaking' = LifeTaking /\ LifeWindow' = LifeWindow
    BY <1>10, <1>15, <1>16, <1>18
  <2>2. CASE row'[x] = row[x]
    BY <1>15, <1>17, <2>1, <2>2 DEF LifeStep
  <2>3. CASE row'[x] = r
    <3>1. Life!Refuse(x)
      BY <1>15, <1>16, <1>18, <2>1, <2>3 DEF Life!Refuse, Life!Becomes, LifeStatus, LifeWindow, LifeCarrying, LifeTaking
    <3> QED
      BY <1>15, <3>1 DEF LifeStep, Life!LifeNext
  <2> QED
    BY <1>10, <2>2, <2>3
<1>19. CASE row[x].status = "approved" /\ Carries(w, x) /\ ~TakesBack(w, x) /\ (r.status = "failed" \/ (r.status = "applied" /\ r.open))
  <2>1. LifeTaking' = LifeTaking /\ x \in LifeCarrying
    BY <1>15, <1>19
  <2>2. \/ LifeStatus' = LifeStatus /\ LifeWindow' = LifeWindow
        \/ LifeStatus' = [LifeStatus EXCEPT ![x] = "applied"] /\ LifeWindow' = LifeWindow \cup {x}
        \/ LifeStatus' = [LifeStatus EXCEPT ![x] = "failed"] /\ LifeWindow' = LifeWindow
    BY <1>10, <1>15, <1>16, <1>17, <1>19
  <2>3. Life!Carried(x)
    BY <1>15, <1>16, <1>19, <2>1, <2>2 DEF Life!Carried, Life!Becomes, LifeStatus, LifeWindow, LifeCarrying, LifeTaking
  <2> QED
    BY <1>15, <2>3 DEF LifeStep, Life!LifeNext
<1>20. CASE (row[x].status = "applied" \/ x \in hist.cleared) /\ TakesBack(w, x) /\ ~Carries(w, x) /\ r.status \in {"rolled_back", "failed"}
  <2>1. LifeCarrying' = LifeCarrying /\ x \in LifeTaking
    BY <1>15, <1>20
  <2>2. \/ LifeStatus' = LifeStatus /\ LifeWindow' = LifeWindow
        \/ /\ row[x].status = "applied" /\ \E s \in {"rolled_back", "failed"} : LifeStatus' = [LifeStatus EXCEPT ![x] = s]
           /\ LifeWindow' = LifeWindow \ {x}
    <3>1. row[x].status # "none" => row[x].status = "applied"
      BY <1>1, <1>20 DEF RowFits
    <3> QED
      BY <1>10, <1>15, <1>16, <1>17, <1>20, <3>1
  <2>3. Life!TakenBack(x)
    BY <1>15, <1>16, <1>20, <2>1, <2>2 DEF Life!TakenBack, Life!Becomes, LifeStatus, LifeWindow, LifeCarrying, LifeTaking
  <2> QED
    BY <1>15, <2>3 DEF LifeStep, Life!LifeNext
<1>21. \/ row[x].status = "pending" /\ r.status \in {"denied", "failed"} /\ ~Carries(w, x) /\ ~TakesBack(w, x)
       \/ row[x].status = "approved" /\ Carries(w, x) /\ ~TakesBack(w, x) /\ (r.status = "failed" \/ (r.status = "applied" /\ r.open))
       \/ (row[x].status = "applied" \/ x \in hist.cleared) /\ TakesBack(w, x) /\ ~Carries(w, x) /\ r.status \in {"rolled_back", "failed"}
  OBVIOUS
<1> QED
  BY <1>18, <1>19, <1>20, <1>21

\* A caller's operations.
LEMMA OpsFact ==
  ASSUME NEW ops \in OpLists
  PROVE  /\ ops \in Seq(Operations) /\ Len(ops) \in Nat /\ Len(ops) >= 1 /\ DOMAIN ops = 1..Len(ops)
         /\ \A i \in DOMAIN ops : ops[i] \in Operations
<1>1. ops \in Seq(Operations) /\ ops # <<>>
  BY TxnAssumption
<1> QED
  BY <1>1

\* What a file system call leaves is a disk.
LEMMA ApplyTypes ==
  ASSUME NEW op \in Operations, NEW old \in Disks, NEW d \in Disks, NEW e \in ApplyOp(op, old, d)
  PROVE  e \in Disks
<1>1. op.path \in Paths /\ op.to \in Paths /\ op.content \in Values /\ Absent \in Values /\ op.type \in {"create", "update", "move", "delete"}
  BY DEF Operations, Values
<1>2. CASE op.type \in {"create", "update"}
  BY <1>1, <1>2 DEF ApplyOp, AtomicWrite, Disks
<1>3. CASE op.type = "move"
  BY <1>1, <1>3 DEF ApplyOp, Rename, Disks
<1>4. CASE op.type = "delete"
  BY <1>1, <1>4 DEF ApplyOp, Remove, Disks
<1> QED
  BY <1>1, <1>2, <1>3, <1>4

\* Taking an operation back leaves a disk.
LEMMA ReverseTypes ==
  ASSUME NEW op \in Operations, NEW old \in Disks, NEW copy \in Disks, NEW d \in Disks, NEW e \in ReverseOp(op, old, copy, d)
  PROVE  e \in Disks
<1>1. op.path \in Paths /\ op.to \in Paths /\ Absent \in Values /\ op.type \in {"create", "update", "move", "delete"}
  BY DEF Operations, Values
<1>2. old[op.path] \in Values /\ copy[op.path] \in Values /\ Trees \subseteq Values
  BY <1>1 DEF Disks, Values
<1>3. CASE op.type = "create"
  BY <1>1, <1>3 DEF ReverseOp, Remove, Disks
<1>4. CASE op.type = "update"
  BY <1>1, <1>2, <1>4 DEF ReverseOp, AtomicWrite, Disks
<1>5. CASE op.type = "move"
  BY <1>1, <1>5 DEF ReverseOp, Rename, Disks
<1>6. CASE op.type = "delete" /\ old[op.path] \in Trees
  BY <1>1, <1>2, <1>6 DEF ReverseOp, CopyTree, Disks
<1>7. CASE op.type = "delete" /\ old[op.path] \notin Trees
  BY <1>1, <1>2, <1>7 DEF ReverseOp, AtomicWrite, Disks
<1> QED
  BY <1>1, <1>3, <1>4, <1>5, <1>6, <1>7

\* The copies of step 10 are the values that were on the disk, and serve the set they were made for.
LEMMA CopyTypes ==
  ASSUME NEW ops, NEW d \in Disks
  PROVE  Remembered(ops, d) \in Disks /\ Copied(ops, d) \in Disks
BY DEF Remembered, Copied, Disks, Values

\* The copies of step 10 serve the operations they were made for.
LEMMA CopiedServes ==
  ASSUME NEW ops \in OpLists, NEW old \in Disks, NEW d \in Disks,
         \A i \in DOMAIN ops : CanCopy(ops[i], old, d)
  PROVE  CopiesServe(ops, Copied(ops, d))
<1> SUFFICES ASSUME NEW i \in DOMAIN ops, ops[i].type \in {"update", "delete"}
             PROVE  Copied(ops, d)[ops[i].path] # Absent
  BY DEF CopiesServe
<1>1. ops[i].path \in Paths
  BY OpsFact DEF Operations
<1>2. Copied(ops, d)[ops[i].path] = d[ops[i].path]
  BY <1>1 DEF Copied
<1> QED
  BY <1>2, FileOpsAssumption DEF CanCopy

\* A set that may be taken up has nobody at work on it.
LEMMA FreshIsAlone ==
  ASSUME TxnInv, NEW w \in Workers, At(w, "execute", "claimed"), Resumable(work[w].set)
  PROVE  \A v \in Workers \ {w} : Planned(work[v]) => work[v].set # work[w].set
<1> SUFFICES ASSUME NEW v \in Workers \ {w}, Planned(work[v]), work[v].set = work[w].set PROVE FALSE
  OBVIOUS
<1>1. work[v] \in Worker /\ WorkerFits(work[v])
  BY DEF TxnInv, TxnTypeOK
<1>2. work[v].kind = "rollback"
  <2>1. work[v].kind # "execute"
    BY DEF TxnInv, OneWorkerEach, Planned, At
  <2> QED
    BY <1>1, <2>1 DEF Worker
<1>3. work[v].pc \in {"asking", "apply", "journal"}
  BY <1>1, <1>2 DEF WorkerFits, Planned
<1>4. row[work[v].set].status = "applied" \/ work[v].set \in hist.cleared
  BY <1>1, <1>2, <1>3 DEF WorkerFits
<1>5. work[v].set \in hist.cleared => row[work[v].set].status = "none"
  BY <1>1 DEF TxnInv, RowFits, Worker
<1> QED
  BY <1>4, <1>5 DEF Resumable

\* CreateChangeSet writes a pending row with no window.
LEMMA CreatedFact ==
  ASSUME NEW ops \in OpLists, NEW r, r = Created(ops)
  PROVE  r \in Row /\ r.status = "pending" /\ r.ops = ops /\ ~r.open /\ ~r.loc
<1>1. "pending" \in Statuses /\ ops \in OpLists \cup {<<>>}
  BY DEF Statuses
<1>2. r = [NoRow EXCEPT !.status = "pending", !.ops = ops]
  BY DEF Created
<1> QED
  BY <1>1, <1>2, RestTypes DEF Row

\* Steps 2 to 8 of Execute: a row is proposed or found pending, and nobody else is on it.
LEMMA PlanExecuteMoves ==
  ASSUME TxnInv, NEW w \in Workers, PlanExecute(w)
  PROVE  TxnInv' /\ LifeStep
<1>1. PICK x \in Sets : x = work[w].set
  BY DEF TxnInv, TxnTypeOK, Worker
<1>2. /\ At(w, "execute", "claimed") /\ work[w].pc = "claimed" /\ work[w].kind = "execute"
      /\ UNCHANGED <<disk, copies, cleaner, doomed>>
  BY DEF PlanExecute, At
<1>3. work[w] \in Worker /\ WorkerFits(work[w]) /\ RowFits(x) /\ CleanersFit(x) /\ TxnTypeOK /\ row[x] \in Row /\ disk \in Disks
  BY DEF TxnInv, TxnTypeOK
<1>4. Ops(w) \in OpLists
  BY <1>2, <1>3 DEF WorkerFits, Ops
<1>5. \A y \in Sets : ~Carries(w, y) /\ ~TakesBack(w, y)
  BY <1>2 DEF Carries, TakesBack
<1>6. CASE Release(w) /\ UNCHANGED <<row, hist>>
  BY <1>2, <1>5, <1>6, Leaves
<1>7. CASE Resumable(x) /\ row[x].status = "pending" /\ Finish(w, Ended(row[x], "failed"))
  <2>1. PICK r : r = Ended(row[x], "failed")
    OBVIOUS
  <2>2. "failed" \in Statuses /\ row[x].ops \in OpLists /\ ~row[x].open
    BY <1>3, <1>7 DEF RowFits, Opened, Statuses, Terminal
  <2>3. r \in Row /\ r.status = "failed" /\ r.ops \in OpLists /\ ~r.open
    BY <1>3, <2>1, <2>2, EndedFact
  <2>4. ((Update(x, r) /\ UNCHANGED hist) \/ UpdateFails(x)) /\ Release(w)
    BY <1>1, <1>7, <2>1 DEF Finish
  <2>5. \A v \in Workers \ {w} : Planned(work[v]) => work[v].set # x
    BY <1>1, <1>2, <1>7, FreshIsAlone
  <2> QED
    BY <1>1, <1>2, <1>3, <1>5, <1>7, <2>3, <2>4, <2>5, Finishes
<1>8. ASSUME Resumable(x), row[x].status = "pending" => row[x].ops = Ops(w),
             NEW rec, rec = (IF row[x].status = "pending" THEN row[x] ELSE Created(Ops(w))),
             row' = [row EXCEPT ![x] = rec],
             Moves(w, [work[w] EXCEPT !.pc = "asking", !.rec = rec, !.old = Remembered(Ops(w), disk)]),
             UNCHANGED <<inflight, hist>>
      PROVE  TxnInv' /\ LifeStep
  <2>1. rec \in Row /\ rec.status = "pending" /\ rec.ops = Ops(w) /\ ~rec.open
    <3>1. CASE row[x].status = "pending"
      BY <1>3, <1>8, <3>1 DEF RowFits, Opened
    <3>2. CASE row[x].status # "pending"
      BY <1>4, <1>8, <3>2, CreatedFact
    <3> QED
      BY <3>1, <3>2
  <2>2. PICK k : k = [work[w] EXCEPT !.pc = "asking", !.rec = rec, !.old = Remembered(Ops(w), disk)]
    OBVIOUS
  <2>3. k \in Worker /\ k.pc = "asking" /\ k.rec = rec /\ k.set = x /\ k.kind = "execute"
    BY <1>1, <1>2, <1>3, <2>1, <2>2, CopyTypes DEF Worker
  <2>4. work' \in [Workers -> Worker] /\ work'[w] = k /\ \A v \in Workers \ {w} : work'[v] = work[v]
    BY <1>3, <1>8, <2>2, <2>3, MoveFact
  <2>5. row' \in [Sets -> Row] /\ row'[x] = rec /\ \A y \in Sets \ {x} : row'[y] = row[y]
    BY <1>3, <1>8, <2>1 DEF TxnTypeOK
  <2>6. TxnTypeOK'
    BY <1>2, <1>3, <1>8, <2>4, <2>5 DEF TxnTypeOK
  <2>7. \A v \in Workers \ {w} : SameWorker(work'[v], work[v]) /\ (Planned(work[v]) => work[v].set # x)
    BY <1>1, <1>2, <1>8, <2>4, FreshIsAlone DEF SameWorker
  <2>8. \A y \in Sets \ {x} : SetKept(y)
    BY <1>2, <1>8, <2>5 DEF SetKept
  <2>9. WorkerFits(work[w])'
    BY <1>1, <1>2, <1>3, <1>4, <1>8, <2>1, <2>3, <2>4, <2>5 DEF WorkerFits, Carrying, Copying
  <2>10. x \notin hist.begun /\ x \notin hist.cleared
    BY <1>3, <1>8 DEF RowFits, Resumable, Terminal
  <2>11. RowFits(x)'
    BY <1>4, <1>8, <2>1, <2>5, <2>10 DEF RowFits, CopyOutlivesWindow
  <2>12. CleanersFit(x)'
    <3>1. cleaner.kept[x] = NoRow /\ ~(x \in cleaner.victim /\ ~cleaner.early) /\ x \notin doomed
      BY <1>3, <1>8, <2>10 DEF CleanersFit, Opened, Terminal, Resumable
    <3> QED
      BY <1>2, <3>1 DEF CleanersFit
  <2>13. ~Carries(w, x)' /\ ~TakesBack(w, x)' /\ row'[x].status = "pending" /\ ~row'[x].open
    BY <2>1, <2>3, <2>4, <2>5 DEF Carries, TakesBack
  <2>14. /\ TxnInv'
         /\ LifeStatus' = [LifeStatus EXCEPT ![x] = "pending"] /\ LifeWindow' = LifeWindow \ {x}
         /\ LifeCarrying' = LifeCarrying \ {x} /\ LifeTaking' = LifeTaking \ {x}
         /\ x \notin LifeCarrying /\ x \notin LifeTaking
    <3>1. work'[w].pc # "idle" /\ work'[w].set = x /\ work'[w].kind = work[w].kind /\ work[w].pc # "idle"
      BY <1>2, <2>3, <2>4
    <3> QED
      BY <1>1, <1>2, <1>5, <1>8, <2>6, <2>7, <2>8, <2>9, <2>11, <2>12, <2>13, <3>1, SetMoves
  <2>15. LifeStatus[x] = row[x].status /\ x \notin LifeWindow
    BY <1>8 DEF LifeStatus, LifeWindow, Resumable
  <2>16. LifeWindow' = LifeWindow /\ LifeCarrying' = LifeCarrying /\ LifeTaking' = LifeTaking
    BY <2>14, <2>15
  <2>17. CASE row[x].status = "pending"
    <3>1. LifeStatus' = LifeStatus
      BY <2>14, <2>15, <2>17 DEF LifeStatus
    <3> QED
      BY <2>14, <2>16, <3>1 DEF LifeStep
  <2>18. CASE row[x].status = "none"
    <3>1. Life!Propose(x)
      BY <2>14, <2>15, <2>16, <2>18 DEF Life!Propose, Life!Becomes, LifeStatus, LifeWindow, LifeCarrying, LifeTaking
    <3> QED
      BY <2>14, <3>1 DEF LifeStep, Life!LifeNext
  <2> QED
    BY <1>8, <2>17, <2>18 DEF Resumable
<1> QED
  BY <1>1, <1>6, <1>7, <1>8 DEF PlanExecute

\* Step 9: a no, an error and a yes each write the one status that the life allows.
LEMMA AnsweredMoves ==
  ASSUME TxnInv, NEW w \in Workers, NEW a, Answered(w, a)
  PROVE  TxnInv' /\ LifeStep
<1>1. PICK x \in Sets : x = work[w].set
  BY DEF TxnInv, TxnTypeOK, Worker
<1>2. /\ work[w].pc = "asking" /\ work[w].kind = "execute" /\ Planned(work[w])
      /\ UNCHANGED <<disk, copies, cleaner, doomed>>
  BY DEF Answered, At, Planned
<1>3. work[w] \in Worker /\ WorkerFits(work[w]) /\ RowFits(x) /\ CleanersFit(x) /\ TxnTypeOK /\ row[x] \in Row
  BY DEF TxnInv, TxnTypeOK
<1>4. PICK rec \in Row : rec = work[w].rec
  BY <1>3 DEF Worker
<1>5. rec.ops \in OpLists /\ ~rec.open /\ row[x].status = "pending"
  BY <1>1, <1>2, <1>3, <1>4 DEF WorkerFits
<1>6. \A y \in Sets : ~Carries(w, y) /\ ~TakesBack(w, y)
  BY <1>2 DEF Carries, TakesBack
<1>7. \A v \in Workers \ {w} : Planned(work[v]) => work[v].set # x
  BY <1>1, <1>2, AloneOnSet
<1>8. ASSUME NEW s \in {"denied", "failed"}, Finish(w, Ended(rec, s)) \/ (UpdateFails(x) /\ Release(w))
      PROVE  TxnInv' /\ LifeStep
  <2>1. PICK r : r = Ended(rec, s)
    OBVIOUS
  <2>2. s \in Statuses
    BY DEF Statuses, Terminal
  <2>3. r \in Row /\ r.status = s /\ r.ops \in OpLists /\ ~r.open
    BY <1>5, <2>1, <2>2, EndedFact
  <2>4. ((Update(x, r) /\ UNCHANGED hist) \/ UpdateFails(x)) /\ Release(w)
    BY <1>1, <1>8, <2>1 DEF Finish
  <2> QED
    BY <1>1, <1>2, <1>3, <1>5, <1>6, <1>7, <2>3, <2>4, RestTypes, Finishes
<1>9. CASE Release(w) /\ UNCHANGED <<row, hist>>
  BY <1>2, <1>6, <1>9, Leaves
<1>10. ASSUME Update(x, [rec EXCEPT !.status = "approved"]),
              Moves(w, [work[w] EXCEPT !.pc = "approved", !.rec.status = "approved"]),
              UNCHANGED <<inflight, hist>>
       PROVE  TxnInv' /\ LifeStep
  <2>1. PICK r : r = [rec EXCEPT !.status = "approved"]
    OBVIOUS
  <2>2. "approved" \in Statuses
    BY DEF Statuses
  <2>3. r \in Row /\ r.status = "approved" /\ r.ops \in OpLists /\ ~r.open
    BY <1>5, <2>1, <2>2 DEF Row
  <2>4. PICK k : k = [work[w] EXCEPT !.pc = "approved", !.rec = r]
    OBVIOUS
  <2>5. k = [work[w] EXCEPT !.pc = "approved", !.rec.status = "approved"]
    BY <1>3, <1>4, <2>1, <2>4 DEF Worker
  <2>6. k \in Worker /\ k.pc = "approved" /\ k.rec = r /\ k.set = x /\ k.kind = "execute"
    BY <1>1, <1>2, <1>3, <2>3, <2>4 DEF Worker
  <2>7. work' \in [Workers -> Worker] /\ work'[w] = k /\ \A v \in Workers \ {w} : work'[v] = work[v]
    BY <1>3, <1>10, <2>5, <2>6, MoveFact
  <2>8. row' \in [Sets -> Row] /\ row'[x] = r /\ \A y \in Sets \ {x} : row'[y] = row[y]
    BY <1>3, <1>10, <2>1, <2>3 DEF TxnTypeOK, Update
  <2>9. TxnTypeOK'
    BY <1>2, <1>3, <1>10, <2>7, <2>8 DEF TxnTypeOK
  <2>10. \A v \in Workers \ {w} : SameWorker(work'[v], work[v]) /\ (Planned(work[v]) => work[v].set # x)
    BY <1>7, <2>7 DEF SameWorker
  <2>11. \A y \in Sets \ {x} : SetKept(y)
    BY <1>2, <1>10, <2>8 DEF SetKept
  <2>12. x \notin hist.begun /\ x \notin hist.cleared
    BY <1>3, <1>5 DEF RowFits, Terminal
  <2>13. WorkerFits(work[w])'
    BY <1>1, <1>2, <1>3, <1>10, <2>3, <2>6, <2>7, <2>8, <2>12 DEF WorkerFits, Carrying, Copying
  <2>14. RowFits(x)'
    BY <1>10, <2>3, <2>8, <2>12 DEF RowFits, CopyOutlivesWindow
  <2>15. CleanersFit(x)'
    <3>1. cleaner.kept[x] = NoRow /\ ~(x \in cleaner.victim /\ ~cleaner.early) /\ x \notin doomed
      BY <1>3, <1>5, <2>12 DEF CleanersFit, Opened, Terminal
    <3> QED
      BY <1>2, <3>1 DEF CleanersFit
  <2>16. Carries(w, x)' /\ ~TakesBack(w, x)' /\ row'[x].status = "approved"
    BY <2>3, <2>6, <2>7, <2>8 DEF Carries, TakesBack
  <2>17. /\ TxnInv'
         /\ LifeStatus' = [LifeStatus EXCEPT ![x] = "approved"] /\ LifeWindow' = LifeWindow \ {x}
         /\ LifeCarrying' = LifeCarrying \cup {x} /\ LifeTaking' = LifeTaking \ {x}
         /\ x \notin LifeCarrying /\ x \notin LifeTaking
    <3>1. work'[w].pc # "idle" /\ work'[w].set = x /\ work'[w].kind = work[w].kind /\ work[w].pc # "idle"
      BY <1>2, <2>6, <2>7
    <3> QED
      BY <1>1, <1>2, <1>6, <1>10, <2>9, <2>10, <2>11, <2>13, <2>14, <2>15, <2>16, <3>1, SetMoves
  <2>18. LifeStatus[x] = "pending" /\ x \notin LifeWindow
    BY <1>5 DEF LifeStatus, LifeWindow
  <2>19. Life!Approve(x)
    <3>1. LifeWindow' = LifeWindow /\ LifeTaking' = LifeTaking
      BY <2>17, <2>18
    <3> QED
      BY <2>17, <2>18, <3>1 DEF Life!Approve, Life!Becomes, LifeStatus, LifeWindow, LifeCarrying, LifeTaking
  <2> QED
    BY <2>17, <2>19 DEF LifeStep, Life!LifeNext
<1> QED
  BY <1>1, <1>4, <1>8, <1>9, <1>10 DEF Answered

\* Step 10: the copies are there before the first operation.
LEMMA BackupMoves ==
  ASSUME TxnInv, NEW w \in Workers, Backup(w)
  PROVE  TxnInv' /\ LifeStep
<1>1. PICK x \in Sets : x = work[w].set
  BY DEF TxnInv, TxnTypeOK, Worker
<1>2. /\ work[w].pc = "approved" /\ work[w].kind = "execute" /\ Planned(work[w])
      /\ UNCHANGED <<disk, cleaner, doomed>>
  BY DEF Backup, At, Planned
<1>3. /\ work[w] \in Worker /\ WorkerFits(work[w]) /\ RowFits(x) /\ CleanersFit(x) /\ TxnTypeOK /\ row[x] \in Row
      /\ disk \in Disks /\ work[w].old \in Disks
  BY DEF TxnInv, TxnTypeOK, Worker
<1>4. PICK rec \in Row : rec = work[w].rec
  BY <1>3 DEF Worker
<1>5. rec.ops \in OpLists /\ Ops(w) = rec.ops /\ ~rec.open /\ row[x].status = "approved" /\ x \notin hist.begun
  BY <1>1, <1>2, <1>3, <1>4 DEF WorkerFits, Carrying, Ops
<1>6. Carries(w, x) /\ ~TakesBack(w, x)
  BY <1>1, <1>2 DEF Carries, TakesBack
<1>7. \A v \in Workers \ {w} : Planned(work[v]) => work[v].set # x
  BY <1>1, <1>2, AloneOnSet
<1>8. ASSUME copies' = [copies EXCEPT ![x] = Nothing], Finish(w, Ended(rec, "failed"))
      PROVE  TxnInv' /\ LifeStep
  <2>1. PICK r : r = Ended(rec, "failed")
    OBVIOUS
  <2>2. "failed" \in Statuses
    BY DEF Statuses, Terminal
  <2>3. r \in Row /\ r.status = "failed" /\ r.ops \in OpLists /\ ~r.open
    BY <1>5, <2>1, <2>2, EndedFact
  <2>4. ((Update(x, r) /\ UNCHANGED hist) \/ UpdateFails(x)) /\ Release(w)
    BY <1>1, <1>8, <2>1 DEF Finish
  <2> QED
    BY <1>1, <1>2, <1>3, <1>5, <1>6, <1>7, <1>8, <2>3, <2>4, RestTypes, Finishes
<1>9. ASSUME \A i \in DOMAIN Ops(w) : CanCopy(Ops(w)[i], work[w].old, disk),
             copies' = [copies EXCEPT ![x] = Copied(Ops(w), disk)],
             Moves(w, [work[w] EXCEPT !.pc = "apply", !.i = 1, !.rec.loc = TRUE]),
             UNCHANGED <<row, inflight, hist>>
      PROVE  TxnInv' /\ LifeStep
  <2>1. PICK r : r = [rec EXCEPT !.loc = TRUE]
    OBVIOUS
  <2>2. r \in Row /\ r.ops = rec.ops /\ ~r.open /\ r.loc
    BY <1>5, <2>1 DEF Row
  <2>3. PICK k : k = [work[w] EXCEPT !.pc = "apply", !.i = 1, !.rec = r]
    OBVIOUS
  <2>4. k = [work[w] EXCEPT !.pc = "apply", !.i = 1, !.rec.loc = TRUE]
    BY <1>3, <1>4, <2>1, <2>3 DEF Worker
  <2>5. k \in Worker /\ k.pc = "apply" /\ k.rec = r /\ k.set = x /\ k.kind = "execute" /\ k.i = 1
    BY <1>1, <1>2, <1>3, <2>2, <2>3 DEF Worker
  <2>6. work' \in [Workers -> Worker] /\ work'[w] = k /\ \A v \in Workers \ {w} : work'[v] = work[v]
    BY <1>3, <1>9, <2>4, <2>5, MoveFact
  <2>7. PICK c \in Disks : c = Copied(Ops(w), disk) /\ CopiesServe(rec.ops, c)
    BY <1>3, <1>5, <1>9, CopyTypes, CopiedServes
  <2>8. copies' \in [Sets -> Disks] /\ copies'[x] = c /\ \A y \in Sets \ {x} : copies'[y] = copies[y]
    BY <1>3, <1>9, <2>7 DEF TxnTypeOK
  <2>9. TxnTypeOK'
    BY <1>2, <1>3, <1>9, <2>6, <2>8 DEF TxnTypeOK
  <2>10. \A v \in Workers \ {w} : SameWorker(work'[v], work[v]) /\ (Planned(work[v]) => work[v].set # x)
    BY <1>7, <2>6 DEF SameWorker
  <2>11. \A y \in Sets \ {x} : SetKept(y)
    BY <1>9, <2>8 DEF SetKept
  <2>12. WorkerFits(work[w])'
    <3>1. 1 \in 1..Len(rec.ops)
      BY <1>5, OpsFact
    <3>2. <<x, "execute">> \in inflight'
      BY <1>1, <1>2, <1>3, <1>9 DEF WorkerFits
    <3> QED
      BY <1>5, <1>9, <2>2, <2>5, <2>6, <2>7, <2>8, <3>1, <3>2 DEF WorkerFits
  <2>13. RowFits(x)'
    BY <1>3, <1>5, <1>9 DEF RowFits, CopyOutlivesWindow
  <2>14. CleanersFit(x)'
    BY <1>2, <1>3, <1>9 DEF CleanersFit
  <2>15. Carries(w, x)' /\ ~TakesBack(w, x)' /\ row'[x].status = "approved"
    BY <1>5, <1>9, <2>5, <2>6 DEF Carries, TakesBack
  <2>16. /\ TxnInv'
         /\ LifeCarrying' = LifeCarrying \cup {x} /\ LifeTaking' = LifeTaking \ {x}
         /\ x \in LifeCarrying /\ x \notin LifeTaking
    <3>1. work'[w].pc # "idle" /\ work'[w].set = x /\ work'[w].kind = work[w].kind /\ work[w].pc # "idle"
      BY <1>2, <2>5, <2>6
    <3> QED
      BY <1>1, <1>2, <1>6, <1>9, <2>9, <2>10, <2>11, <2>12, <2>13, <2>14, <2>15, <3>1, SetMoves
  <2>17. LifeStatus' = LifeStatus /\ LifeWindow' = LifeWindow /\ LifeCarrying' = LifeCarrying /\ LifeTaking' = LifeTaking
    BY <1>9, <2>16 DEF LifeStatus, LifeWindow
  <2> QED
    BY <2>16, <2>17 DEF LifeStep
<1> QED
  BY <1>1, <1>4, <1>8, <1>9 DEF Backup

\* The same for a goroutine of Execute that has its copies.
LEMMA CarriesOn ==
  ASSUME TxnInv, NEW w \in Workers, work[w].kind = "execute", work[w].pc \in Copying, NEW k \in Worker,
         k.pc \in Copying, k.kind = "execute", k.set = work[w].set, k.rec = work[w].rec,
         k.pc \in {"apply", "checked", "verify"} => k.i \in 1..Len(Ops(w)),
         k.pc = "undo" => k.i \in 0..Len(Ops(w)),
         k.pc \in {"apply", "checked"} /\ k.i = 1 => k.set \notin hist'.begun,
         (Moves(w, k) /\ UNCHANGED disk) \/ (\E d \in Disks : Writes(w, d, k)),
         hist' = hist \/ (hist' = [hist EXCEPT !.begun = @ \cup {work[w].set}] /\ At(w, "execute", "checked")),
         UNCHANGED <<row, copies, inflight, cleaner, doomed>>
  PROVE  TxnInv' /\ LifeStep
<1>1. PICK x \in Sets : x = work[w].set
  BY DEF TxnInv, TxnTypeOK, Worker
<1>2. TxnTypeOK /\ WorkerFits(work[w]) /\ disk \in Disks
  BY DEF TxnInv, TxnTypeOK
<1>3. /\ disk' \in Disks /\ work' \in [Workers -> Worker] /\ work'[w] = k
      /\ \A v \in Workers \ {w} : SameWorker(work'[v], work[v])
  <2>1. CASE Moves(w, k) /\ UNCHANGED disk
    BY <1>2, <2>1, MoveFact DEF SameWorker
  <2>2. CASE \E d \in Disks : Writes(w, d, k)
    BY <1>2, <2>2, WritesFact
  <2> QED
    BY <2>1, <2>2
<1>4. Planned(work[w]) /\ work[w].pc # "idle" /\ k.pc # "idle"
  BY DEF Planned, Copying, Carrying
<1>5. \A v \in Workers \ {w} : Planned(work[v]) => work[v].set # x
  BY <1>1, <1>4, AloneOnSet
<1>6. /\ hist' \in [begun : SUBSET Sets, lapsed : SUBSET Sets, robbed : SUBSET Sets, cleared : SUBSET Sets]
      /\ hist'.robbed = hist.robbed
  BY <1>1, <1>2 DEF TxnTypeOK
<1>7. TxnTypeOK'
  BY <1>2, <1>3, <1>6 DEF TxnTypeOK
<1>8. WorkerFits(work[w])'
  <2>1. <<x, "execute">> \in inflight
    BY <1>1, <1>2, <1>4 DEF WorkerFits
  <2>2. Ops(w) = work[w].rec.ops /\ work[w].pc \in Carrying /\ k.pc \in Carrying /\ k.pc # "approved" /\ k.pc # "asking"
    BY DEF Ops, Copying, Carrying
  <2> QED
    BY <1>1, <1>2, <1>3, <1>4, <1>6, <2>1, <2>2 DEF WorkerFits
<1>9. Carries(w, x)' /\ Carries(w, x) /\ ~TakesBack(w, x) /\ ~TakesBack(w, x)'
  BY <1>1, <1>3, <1>4 DEF Carries, TakesBack, Copying, Carrying
<1> QED
  BY <1>1, <1>3, <1>4, <1>5, <1>7, <1>8, <1>9, GoesOn

\* What a goroutine of Execute with its copies knows.
LEMMA CopyingFact ==
  ASSUME TxnInv, NEW w \in Workers, work[w].kind = "execute", work[w].pc \in Copying
  PROVE  /\ work[w] \in Worker /\ work[w].set \in Sets /\ Ops(w) \in OpLists
         /\ disk \in Disks /\ work[w].old \in Disks /\ copies[work[w].set] \in Disks
         /\ work[w].i \in Nat
         /\ Len(Ops(w)) \in Nat /\ Len(Ops(w)) >= 1
         /\ work[w].pc \in {"apply", "checked", "verify"} => work[w].i \in 1..Len(Ops(w)) /\ Op(w) \in Operations
         /\ work[w].pc = "undo" => work[w].i \in 0..Len(Ops(w)) /\ (work[w].i > 0 => Op(w) \in Operations)
<1>1. work[w] \in Worker /\ WorkerFits(work[w]) /\ disk \in Disks /\ copies \in [Sets -> Disks]
  BY DEF TxnInv, TxnTypeOK
<1>2. Ops(w) \in OpLists
  BY <1>1 DEF WorkerFits, Copying, Carrying, Ops
<1>3. /\ work[w].pc \in {"apply", "checked", "verify"} => work[w].i \in 1..Len(Ops(w))
      /\ work[w].pc = "undo" => work[w].i \in 0..Len(Ops(w))
  BY <1>1 DEF WorkerFits, Ops
<1>4. Len(Ops(w)) \in Nat /\ Len(Ops(w)) >= 1 /\ \A i \in 1..Len(Ops(w)) : Ops(w)[i] \in Operations
  BY <1>2, OpsFact
<1> QED
  BY <1>1, <1>2, <1>3, <1>4 DEF Worker, Op

\* Step 11, the look before each operation.
LEMMA CheckOpMoves ==
  ASSUME TxnInv, NEW w \in Workers, CheckOp(w)
  PROVE  TxnInv' /\ LifeStep
<1>1. work[w].pc = "apply" /\ work[w].kind = "execute" /\ work[w].pc \in Copying
  BY DEF CheckOp, At, Copying, Carrying
<1>2. work[w] \in Worker /\ work[w].i \in 1..Len(Ops(w)) /\ Len(Ops(w)) \in Nat /\ work[w].i \in Nat
  BY <1>1, CopyingFact
<1>3. UNCHANGED <<disk, row, copies, inflight, cleaner, doomed, hist>>
  BY DEF CheckOp
<1>4. CASE Goes(w, "checked")
  <2>1. PICK k : k = [work[w] EXCEPT !.pc = "checked"]
    OBVIOUS
  <2>2. k \in Worker /\ k.pc = "checked" /\ k.kind = "execute" /\ k.set = work[w].set /\ k.rec = work[w].rec /\ k.i = work[w].i
    BY <1>1, <1>2, <2>1 DEF Worker
  <2>3. Moves(w, k)
    BY <1>4, <2>1 DEF Goes
  <2>4. k.pc \in Copying
    BY <2>2 DEF Copying, Carrying
  <2>5. k.i = 1 => k.set \notin hist'.begun
    BY <1>1, <1>3, <2>2 DEF TxnInv, WorkerFits
  <2> QED
    BY <1>1, <1>2, <1>3, <2>2, <2>3, <2>4, <2>5, CarriesOn
<1>5. CASE Moves(w, [work[w] EXCEPT !.pc = "undo", !.i = @ - 1])
  <2>1. PICK n \in Nat : n = work[w].i - 1 /\ n \in 0..Len(Ops(w))
    BY <1>2
  <2>2. PICK k : k = [work[w] EXCEPT !.pc = "undo", !.i = n]
    OBVIOUS
  <2>3. "undo" \in Stages /\ "undo" \in Copying
    BY DEF Stages, Copying, Carrying
  <2>4. k \in Worker /\ k.pc = "undo" /\ k.kind = "execute" /\ k.set = work[w].set /\ k.rec = work[w].rec /\ k.i = n
    BY <1>1, <1>2, <2>2, <2>3 DEF Worker, Stages
  <2>5. Moves(w, k)
    BY <1>2, <1>5, <2>1, <2>2 DEF Worker
  <2> QED
    BY <1>1, <1>3, <2>1, <2>3, <2>4, <2>5, CarriesOn
<1> QED
  BY <1>4, <1>5 DEF CheckOp

\* Step 11, the operation: from here on the set counts as begun, and no later step makes it first again.
LEMMA DoOpMoves ==
  ASSUME TxnInv, NEW w \in Workers, DoOp(w)
  PROVE  TxnInv' /\ LifeStep
<1>1. work[w].pc = "checked" /\ work[w].kind = "execute" /\ work[w].pc \in Copying /\ At(w, "execute", "checked")
  BY DEF DoOp, At, Copying, Carrying
<1>2. /\ work[w] \in Worker /\ work[w].i \in 1..Len(Ops(w)) /\ Len(Ops(w)) \in Nat /\ work[w].i \in Nat /\ Len(Ops(w)) >= 1
      /\ Op(w) \in Operations /\ work[w].old \in Disks /\ disk \in Disks
  BY <1>1, CopyingFact
<1>3. UNCHANGED <<row, copies, inflight, cleaner, doomed>> /\ hist' = [hist EXCEPT !.begun = @ \cup {work[w].set}]
  BY DEF DoOp
<1>4. ASSUME NEW d \in ApplyOp(Op(w), work[w].old, disk), Writes(w, d, NextOp(w))
      PROVE  TxnInv' /\ LifeStep
  <2>1. d \in Disks
    BY <1>2, ApplyTypes
  <2>2. CASE work[w].i = Len(Ops(w))
    <3>1. PICK k : k = [work[w] EXCEPT !.pc = "verify", !.i = 1]
      OBVIOUS
    <3>2. "verify" \in Stages /\ "verify" \in Copying /\ 1 \in Nat /\ 1 \in 1..Len(Ops(w))
      BY <1>2 DEF Stages, Copying, Carrying
    <3>3. k \in Worker /\ k.pc = "verify" /\ k.kind = "execute" /\ k.set = work[w].set /\ k.rec = work[w].rec /\ k.i = 1
      BY <1>1, <1>2, <3>1, <3>2 DEF Worker, Stages
    <3>4. Writes(w, d, k)
      BY <1>4, <2>2, <3>1 DEF NextOp
    <3> QED
      BY <1>1, <1>3, <2>1, <3>2, <3>3, <3>4, CarriesOn
  <2>3. CASE work[w].i # Len(Ops(w))
    <3>1. PICK n \in Nat : n = work[w].i + 1 /\ n \in 1..Len(Ops(w)) /\ n # 1
      BY <1>2, <2>3
    <3>2. PICK k : k = [work[w] EXCEPT !.pc = "apply", !.i = n]
      OBVIOUS
    <3>3. "apply" \in Stages /\ "apply" \in Copying
      BY DEF Stages, Copying, Carrying
    <3>4. k \in Worker /\ k.pc = "apply" /\ k.kind = "execute" /\ k.set = work[w].set /\ k.rec = work[w].rec /\ k.i = n
      BY <1>1, <1>2, <3>2, <3>3 DEF Worker, Stages
    <3>5. Writes(w, d, k)
      BY <1>2, <1>4, <2>3, <3>1, <3>2 DEF NextOp, Worker
    <3> QED
      BY <1>1, <1>3, <2>1, <3>1, <3>3, <3>4, <3>5, CarriesOn
  <2> QED
    BY <2>2, <2>3
<1>5. CASE Moves(w, [work[w] EXCEPT !.pc = "undo", !.i = @ - 1]) /\ UNCHANGED disk
  <2>1. PICK n \in Nat : n = work[w].i - 1 /\ n \in 0..Len(Ops(w))
    BY <1>2
  <2>2. PICK k : k = [work[w] EXCEPT !.pc = "undo", !.i = n]
    OBVIOUS
  <2>3. "undo" \in Stages /\ "undo" \in Copying
    BY DEF Stages, Copying, Carrying
  <2>4. k \in Worker /\ k.pc = "undo" /\ k.kind = "execute" /\ k.set = work[w].set /\ k.rec = work[w].rec /\ k.i = n
    BY <1>1, <1>2, <2>2, <2>3 DEF Worker, Stages
  <2>5. Moves(w, k)
    BY <1>2, <1>5, <2>1, <2>2 DEF Worker
  <2> QED
    BY <1>1, <1>3, <1>5, <2>1, <2>3, <2>4, <2>5, CarriesOn
<1> QED
  BY <1>4, <1>5 DEF DoOp

\* Step 12.
LEMMA VerifyOpMoves ==
  ASSUME TxnInv, NEW w \in Workers, VerifyOp(w)
  PROVE  TxnInv' /\ LifeStep
<1>1. work[w].pc = "verify" /\ work[w].kind = "execute" /\ work[w].pc \in Copying
  BY DEF VerifyOp, At, Copying, Carrying
<1>2. work[w] \in Worker /\ work[w].i \in 1..Len(Ops(w)) /\ Len(Ops(w)) \in Nat /\ work[w].i \in Nat /\ Len(Ops(w)) >= 1
  BY <1>1, CopyingFact
<1>3. UNCHANGED <<disk, row, copies, inflight, cleaner, doomed, hist>>
  BY DEF VerifyOp
<1>4. ASSUME NEW p \in {"verify", "undo", "journal"}, NEW n \in Nat, n \in 1..Len(Ops(w)),
             NEW k, k = [work[w] EXCEPT !.pc = p, !.i = n], Moves(w, k)
      PROVE  TxnInv' /\ LifeStep
  <2>2. p \in Stages /\ p \in Copying /\ n \in 0..Len(Ops(w))
    BY <1>2, <1>4 DEF Stages, Copying, Carrying
  <2>3. k \in Worker /\ k.pc = p /\ k.kind = "execute" /\ k.set = work[w].set /\ k.rec = work[w].rec /\ k.i = n
    BY <1>1, <1>2, <1>4, <2>2 DEF Worker, Stages
  <2> QED
    BY <1>1, <1>3, <1>4, <2>2, <2>3, CarriesOn
<1>5. CASE Moves(w, [work[w] EXCEPT !.pc = "undo", !.i = Len(Ops(w))])
  <2>1. PICK n \in Nat : n = Len(Ops(w)) /\ n \in 1..Len(Ops(w))
    BY <1>2
  <2> QED
    BY <1>4, <1>5, <2>1
<1>6. CASE Goes(w, "journal")
  <2>1. [work[w] EXCEPT !.pc = "journal"] = [work[w] EXCEPT !.pc = "journal", !.i = work[w].i]
    BY <1>2 DEF Worker
  <2> QED
    BY <1>2, <1>4, <1>6, <2>1 DEF Goes
<1>7. CASE work[w].i # Len(Ops(w)) /\ Moves(w, [work[w] EXCEPT !.i = @ + 1])
  <2>1. PICK n \in Nat : n = work[w].i + 1 /\ n \in 1..Len(Ops(w))
    BY <1>2, <1>7
  <2>2. [work[w] EXCEPT !.i = @ + 1] = [work[w] EXCEPT !.pc = "verify", !.i = n]
    BY <1>1, <1>2, <2>1 DEF Worker
  <2> QED
    BY <1>4, <1>7, <2>1, <2>2
<1> QED
  BY <1>5, <1>6, <1>7 DEF VerifyOp

\* The deferred undo, one operation.
LEMMA UndoOpMoves ==
  ASSUME TxnInv, NEW w \in Workers, UndoOp(w)
  PROVE  TxnInv' /\ LifeStep
<1>1. work[w].pc = "undo" /\ work[w].kind = "execute" /\ work[w].pc \in Copying /\ work[w].i > 0
  BY DEF UndoOp, At, Copying, Carrying
<1>2. /\ work[w] \in Worker /\ work[w].i \in 0..Len(Ops(w)) /\ Len(Ops(w)) \in Nat /\ work[w].i \in Nat
      /\ Op(w) \in Operations /\ work[w].old \in Disks /\ disk \in Disks /\ copies[work[w].set] \in Disks
  BY <1>1, CopyingFact
<1>3. UNCHANGED <<row, copies, inflight, cleaner, doomed, hist>>
  BY DEF UndoOp
<1>4. PICK n \in Nat : n = work[w].i - 1 /\ n \in 0..Len(Ops(w))
  BY <1>1, <1>2
<1>5. ASSUME NEW t \in BOOLEAN, NEW k, k = [work[w] EXCEPT !.i = n, !.torn = t],
             (Moves(w, k) /\ UNCHANGED disk) \/ (\E d \in Disks : Writes(w, d, k))
      PROVE  TxnInv' /\ LifeStep
  <2>1. k \in Worker /\ k.pc = "undo" /\ k.kind = "execute" /\ k.set = work[w].set /\ k.rec = work[w].rec /\ k.i = n
    BY <1>1, <1>2, <1>5 DEF Worker
  <2>2. k.pc \in Copying
    BY <2>1 DEF Copying, Carrying
  <2> QED
    BY <1>1, <1>3, <1>4, <1>5, <2>1, <2>2, CarriesOn
<1>6. ASSUME NEW d \in ReverseOp(Op(w), work[w].old, copies[work[w].set], disk),
             Writes(w, d, [work[w] EXCEPT !.i = @ - 1])
      PROVE  TxnInv' /\ LifeStep
  <2>1. d \in Disks
    BY <1>2, ReverseTypes
  <2>2. [work[w] EXCEPT !.i = @ - 1] = [work[w] EXCEPT !.i = n, !.torn = work[w].torn] /\ work[w].torn \in BOOLEAN
    BY <1>2, <1>4 DEF Worker
  <2> QED
    BY <1>5, <1>6, <2>1, <2>2
<1>7. CASE Moves(w, [work[w] EXCEPT !.i = @ - 1, !.torn = TRUE]) /\ UNCHANGED disk
  <2>1. [work[w] EXCEPT !.i = @ - 1, !.torn = TRUE] = [work[w] EXCEPT !.i = n, !.torn = TRUE]
    BY <1>2, <1>4 DEF Worker
  <2> QED
    BY <1>5, <1>7, <2>1
<1> QED
  BY <1>6, <1>7 DEF UndoOp

\* The deferred undo is through.
LEMMA UndoEndsMoves ==
  ASSUME TxnInv, NEW w \in Workers, UndoEnds(w)
  PROVE  TxnInv' /\ LifeStep
<1>1. work[w].pc = "undo" /\ work[w].kind = "execute" /\ work[w].pc \in Copying
  BY DEF UndoEnds, At, Copying, Carrying
<1>2. PICK k : k = [work[w] EXCEPT !.pc = "undone"]
  OBVIOUS
<1>3. k \in Worker /\ k.pc = "undone" /\ k.kind = "execute" /\ k.set = work[w].set /\ k.rec = work[w].rec
  BY <1>1, <1>2, CopyingFact DEF Worker
<1>4. Moves(w, k) /\ UNCHANGED <<disk, row, copies, inflight, cleaner, doomed, hist>> /\ k.pc \in Copying
  BY <1>2, <1>3 DEF UndoEnds, Goes, Copying, Carrying
<1> QED
  BY <1>1, <1>3, <1>4, CarriesOn

\* Execute's last step.
LEMMA VerdictMoves ==
  ASSUME TxnInv, NEW w \in Workers, ExecuteFails(w) \/ JournalApplied(w)
  PROVE  TxnInv' /\ LifeStep
<1>1. PICK x \in Sets : x = work[w].set
  BY DEF TxnInv, TxnTypeOK, Worker
<1>2. /\ work[w].pc \in {"undone", "journal"} /\ work[w].kind = "execute" /\ Planned(work[w]) /\ work[w].pc # "idle"
      /\ UNCHANGED <<disk, copies, cleaner, doomed>>
  BY DEF ExecuteFails, JournalApplied, At, Planned
<1>3. work[w] \in Worker /\ WorkerFits(work[w]) /\ TxnTypeOK /\ disk \in Disks
  BY DEF TxnInv, TxnTypeOK
<1>4. PICK rec \in Row : rec = work[w].rec
  BY <1>3 DEF Worker
<1>5. /\ rec.ops \in OpLists /\ ~rec.open /\ rec.loc /\ row[x].status = "approved"
      /\ x \notin hist.robbed => CopiesServe(rec.ops, copies[x])
  BY <1>1, <1>2, <1>3, <1>4 DEF WorkerFits, Carrying, Copying
<1>6. Carries(w, x) /\ ~TakesBack(w, x)
  BY <1>1, <1>2 DEF Carries, TakesBack
<1>7. \A v \in Workers \ {w} : Planned(work[v]) => work[v].set # x
  BY <1>1, <1>2, AloneOnSet
<1>8. CASE ExecuteFails(w)
  <2>1. PICK r : r = Ended(rec, "failed")
    OBVIOUS
  <2>2. "failed" \in Statuses
    BY DEF Statuses, Terminal
  <2>3. r \in Row /\ r.status = "failed" /\ r.ops \in OpLists /\ ~r.open
    BY <1>5, <2>1, <2>2, EndedFact
  <2>4. ((Update(x, r) /\ UNCHANGED hist) \/ UpdateFails(x)) /\ Release(w)
    BY <1>1, <1>4, <1>8, <2>1 DEF Finish, ExecuteFails
  <2> QED
    BY <1>1, <1>2, <1>3, <1>5, <1>6, <1>7, <2>3, <2>4, Finishes
<1>9. CASE JournalApplied(w)
  <2>1. PICK r : r = [rec EXCEPT !.status = "applied", !.open = TRUE, !.before = work[w].old, !.taint = work[w].dirty]
    OBVIOUS
  <2>2. "applied" \in Statuses /\ work[w].old \in Disks /\ work[w].dirty \in SUBSET Paths
    BY <1>3 DEF Statuses, Terminal, Worker
  <2>3. r \in Row /\ r.status = "applied" /\ r.ops = rec.ops /\ r.open /\ r.loc
    BY <1>5, <2>1, <2>2 DEF Row
  <2>4. ((Update(x, r) /\ UNCHANGED hist) \/ UpdateFails(x)) /\ Release(w)
    BY <1>1, <1>4, <1>9, <2>1 DEF JournalApplied
  <2> QED
    BY <1>1, <1>2, <1>3, <1>5, <1>6, <1>7, <2>3, <2>4, Finishes
<1> QED
  BY <1>8, <1>9

\* Rollback looks at an applied row with an open window.
LEMMA PlanRollbackMoves ==
  ASSUME TxnInv, NEW w \in Workers, PlanRollback(w)
  PROVE  TxnInv' /\ LifeStep
<1>1. PICK x \in Sets : x = work[w].set
  BY DEF TxnInv, TxnTypeOK, Worker
<1>2. /\ work[w].pc = "claimed" /\ work[w].kind = "rollback"
      /\ UNCHANGED <<disk, row, copies, cleaner, doomed, hist>>
  BY DEF PlanRollback, At
<1>3. work[w] \in Worker /\ WorkerFits(work[w]) /\ RowFits(x) /\ TxnTypeOK /\ row[x] \in Row /\ copies[x] \in Disks
  BY DEF TxnInv, TxnTypeOK
<1>4. \A y \in Sets : ~Carries(w, y) /\ ~TakesBack(w, y)
  BY <1>2 DEF Carries, TakesBack
<1>5. CASE Release(w)
  BY <1>2, <1>4, <1>5, Leaves
<1>6. ASSUME row[x].status = "applied",
             Moves(w, [work[w] EXCEPT !.pc = "asking", !.rec = row[x], !.old = copies[x], !.dirty = row[x].taint]),
             UNCHANGED inflight
      PROVE  TxnInv' /\ LifeStep
  <2>1. PICK k : k = [work[w] EXCEPT !.pc = "asking", !.rec = row[x], !.old = copies[x], !.dirty = row[x].taint]
    OBVIOUS
  <2>2. row[x].taint \in SUBSET Paths
    BY <1>3 DEF Row
  <2>3. k \in Worker /\ k.pc = "asking" /\ k.kind = "rollback" /\ k.set = x /\ k.rec = row[x]
    BY <1>1, <1>2, <1>3, <2>1, <2>2 DEF Worker
  <2>4. work' \in [Workers -> Worker] /\ work'[w] = k /\ \A v \in Workers \ {w} : work'[v] = work[v]
    BY <1>3, <1>6, <2>1, <2>3, MoveFact
  <2>5. TxnTypeOK'
    BY <1>2, <1>3, <1>6, <2>4 DEF TxnTypeOK
  <2>6. ASSUME NEW v \in Workers \ {w}, Planned(work[v]), work[v].set = x PROVE FALSE
    <3>1. work[v] \in Worker /\ WorkerFits(work[v])
      BY DEF TxnInv, TxnTypeOK
    <3>2. work[v].kind = "execute"
      <4>1. work[v].kind # "rollback"
        BY <1>1, <1>2, <2>6 DEF TxnInv, OneWorkerEach, Planned
      <4> QED
        BY <3>1, <4>1 DEF Worker
    <3>3. work[v].pc = "asking" \/ work[v].pc \in Carrying
      BY <2>6, <3>1 DEF Planned, Worker, Carrying
    <3> QED
      BY <1>6, <2>6, <3>1, <3>2, <3>3 DEF WorkerFits
  <2>7. WorkerFits(work[w])'
    <3>1. row[x].ops \in OpLists /\ (row[x].open => row[x].loc)
      BY <1>3, <1>6 DEF RowFits
    <3>2. <<x, "rollback">> \in inflight'
      BY <1>1, <1>2, <1>3, <1>6 DEF WorkerFits
    <3> QED
      BY <1>2, <1>6, <2>3, <2>4, <3>1, <3>2 DEF WorkerFits
  <2>8. ~Carries(w, x)' /\ ~TakesBack(w, x)' /\ work'[w].pc # "idle" /\ work'[w].set = x /\ work'[w].kind = work[w].kind
    BY <1>2, <2>3, <2>4 DEF Carries, TakesBack
  <2>9. \A v \in Workers \ {w} : SameWorker(work'[v], work[v]) /\ (Planned(work[v]) => work[v].set # x)
    BY <2>4, <2>6 DEF SameWorker
  <2> QED
    BY <1>1, <1>2, <1>4, <1>6, <2>5, <2>7, <2>8, <2>9, GoesOn
<1> QED
  BY <1>1, <1>5, <1>6 DEF PlanRollback

\* What a goroutine of Rollback with a plan knows.
LEMMA RollbackFact ==
  ASSUME TxnInv, NEW w \in Workers, work[w].kind = "rollback", work[w].pc \in {"asking", "apply", "journal"},
         NEW x \in Sets, x = work[w].set
  PROVE  /\ work[w] \in Worker /\ WorkerFits(work[w]) /\ RowFits(x) /\ TxnTypeOK
         /\ disk \in Disks /\ work[w].old \in Disks /\ copies[x] \in Disks
         /\ work[w].rec \in Row /\ work[w].rec.ops \in OpLists /\ Ops(w) = work[w].rec.ops
         /\ work[w].rec.open => work[w].rec.loc
         /\ row[x].status = "applied" \/ x \in hist.cleared
         /\ <<x, "rollback">> \in inflight
         /\ ~Carries(w, x)
         /\ \A v \in Workers \ {w} : Planned(work[v]) => work[v].set # x
         /\ work[w].pc # "idle"
<1>1. work[w] \in Worker /\ WorkerFits(work[w]) /\ RowFits(x) /\ TxnTypeOK /\ disk \in Disks /\ copies[x] \in Disks
  BY DEF TxnInv, TxnTypeOK
<1>2. work[w].old \in Disks /\ work[w].rec \in Row
  BY <1>1 DEF Worker
<1>3. Planned(work[w])
  BY DEF Planned
<1>4. \A v \in Workers \ {w} : Planned(work[v]) => work[v].set # x
  BY <1>3, AloneOnSet
<1> QED
  BY <1>1, <1>2, <1>4 DEF WorkerFits, Carries, Ops

\* Rollback hears the answer; the row may have been cleared meanwhile.
LEMMA RollbackAnsweredMoves ==
  ASSUME TxnInv, NEW w \in Workers, NEW a, RollbackAnswered(w, a)
  PROVE  TxnInv' /\ LifeStep
<1>1. PICK x \in Sets : x = work[w].set
  BY DEF TxnInv, TxnTypeOK, Worker
<1>2. /\ work[w].pc = "asking" /\ work[w].kind = "rollback"
      /\ UNCHANGED <<disk, row, copies, cleaner, doomed, hist>>
  BY DEF RollbackAnswered, At
<1>3. \A y \in Sets : ~Carries(w, y) /\ ~TakesBack(w, y)
  BY <1>2 DEF Carries, TakesBack
<1>4. CASE Release(w)
  BY <1>2, <1>3, <1>4, Leaves
<1>5. ASSUME Moves(w, [work[w] EXCEPT !.pc = "apply", !.i = Len(Ops(w))]), UNCHANGED inflight
      PROVE  TxnInv' /\ LifeStep
  <2>1. /\ work[w] \in Worker /\ RowFits(x) /\ TxnTypeOK /\ work[w].rec.ops \in OpLists /\ Ops(w) = work[w].rec.ops
        /\ (work[w].rec.open => work[w].rec.loc) /\ (row[x].status = "applied" \/ x \in hist.cleared)
        /\ <<x, "rollback">> \in inflight
        /\ \A v \in Workers \ {w} : Planned(work[v]) => work[v].set # x
    BY <1>1, <1>2, RollbackFact
  <2>2. PICK n \in Nat : n = Len(Ops(w)) /\ n \in 1..Len(Ops(w))
    BY <2>1, OpsFact
  <2>3. PICK k : k = [work[w] EXCEPT !.pc = "apply", !.i = n]
    OBVIOUS
  <2>4. k \in Worker /\ k.pc = "apply" /\ k.kind = "rollback" /\ k.set = x /\ k.rec = work[w].rec /\ k.i = n
    BY <1>1, <1>2, <2>1, <2>3 DEF Worker
  <2>5. work' \in [Workers -> Worker] /\ work'[w] = k /\ \A v \in Workers \ {w} : work'[v] = work[v]
    BY <1>5, <2>1, <2>2, <2>3, <2>4, MoveFact
  <2>6. TxnTypeOK'
    BY <1>2, <1>5, <2>1, <2>5 DEF TxnTypeOK
  <2>7. WorkerFits(work[w])'
    BY <1>2, <1>5, <2>1, <2>2, <2>4, <2>5 DEF WorkerFits
  <2>8. ~Carries(w, x)' /\ work'[w].pc # "idle" /\ work'[w].set = x /\ work'[w].kind = work[w].kind
    BY <1>2, <2>4, <2>5 DEF Carries
  <2>9. \A v \in Workers \ {w} : SameWorker(work'[v], work[v]) /\ (Planned(work[v]) => work[v].set # x)
    BY <2>1, <2>5 DEF SameWorker
  <2>10. row[x].status \in {"applied", "none"}
    BY <2>1 DEF RowFits
  <2> QED
    BY <1>1, <1>2, <1>3, <1>5, <2>6, <2>7, <2>8, <2>9, <2>10, GoesOn
<1> QED
  BY <1>4, <1>5 DEF RollbackAnswered

\* Rollback's verdict.
LEMMA TakenBackMoves ==
  ASSUME TxnInv, NEW w \in Workers, work[w].kind = "rollback", work[w].pc \in {"apply", "journal"},
         NEW s \in {"rolled_back", "failed"},
         (Update(work[w].set, Ended(work[w].rec, s)) /\ UNCHANGED hist) \/ UpdateFails(work[w].set), Release(w),
         UNCHANGED <<disk, copies, cleaner, doomed>>
  PROVE  TxnInv' /\ LifeStep
<1>1. PICK x \in Sets : x = work[w].set
  BY DEF TxnInv, TxnTypeOK, Worker
<1>2. PICK rec \in Row : rec = work[w].rec
  BY <1>1, RollbackFact
<1>3. PICK r : r = Ended(rec, s)
  OBVIOUS
<1>4. s \in Statuses
  BY DEF Statuses, Terminal
<1>5. rec.ops \in OpLists /\ (rec.open => rec.loc)
  BY <1>1, <1>2, RollbackFact
<1>6. r \in Row /\ r.status = s /\ r.ops \in OpLists /\ (r.open => r.loc)
  BY <1>3, <1>4, <1>5, EndedFact
<1>7. /\ row[x].status = "applied" \/ x \in hist.cleared
      /\ ~Carries(w, x) /\ work[w].pc # "idle" /\ disk \in Disks
      /\ \A v \in Workers \ {w} : Planned(work[v]) => work[v].set # x
  BY <1>1, RollbackFact
<1>8. TakesBack(w, x)
  BY <1>1 DEF TakesBack
<1>9. (Update(x, r) /\ UNCHANGED hist) \/ UpdateFails(x)
  BY <1>1, <1>2, <1>3
<1> QED
  BY <1>1, <1>6, <1>7, <1>8, <1>9, Finishes

\* applyRollback, one operation or its failure.
LEMMA RollbackOpMoves ==
  ASSUME TxnInv, NEW w \in Workers, RollbackOp(w)
  PROVE  TxnInv' /\ LifeStep
<1>1. PICK x \in Sets : x = work[w].set
  BY DEF TxnInv, TxnTypeOK, Worker
<1>2. work[w].pc = "apply" /\ work[w].kind = "rollback" /\ UNCHANGED <<copies, cleaner, doomed>>
  BY DEF RollbackOp, At
<1>3. CASE Finish(w, Ended(work[w].rec, "failed")) /\ UNCHANGED disk
  BY <1>2, <1>3, TakenBackMoves DEF Finish
<1>4. ASSUME NEW d \in ReverseOp(Op(w), work[w].old, copies[x], disk), UNCHANGED <<row, inflight, hist>>,
             Writes(w, d, [work[w] EXCEPT !.i = @ - 1, !.pc = IF work[w].i = 1 THEN "journal" ELSE "apply"])
      PROVE  TxnInv' /\ LifeStep
  <2>1. /\ work[w] \in Worker /\ WorkerFits(work[w]) /\ RowFits(x) /\ TxnTypeOK /\ work[w].rec.ops \in OpLists /\ Ops(w) = work[w].rec.ops
        /\ (work[w].rec.open => work[w].rec.loc) /\ (row[x].status = "applied" \/ x \in hist.cleared)
        /\ <<x, "rollback">> \in inflight
        /\ \A v \in Workers \ {w} : Planned(work[v]) => work[v].set # x
        /\ disk \in Disks /\ work[w].old \in Disks /\ copies[x] \in Disks /\ ~Carries(w, x)
    BY <1>1, <1>2, RollbackFact
  <2>2. work[w].i \in 1..Len(Ops(w)) /\ Len(Ops(w)) \in Nat /\ Op(w) \in Operations
    <3>1. work[w].i \in 1..Len(Ops(w))
      BY <1>2, <2>1 DEF WorkerFits
    <3> QED
      BY <2>1, <3>1, OpsFact DEF Op
  <2>3. d \in Disks
    BY <1>4, <2>1, <2>2, ReverseTypes
  <2>4. PICK n \in Nat : n = work[w].i - 1 /\ (work[w].i # 1 => n \in 1..Len(Ops(w)))
    BY <2>2
  <2>5. PICK p \in {"journal", "apply"} : p = (IF work[w].i = 1 THEN "journal" ELSE "apply")
    OBVIOUS
  <2>6. PICK k : k = [work[w] EXCEPT !.i = n, !.pc = p]
    OBVIOUS
  <2>7. k \in Worker /\ k.pc = p /\ k.kind = "rollback" /\ k.set = x /\ k.rec = work[w].rec /\ k.i = n
    BY <1>1, <1>2, <2>1, <2>5, <2>6 DEF Worker
  <2>8. Writes(w, d, k)
    BY <1>4, <2>1, <2>4, <2>5, <2>6 DEF Worker
  <2>9. /\ disk' \in Disks /\ work' \in [Workers -> Worker] /\ work'[w] = k
        /\ \A v \in Workers \ {w} : SameWorker(work'[v], work[v])
    BY <2>1, <2>3, <2>7, <2>8, WritesFact
  <2>10. TxnTypeOK'
    BY <1>2, <1>4, <2>1, <2>9 DEF TxnTypeOK
  <2>11. WorkerFits(work[w])'
    BY <1>2, <1>4, <2>1, <2>4, <2>5, <2>7, <2>9 DEF WorkerFits
  <2>12. TakesBack(w, x) /\ TakesBack(w, x)' /\ ~Carries(w, x)' /\ work'[w].pc # "idle" /\ work'[w].set = x /\ work'[w].kind = work[w].kind
    BY <1>1, <1>2, <2>7, <2>9 DEF Carries, TakesBack
  <2> QED
    BY <1>1, <1>2, <1>4, <2>1, <2>9, <2>10, <2>11, <2>12, GoesOn
<1> QED
  BY <1>1, <1>3, <1>4 DEF RollbackOp

\* Rollback's last word.
LEMMA JournalRolledBackMoves ==
  ASSUME TxnInv, NEW w \in Workers, JournalRolledBack(w)
  PROVE  TxnInv' /\ LifeStep
BY TakenBackMoves DEF JournalRolledBack, At

\* Every step inside Execute and Rollback keeps the invariant and is a step of the life.
LEMMA WorkerMoves ==
  ASSUME TxnInv, NEW w \in Workers, ExecuteStep(w) \/ RollbackStep(w)
  PROVE  TxnInv' /\ LifeStep
<1>1. CASE \E x \in Sets, ops \in OpLists : Claim(w, "execute", x, ops)
  BY <1>1, ClaimMoves
<1>2. CASE \E x \in Sets : Claim(w, "rollback", x, <<>>)
  BY <1>2, ClaimMoves
<1> QED
  BY <1>1, <1>2, PlanExecuteMoves, AnsweredMoves, BackupMoves, CheckOpMoves, DoOpMoves, VerifyOpMoves, UndoOpMoves,
     UndoEndsMoves, VerdictMoves, PlanRollbackMoves, RollbackAnsweredMoves, RollbackOpMoves, JournalRolledBackMoves
     DEF ExecuteStep, RollbackStep

\* What somebody who is no worker may do to change set x without a worker being the wiser.
SetSpared(x) ==
  /\ row[x].status \in {"pending", "approved"} => row'[x].status = row[x].status
  /\ row'[x].status = "approved" => row[x].status = "approved"
  /\ row[x].status = "applied" => row'[x].status = "applied" \/ x \in hist'.cleared
  /\ x \in hist.cleared => x \in hist'.cleared
  /\ x \in hist'.begun => x \in hist.begun
  /\ x \in hist.lapsed /\ row[x].status = "approved" => x \in hist'.lapsed
  /\ row[x].status = "approved" /\ x \notin hist'.robbed => x \notin hist.robbed /\ copies'[x] = copies[x]

\* What the cleaner, the screens, the person and time leave of the workers.
LEMMA OthersAct ==
  ASSUME TxnInv, TxnTypeOK',
         \A v \in Workers : /\ work'[v].pc = work[v].pc /\ work'[v].kind = work[v].kind
                            /\ work'[v].set = work[v].set /\ work'[v].i = work[v].i
                            /\ work'[v].rec.ops = work[v].rec.ops /\ work'[v].rec.loc = work[v].rec.loc
                            /\ work'[v].rec.open => work[v].rec.open,
         inflight' = inflight,
         \A x \in Sets : SetSpared(x) /\ RowFits(x)' /\ CleanersFit(x)'
  PROVE  TxnInv' /\ LifeCarrying' = LifeCarrying /\ LifeTaking' = LifeTaking
<1>1. OneWorkerEach'
  BY DEF TxnInv, OneWorkerEach
<1>2. ASSUME NEW v \in Workers PROVE WorkerFits(work[v])'
  <2>1. WorkerFits(work[v]) /\ SetSpared(work[v].set)
    BY DEF TxnInv, TxnTypeOK, Worker
  <2>2. work[v].pc \in Copying => work[v].pc \in Carrying
    BY DEF Copying
  <2>3. work[v].pc \in {"approved", "apply", "checked"} => work[v].pc \in Carrying
    BY DEF Carrying
  <2> QED
    BY <2>1, <2>2, <2>3 DEF WorkerFits, SetSpared
<1>3. \A v \in Workers, y \in Sets : (Carries(v, y)' <=> Carries(v, y)) /\ (TakesBack(v, y)' <=> TakesBack(v, y))
  BY DEF Carries, TakesBack
<1>4. ApprovedIsCarriedOut'
  BY <1>3 DEF TxnInv, ApprovedIsCarriedOut, Carries, SetSpared
<1> QED
  BY <1>1, <1>2, <1>3, <1>4 DEF TxnInv, LifeCarrying, LifeTaking

\* A copy goes that no worker needs, or that history notes.
LEMMA DropFact ==
  ASSUME TxnInv, NEW x \in Sets, NEW early \in BOOLEAN, Drop(x, early) \/ UNCHANGED <<copies, hist>>
  PROVE  /\ copies' \in [Sets -> Disks] /\ \A y \in Sets \ {x} : copies'[y] = copies[y]
         /\ hist' \in [begun : SUBSET Sets, lapsed : SUBSET Sets, robbed : SUBSET Sets, cleared : SUBSET Sets]
         /\ hist'.begun = hist.begun /\ hist'.lapsed = hist.lapsed /\ hist'.cleared = hist.cleared
         /\ hist.robbed \subseteq hist'.robbed /\ hist'.robbed \subseteq hist.robbed \cup {x}
         /\ row[x].status = "approved" \/ (early /\ row[x].open) => x \in hist'.robbed \/ copies'[x] = copies[x]
<1>1. TxnTypeOK
  BY DEF TxnInv
<1>2. CASE UNCHANGED <<copies, hist>>
  BY <1>1, <1>2 DEF TxnTypeOK
<1>3. CASE Drop(x, early)
  <2>1. PICK l \in SUBSET Sets :
          l = IF row[x].status = "approved" \/ (early /\ row[x].open) THEN hist.robbed \cup {x} ELSE hist.robbed
    BY <1>1 DEF TxnTypeOK
  <2>2. hist' = [hist EXCEPT !.robbed = l] /\ copies' = [copies EXCEPT ![x] = Nothing]
    BY <1>3, <2>1 DEF Drop
  <2> QED
    BY <1>1, <2>1, <2>2, RestTypes DEF TxnTypeOK
<1> QED
  BY <1>2, <1>3

\* Nothing but copies goes, and none whose window is open, unless history notes it.
LEMMA CopiesGo ==
  ASSUME TxnInv, TxnTypeOK', NEW x \in Sets, NEW early \in BOOLEAN,
         (Drop(x, early) /\ (early \/ ~(row[x].status = "applied" /\ row[x].open))) \/ UNCHANGED <<copies, hist>>,
         UNCHANGED <<disk, row, inflight, work>>,
         \A y \in Sets : CleanersFit(y)'
  PROVE  TxnInv' /\ LifeStep
<1>1. /\ \A y \in Sets \ {x} : copies'[y] = copies[y]
      /\ hist'.begun = hist.begun /\ hist'.lapsed = hist.lapsed /\ hist'.cleared = hist.cleared
      /\ hist.robbed \subseteq hist'.robbed /\ hist'.robbed \subseteq hist.robbed \cup {x}
      /\ row[x].status = "approved" \/ (early /\ row[x].open) => x \in hist'.robbed \/ copies'[x] = copies[x]
  BY DropFact
<1>2. ASSUME NEW y \in Sets PROVE SetSpared(y)
  BY <1>1 DEF SetSpared
<1>3. ASSUME NEW y \in Sets PROVE RowFits(y)'
  <2>1. RowFits(y)
    BY DEF TxnInv
  <2>2. y \notin hist'.robbed => CopyOutlivesWindow(y)'
    <3>1. CASE copies'[y] = copies[y]
      BY <1>1, <2>1, <3>1 DEF RowFits, CopyOutlivesWindow
    <3>2. CASE copies'[y] # copies[y] /\ y \notin hist'.robbed
      <4>1. ~(row[y].status = "applied" /\ row[y].open)
        BY <1>1, <3>2
      <4> QED
        BY <4>1 DEF CopyOutlivesWindow
    <3> QED
      BY <3>1, <3>2
  <2> QED
    BY <1>1, <2>1, <2>2 DEF RowFits
<1>4. TxnInv' /\ LifeCarrying' = LifeCarrying /\ LifeTaking' = LifeTaking
  BY <1>2, <1>3, OthersAct
<1>5. LifeStatus' = LifeStatus /\ LifeWindow' = LifeWindow
  BY DEF LifeStatus, LifeWindow
<1> QED
  BY <1>4, <1>5 DEF LifeStep

\* A cleanup that ended remembers nothing.
LEMMA RestingFact ==
  Resting \in Cleaner /\ Resting.pc = "idle" /\ Resting.todo = {} /\ Resting.victim = {} /\ \A x \in Sets : Resting.kept[x] = NoRow
BY RestTypes DEF Resting, Cleaner

\* The cleaner takes nothing new up, or one row whose window is open; it condemns nobody new, or a set whose row
\* has no open window, or one whose row it read before the verdict.
LEMMA CleanerMoves ==
  ASSUME TxnInv, NEW x \in Sets, NEW early \in BOOLEAN,
         (Drop(x, early) /\ (early \/ ~(row[x].status = "applied" /\ row[x].open))) \/ UNCHANGED <<copies, hist>>,
         UNCHANGED <<disk, row, inflight, work, doomed>>,
         cleaner' \in Cleaner,
         \/ cleaner'.victim = cleaner.victim /\ cleaner'.early = cleaner.early
         \/ \A y \in cleaner'.victim : cleaner'.early \/ (row[y].status \in Terminal /\ ~row[y].open),
         \A y \in Sets : cleaner'.kept[y] \in {NoRow, cleaner.kept[y]} \/ (cleaner'.kept[y] = row[y] /\ row[y].open)
  PROVE  TxnInv' /\ LifeStep
<1>1. TxnTypeOK'
  BY DropFact DEF TxnInv, TxnTypeOK, Cleaner
<1>2. hist'.cleared = hist.cleared
  BY DropFact
<1>3. ASSUME NEW y \in Sets PROVE CleanersFit(y)'
  <2>1. RowFits(y) /\ CleanersFit(y)
    BY DEF TxnInv
  <2>2. CASE cleaner'.kept[y] \in {NoRow, cleaner.kept[y]}
    BY <1>2, <2>1, <2>2 DEF CleanersFit
  <2>3. CASE cleaner'.kept[y] = row[y] /\ row[y].open
    <3>1. row[y].status \in Opened /\ row[y].ops \in OpLists
      BY <2>1, <2>3 DEF RowFits, Opened
    <3> QED
      BY <1>2, <2>1, <2>3, <3>1 DEF CleanersFit
  <2> QED
    BY <2>2, <2>3
<1> QED
  BY <1>1, <1>3, CopiesGo

\* CleanupBackups begins.
LEMMA CleanupStartsMoves ==
  ASSUME TxnInv, CleanupStarts
  PROVE  TxnInv' /\ LifeStep
<1>1. PICK t \in SUBSET Sets : t = {x \in Sets : copies[x] # Nothing}
  OBVIOUS
<1>2. cleaner' = [Resting EXCEPT !.pc = "scan", !.todo = t]
  BY <1>1 DEF CleanupStarts
<1>3. cleaner' \in Cleaner /\ cleaner'.victim = {} /\ cleaner'.kept = Resting.kept
  BY <1>2, RestingFact DEF Cleaner
<1>4. PICK x \in Sets : TRUE
  BY TxnAssumption
<1>5. UNCHANGED <<disk, row, copies, inflight, work, doomed, hist>>
  BY DEF CleanupStarts
<1>6. \A y \in Sets : cleaner'.kept[y] = NoRow
  BY <1>3, RestingFact
<1> QED
  BY <1>3, <1>4, <1>5, <1>6, CleanerMoves

\* CleanupBackups looks at a directory.
LEMMA CleanupScansMoves ==
  ASSUME TxnInv, NEW x \in Sets, CleanupScans(x)
  PROVE  TxnInv' /\ LifeStep
<1>1. cleaner \in Cleaner /\ row[x] \in Row /\ UNCHANGED <<disk, row, copies, inflight, work, doomed, hist>>
  BY DEF TxnInv, TxnTypeOK, CleanupScans
<1>2. PICK t \in SUBSET Sets : t = cleaner.todo \ {x}
  BY <1>1 DEF Cleaner
<1>3. PICK early \in BOOLEAN : early = (row[x].status \notin Terminal)
  OBVIOUS
<1>4. ASSUME NEW pc \in {"orphan", "expired"}, Expired(row[x]),
             cleaner' = [cleaner EXCEPT !.pc = pc, !.todo = @ \ {x}, !.victim = {x}, !.early = row[x].status \notin Terminal]
      PROVE  TxnInv' /\ LifeStep
  <2>1. cleaner' = [cleaner EXCEPT !.pc = pc, !.todo = t, !.victim = {x}, !.early = early]
    BY <1>1, <1>2, <1>3, <1>4 DEF Cleaner
  <2>2. cleaner' \in Cleaner /\ cleaner'.victim = {x} /\ cleaner'.early = early /\ cleaner'.kept = cleaner.kept
    BY <1>1, <2>1 DEF Cleaner
  <2>3. early \/ (row[x].status \in Terminal /\ ~row[x].open)
    BY <1>3, <1>4 DEF Expired
  <2> QED
    BY <1>1, <2>2, <2>3, CleanerMoves
<1>5. CASE /\ ~Expired(row[x])
           /\ cleaner' = [cleaner EXCEPT !.todo = @ \ {x}, !.kept[x] = row[x]]
  <2>1. PICK f \in [Sets -> Row] : f = [cleaner.kept EXCEPT ![x] = row[x]]
    BY <1>1 DEF Cleaner
  <2>2. cleaner' = [cleaner EXCEPT !.todo = t, !.kept = f]
    BY <1>1, <1>2, <1>5, <2>1 DEF Cleaner
  <2>3. cleaner' \in Cleaner /\ cleaner'.victim = cleaner.victim /\ cleaner'.early = cleaner.early /\ cleaner'.kept = f
    BY <1>1, <2>2 DEF Cleaner
  <2>4. \A y \in Sets : cleaner'.kept[y] = cleaner.kept[y] \/ (cleaner'.kept[y] = row[y] /\ row[y].open)
    BY <1>1, <1>5, <2>1, <2>3 DEF Expired, Cleaner
  <2> QED
    BY <1>1, <1>3, <2>3, <2>4, CleanerMoves
<1>6. CASE cleaner' = Resting
  BY <1>1, <1>3, <1>6, RestingFact, CleanerMoves
<1>7. row[x].status = "none" => Expired(row[x])
  BY DEF TxnInv, RowFits, Opened, Expired
<1> QED
  BY <1>4, <1>5, <1>6, <1>7 DEF CleanupScans

\* CleanupBackups removes the directory it condemned, or passes it over.
LEMMA CleanupRemovesMoves ==
  ASSUME TxnInv, NEW x \in Sets, CleanupRemoves(x)
  PROVE  TxnInv' /\ LifeStep
<1>1. cleaner \in Cleaner /\ UNCHANGED <<disk, row, inflight, work, doomed>>
  BY DEF TxnInv, TxnTypeOK, CleanupRemoves
<1>2. PICK early \in BOOLEAN : early = cleaner.early
  BY <1>1 DEF Cleaner
<1>3. early \/ ~(row[x].status = "applied" /\ row[x].open)
  BY <1>2 DEF TxnInv, CleanersFit, CleanupRemoves
<1>4. CASE /\ Drop(x, cleaner.early)
           /\ cleaner' = [cleaner EXCEPT !.pc = "scan", !.kept[x] = NoRow, !.victim = {}, !.early = FALSE]
  <2>1. PICK f \in [Sets -> Row] : f = [cleaner.kept EXCEPT ![x] = NoRow]
    BY <1>1, RestTypes DEF Cleaner
  <2>2. cleaner' = [cleaner EXCEPT !.pc = "scan", !.kept = f, !.victim = {}, !.early = FALSE]
    BY <1>1, <1>4, <2>1 DEF Cleaner
  <2>3. cleaner' \in Cleaner /\ cleaner'.victim = {} /\ cleaner'.kept = f
    BY <1>1, <2>2 DEF Cleaner
  <2>4. \A y \in Sets : cleaner'.kept[y] \in {NoRow, cleaner.kept[y]}
    BY <1>1, <2>1, <2>3 DEF Cleaner
  <2> QED
    BY <1>1, <1>2, <1>3, <1>4, <2>3, <2>4, CleanerMoves
<1>5. CASE cleaner' = Resting /\ UNCHANGED <<copies, hist>>
  BY <1>1, <1>2, <1>5, RestingFact, CleanerMoves
<1>6. CASE /\ cleaner' = [cleaner EXCEPT !.pc = "scan", !.victim = {}, !.early = FALSE]
           /\ UNCHANGED <<copies, hist>>
  <2>1. cleaner' \in Cleaner /\ cleaner'.victim = {} /\ cleaner'.kept = cleaner.kept
    BY <1>1, <1>6 DEF Cleaner
  <2> QED
    BY <1>1, <1>2, <1>6, <2>1, CleanerMoves
<1> QED
  BY <1>4, <1>5, <1>6 DEF CleanupRemoves

\* CleanupBackups ends.
LEMMA CleanupEndsMoves ==
  ASSUME TxnInv, CleanupEnds
  PROVE  TxnInv' /\ LifeStep
<1>1. PICK x \in Sets : TRUE
  BY TxnAssumption
<1> QED
  BY <1>1, RestingFact, CleanerMoves DEF CleanupEnds

\* CleanupBackups closes a window from the row as its scan read it: by then the row may be rolled back, failed or
\* cleared, and never one that Execute still writes.
LEMMA CleanupEvictsMoves ==
  ASSUME TxnInv, NEW x \in Sets, CleanupEvicts(x)
  PROVE  TxnInv' /\ LifeStep
<1>1. /\ cleaner \in Cleaner /\ cleaner.pc = "scan" /\ row[x] \in Row /\ TxnTypeOK /\ RowFits(x) /\ CleanersFit(x)
      /\ UNCHANGED <<disk, copies, inflight, work, doomed>> /\ cleaner.kept[x] # NoRow
  BY DEF TxnInv, TxnTypeOK, Cleaner, CleanupEvicts, Kept
<1>2. PICK kept \in Row : kept = cleaner.kept[x]
  BY <1>1 DEF Cleaner
<1>3. PICK r : r = Closed(kept)
  OBVIOUS
<1>4. /\ kept.status \in Opened /\ kept.ops \in OpLists
      /\ x \in hist.cleared \/ (row[x].status \in Opened /\ kept.status \in {"applied", row[x].status})
  BY <1>1, <1>2 DEF CleanersFit
<1>5. r \in Row /\ r.status = kept.status /\ r.ops = kept.ops /\ ~r.open
  BY <1>2, <1>3, ClosedFact
<1>6. CASE UpdateFails(x) /\ cleaner' = Resting
  <2>1. row[x].status # "approved"
    BY <1>1, <1>4 DEF RowFits, Opened
  <2>2. UNCHANGED <<row, hist>>
    BY <1>1, <1>6, <2>1 DEF UpdateFails, TxnTypeOK
  <2> QED
    BY <1>1, <1>6, <2>2, RestingFact, CleanerMoves
<1>7. CASE Update(x, r) /\ cleaner' = [cleaner EXCEPT !.pc = "evicted", !.victim = {x}] /\ UNCHANGED hist
  <2>1. row[x].status # "none" /\ row' = [row EXCEPT ![x] = r] /\ row'[x] = r /\ \A y \in Sets \ {x} : row'[y] = row[y]
    BY <1>1, <1>7 DEF Update, TxnTypeOK
  <2>2. x \notin hist.cleared /\ row[x].status \in Opened /\ kept.status \in {"applied", row[x].status}
    BY <1>1, <1>4, <2>1 DEF RowFits
  <2>3. cleaner' \in Cleaner /\ cleaner'.victim = {x} /\ cleaner'.kept = cleaner.kept
    BY <1>1, <1>7 DEF Cleaner
  <2>4. TxnTypeOK'
    BY <1>1, <1>5, <1>7, <2>1, <2>3 DEF TxnTypeOK, Cleaner
  <2>5. ASSUME NEW y \in Sets PROVE SetSpared(y) /\ RowFits(y)' /\ CleanersFit(y)'
    <3>1. RowFits(y) /\ CleanersFit(y)
      BY DEF TxnInv
    <3>2. CASE y # x
      BY <1>1, <1>7, <2>1, <2>3, <3>1, <3>2 DEF SetSpared, RowFits, CleanersFit, CopyOutlivesWindow
    <3>3. CASE y = x
      <4>1. SetSpared(x)
        BY <1>1, <1>5, <1>7, <2>1, <2>2, <1>4 DEF SetSpared, Opened
      <4>2. RowFits(x)'
        BY <1>4, <1>5, <1>7, <2>1, <2>2 DEF RowFits, CopyOutlivesWindow, Opened, Terminal
      <4>3. CleanersFit(x)'
        BY <1>1, <1>2, <1>4, <1>5, <1>7, <2>1, <2>2, <2>3 DEF CleanersFit, Opened, Terminal
      <4> QED
        BY <3>3, <4>1, <4>2, <4>3
    <3> QED
      BY <3>2, <3>3
  <2>6. TxnInv' /\ LifeCarrying' = LifeCarrying /\ LifeTaking' = LifeTaking
    BY <1>1, <2>4, <2>5, OthersAct
  <2>7. LifeStatus' = [LifeStatus EXCEPT ![x] = kept.status] /\ LifeStatus[x] = row[x].status
    BY <1>1, <1>5, <2>1 DEF LifeStatus, TxnTypeOK
  <2>8. LifeWindow' = LifeWindow \ {x} /\ (x \in LifeWindow => row[x].status = "applied")
    BY <1>1, <1>5, <2>1 DEF LifeWindow
  <2>9. CASE kept.status = row[x].status
    <3>1. LifeStatus' = LifeStatus
      BY <2>7, <2>9 DEF LifeStatus
    <3>2. CASE x \in LifeWindow
      <4>1. Life!CloseWindow(x)
        BY <2>6, <2>8, <3>1, <3>2 DEF Life!CloseWindow, LifeStatus, LifeWindow, LifeCarrying, LifeTaking
      <4> QED
        BY <2>6, <4>1 DEF LifeStep, Life!LifeNext
    <3>3. CASE x \notin LifeWindow
      BY <2>6, <2>8, <3>1, <3>3 DEF LifeStep
    <3> QED
      BY <3>2, <3>3
  <2>10. CASE kept.status # row[x].status
    <3>1. LifeStatus' = [LifeStatus EXCEPT ![x] = "applied"] /\ LifeStatus[x] \in {"rolled_back", "failed"} /\ LifeWindow' = LifeWindow
      BY <2>2, <2>7, <2>8, <2>10 DEF Opened
    <3>2. Life!Evict(x)
      BY <2>6, <3>1 DEF Life!Evict, Life!Becomes, LifeStatus, LifeWindow, LifeCarrying, LifeTaking
    <3> QED
      BY <2>6, <3>2 DEF LifeStep, Life!LifeNext
  <2> QED
    BY <2>9, <2>10
<1> QED
  BY <1>2, <1>3, <1>6, <1>7 DEF CleanupEvicts

\* A clear handler removes a directory after its rows were written.
LEMMA RemoveDoomedMoves ==
  ASSUME TxnInv, NEW x \in Sets, RemoveDoomed(x)
  PROVE  TxnInv' /\ LifeStep
<1>1. x \in doomed /\ doomed' = doomed \ {x} /\ UNCHANGED <<disk, row, inflight, work, cleaner>>
  BY DEF RemoveDoomed
<1>2. (Drop(x, FALSE) /\ ~(row[x].status = "applied" /\ row[x].open)) \/ UNCHANGED <<copies, hist>>
  BY <1>1 DEF RemoveDoomed, TxnInv, CleanersFit
<1>3. TxnTypeOK' /\ hist'.cleared = hist.cleared
  BY <1>1, <1>2, DropFact DEF TxnInv, TxnTypeOK
<1>4. \A y \in Sets : CleanersFit(y)'
  BY <1>1, <1>3 DEF TxnInv, CleanersFit
<1> QED
  BY <1>1, <1>2, <1>3, <1>4, CopiesGo

\* Clearing the undo copies closes the windows first.
LEMMA ClearBackupsMoves ==
  ASSUME TxnInv, ClearBackups
  PROVE  TxnInv' /\ LifeStep
<1>1. TxnTypeOK /\ WithCopy \subseteq Sets /\ doomed' = doomed \cup WithCopy /\ UNCHANGED <<disk, copies, inflight, work, cleaner, hist>>
  BY DEF TxnInv, ClearBackups, WithCopy, Settled
<1>2. ASSUME NEW x \in Sets
      PROVE  /\ row'[x] \in Row /\ row'[x].status = row[x].status /\ row'[x].ops = row[x].ops
             /\ x \in WithCopy => ~row'[x].open /\ row[x].status \in Terminal
             /\ x \notin WithCopy => row'[x] = row[x]
  <2>1. row[x] \in Row /\ row'[x] = IF x \in WithCopy THEN [Closed(row[x]) EXCEPT !.loc = FALSE] ELSE row[x]
    BY <1>1 DEF ClearBackups, TxnTypeOK
  <2>2. PICK r : r = Closed(row[x])
    OBVIOUS
  <2>3. r \in Row /\ r.status = row[x].status /\ r.ops = row[x].ops /\ ~r.open
    BY <2>1, <2>2, ClosedFact
  <2>4. PICK q : q = [r EXCEPT !.loc = FALSE]
    OBVIOUS
  <2>5. q \in Row /\ q.status = r.status /\ q.ops = r.ops /\ ~q.open
    BY <2>3, <2>4 DEF Row
  <2> QED
    BY <2>1, <2>2, <2>3, <2>4, <2>5 DEF WithCopy, Settled
<1>3. row' = [x \in Sets |-> row'[x]]
  BY DEF ClearBackups
<1>4. TxnTypeOK'
  <2>1. row' \in [Sets -> Row]
    BY <1>2, <1>3
  <2> QED
    BY <1>1, <2>1 DEF TxnTypeOK
<1>5. ASSUME NEW x \in Sets PROVE SetSpared(x) /\ RowFits(x)' /\ CleanersFit(x)'
  <2>1. RowFits(x) /\ CleanersFit(x)
    BY DEF TxnInv
  <2>2. SetSpared(x)
    BY <1>1, <1>2 DEF SetSpared
  <2>3. CASE x \in WithCopy
    BY <1>1, <1>2, <2>1, <2>2, <2>3 DEF RowFits, CleanersFit, CopyOutlivesWindow
  <2>4. CASE x \notin WithCopy
    BY <1>1, <1>2, <2>1, <2>2, <2>4 DEF RowFits, CleanersFit, CopyOutlivesWindow
  <2> QED
    BY <2>3, <2>4
<1>6. TxnInv' /\ LifeCarrying' = LifeCarrying /\ LifeTaking' = LifeTaking
  BY <1>1, <1>4, <1>5, OthersAct
<1>7. LifeStatus' = LifeStatus
  BY <1>2 DEF LifeStatus
<1>8. LifeWindow' = {}
  <2> SUFFICES ASSUME NEW x \in Sets, row'[x].status = "applied", row'[x].open PROVE FALSE
    BY DEF LifeWindow
  <2>1. x \notin WithCopy /\ row[x].open /\ row[x].status = "applied"
    BY <1>2
  <2>2. row[x].loc
    BY <2>1 DEF TxnInv, RowFits
  <2> QED
    BY <2>1, <2>2 DEF WithCopy, Settled, Terminal
<1>9. Life!ClearCopies
  BY <1>6, <1>7, <1>8 DEF Life!ClearCopies, LifeStatus, LifeWindow, LifeCarrying, LifeTaking
<1> QED
  BY <1>6, <1>9 DEF LifeStep, Life!LifeNext

\* Clearing the trace takes the settled rows.
LEMMA DeleteChangeSetsMoves ==
  ASSUME TxnInv, DeleteChangeSets
  PROVE  TxnInv' /\ LifeStep
<1>1. /\ TxnTypeOK /\ Settled \subseteq Sets /\ WithCopy \subseteq Settled /\ doomed' = doomed \cup WithCopy
      /\ UNCHANGED <<disk, copies, inflight, work, cleaner>>
  BY DEF TxnInv, DeleteChangeSets, WithCopy, Settled
<1>2. /\ hist' \in [begun : SUBSET Sets, lapsed : SUBSET Sets, robbed : SUBSET Sets, cleared : SUBSET Sets]
      /\ hist'.begun = hist.begun \ Settled /\ hist'.lapsed = hist.lapsed \ Settled
      /\ hist'.robbed = hist.robbed \ Settled /\ hist'.cleared = hist.cleared \cup Settled
  BY <1>1 DEF DeleteChangeSets, TxnTypeOK
<1>3. /\ row' \in [Sets -> Row]
      /\ \A x \in Settled : row'[x] = NoRow /\ row[x].status \in Terminal
      /\ \A x \in Sets \ Settled : row'[x] = row[x] /\ row[x].status \notin Terminal
  BY <1>1, RestTypes DEF DeleteChangeSets, TxnTypeOK, Settled
<1>4. TxnTypeOK'
  BY <1>1, <1>2, <1>3 DEF TxnTypeOK
<1>5. ASSUME NEW x \in Sets PROVE SetSpared(x) /\ RowFits(x)' /\ CleanersFit(x)'
  <2>1. RowFits(x) /\ CleanersFit(x)
    BY DEF TxnInv
  <2>2. CASE x \in Settled
    <3>1. row'[x].status = "none" /\ ~row'[x].open /\ row[x].status \in Terminal
      BY <1>3, <2>2, RestTypes
    <3> QED
      BY <1>1, <1>2, <2>1, <2>2, <3>1 DEF SetSpared, RowFits, CleanersFit, CopyOutlivesWindow, Terminal
  <2>3. CASE x \notin Settled
    <3>1. row'[x] = row[x] /\ x \notin WithCopy
      BY <1>1, <1>3, <2>3
    <3> QED
      BY <1>1, <1>2, <2>1, <2>3, <3>1 DEF SetSpared, RowFits, CleanersFit, CopyOutlivesWindow
  <2> QED
    BY <2>2, <2>3
<1>6. TxnInv' /\ LifeCarrying' = LifeCarrying /\ LifeTaking' = LifeTaking
  BY <1>1, <1>4, <1>5, OthersAct
<1>7. LifeStatus' = [x \in Sets |-> IF LifeStatus[x] \in Life!Over THEN "none" ELSE LifeStatus[x]]
  BY <1>3, RestTypes DEF LifeStatus, Life!Over, Terminal
<1>8. LifeWindow' = {}
  BY <1>3, RestTypes DEF LifeWindow, Terminal
<1>9. Life!ClearTrace
  BY <1>6, <1>7, <1>8 DEF Life!ClearTrace, LifeStatus, LifeWindow, LifeCarrying, LifeTaking
<1> QED
  BY <1>6, <1>9 DEF LifeStep, Life!LifeNext

\* The person edits a file.
LEMMA UserEditsMoves ==
  ASSUME TxnInv, NEW p \in Paths, NEW u \in Values, UserEdits(p, u)
  PROVE  TxnInv' /\ LifeStep
<1>1. UNCHANGED <<row, copies, inflight, cleaner, doomed, hist>> /\ {p} \in SUBSET Paths
  BY DEF UserEdits
<1>2. ASSUME NEW v \in Workers PROVE work'[v] \in Worker /\ SameWorker(work'[v], work[v])
  BY <1>1, MarkedFact DEF UserEdits, TxnInv, TxnTypeOK
<1>3. work' = [v \in Workers |-> work'[v]] /\ disk' \in Disks
  BY DEF UserEdits, TxnInv, TxnTypeOK, Disks
<1>4. TxnTypeOK'
  <2>1. work' \in [Workers -> Worker]
    BY <1>2, <1>3
  <2> QED
    BY <1>1, <1>3, <2>1 DEF TxnInv, TxnTypeOK
<1>5. \A x \in Sets : SetSpared(x) /\ RowFits(x)' /\ CleanersFit(x)'
  BY <1>1 DEF TxnInv, SetSpared, RowFits, CleanersFit, CopyOutlivesWindow
<1>6. TxnInv' /\ LifeCarrying' = LifeCarrying /\ LifeTaking' = LifeTaking
  BY <1>1, <1>2, <1>4, <1>5, OthersAct DEF SameWorker
<1> QED
  BY <1>1, <1>6 DEF LifeStep, LifeStatus, LifeWindow

\* A window runs out.
LEMMA WindowExpiresMoves ==
  ASSUME TxnInv, NEW x \in Sets, WindowExpires(x)
  PROVE  TxnInv' /\ LifeStep
<1>1. /\ TxnTypeOK /\ row[x] \in Row /\ row[x].open /\ cleaner \in Cleaner
      /\ UNCHANGED <<disk, copies, inflight, doomed, hist>>
  BY DEF TxnInv, TxnTypeOK, Cleaner, WindowExpires
<1>2. PICK r : r = Closed(row[x])
  OBVIOUS
<1>3. r \in Row /\ r.status = row[x].status /\ r.ops = row[x].ops /\ ~r.open
  BY <1>1, <1>2, ClosedFact
<1>4. row' \in [Sets -> Row] /\ row'[x] = r /\ \A y \in Sets \ {x} : row'[y] = row[y]
  BY <1>1, <1>2, <1>3 DEF WindowExpires, TxnTypeOK
<1>5. ASSUME NEW v \in Workers
      PROVE  /\ work'[v] \in Worker
             /\ work'[v].pc = work[v].pc /\ work'[v].kind = work[v].kind
             /\ work'[v].set = work[v].set /\ work'[v].i = work[v].i
             /\ work'[v].rec.ops = work[v].rec.ops /\ work'[v].rec.loc = work[v].rec.loc
             /\ work'[v].rec.open => work[v].rec.open
  <2>1. PICK k \in Worker : k = work[v]
    BY <1>1 DEF TxnTypeOK
  <2>2. PICK q : q = [k.rec EXCEPT !.open = FALSE]
    OBVIOUS
  <2>3. k.rec \in Row
    BY DEF Worker
  <2>4. q \in Row /\ q.ops = k.rec.ops /\ q.loc = k.rec.loc /\ ~q.open
    BY <2>2, <2>3 DEF Row
  <2>5. PICK l : l = [k EXCEPT !.rec = q]
    OBVIOUS
  <2>6. l \in Worker /\ l.pc = k.pc /\ l.kind = k.kind /\ l.set = k.set /\ l.i = k.i /\ l.rec = q
    BY <2>4, <2>5 DEF Worker
  <2>7. work'[v] = IF k.set = x THEN l ELSE k
    BY <2>1, <2>2, <2>5 DEF WindowExpires, Aged, Worker
  <2> QED
    BY <2>1, <2>4, <2>6, <2>7
<1>6. work' = [v \in Workers |-> work'[v]]
  BY DEF WindowExpires
<1>7. Closed(NoRow) = NoRow
  <2>1. PICK z \in Row : z = NoRow
    BY RestTypes
  <2>2. /\ z.status = "none" /\ z.ops = <<>> /\ z.before = Nothing /\ z.open = FALSE /\ z.loc = FALSE /\ z.taint = {}
        /\ z = [status |-> z.status, ops |-> z.ops, before |-> z.before, open |-> z.open, loc |-> z.loc, taint |-> z.taint]
    BY <2>1 DEF NoRow
  <2>3. PICK c : c = Closed(z)
    OBVIOUS
  <2>4. c = [status |-> z.status, ops |-> z.ops, before |-> Nothing, open |-> FALSE, loc |-> z.loc, taint |-> {}]
    BY <2>3 DEF Closed, Row
  <2> QED
    BY <2>1, <2>2, <2>3, <2>4
<1>8. PICK kept \in Row : kept = cleaner.kept[x]
  BY <1>1 DEF Cleaner
<1>9. PICK c : c = Closed(kept)
  OBVIOUS
<1>10. c \in Row /\ c.status = kept.status /\ c.ops = kept.ops /\ (kept = NoRow => c = NoRow)
  BY <1>7, <1>8, <1>9, ClosedFact
<1>11. /\ cleaner' \in Cleaner /\ cleaner'.victim = cleaner.victim /\ cleaner'.early = cleaner.early
       /\ cleaner'.kept[x] = c /\ \A y \in Sets \ {x} : cleaner'.kept[y] = cleaner.kept[y]
  <2>1. PICK f \in [Sets -> Row] : f = [cleaner.kept EXCEPT ![x] = c]
    BY <1>1, <1>10 DEF Cleaner
  <2>2. cleaner' = [cleaner EXCEPT !.kept = f]
    BY <1>1, <1>8, <1>9, <2>1 DEF WindowExpires, Cleaner
  <2> QED
    BY <1>1, <2>1, <2>2 DEF Cleaner
<1>12. TxnTypeOK'
  <2>1. work' \in [Workers -> Worker]
    BY <1>5, <1>6
  <2> QED
    BY <1>1, <1>4, <1>11, <2>1 DEF TxnTypeOK, Cleaner
<1>13. ASSUME NEW y \in Sets PROVE SetSpared(y) /\ RowFits(y)' /\ CleanersFit(y)'
  <2>1. RowFits(y) /\ CleanersFit(y)
    BY DEF TxnInv
  <2>2. CASE y # x
    BY <1>1, <1>4, <1>11, <2>1, <2>2 DEF SetSpared, RowFits, CleanersFit, CopyOutlivesWindow
  <2>3. CASE y = x
    <3>1. SetSpared(x) /\ RowFits(x)'
      BY <1>1, <1>3, <1>4, <2>1, <2>3 DEF SetSpared, RowFits, CopyOutlivesWindow
    <3>2. CleanersFit(x)'
      <4>1. c # NoRow => kept # NoRow
        BY <1>10
      <4> QED
        BY <1>1, <1>3, <1>4, <1>8, <1>10, <1>11, <2>1, <2>3, <4>1 DEF CleanersFit
    <3> QED
      BY <2>3, <3>1, <3>2
  <2> QED
    BY <2>2, <2>3
<1>14. TxnInv' /\ LifeCarrying' = LifeCarrying /\ LifeTaking' = LifeTaking
  BY <1>1, <1>5, <1>12, <1>13, OthersAct
<1>15. LifeStatus' = LifeStatus
  BY <1>3, <1>4 DEF LifeStatus
<1>16. LifeWindow' = LifeWindow \ {x}
  BY <1>3, <1>4 DEF LifeWindow
<1>17. CASE x \in LifeWindow
  <2>1. Life!CloseWindow(x)
    BY <1>14, <1>15, <1>16, <1>17 DEF Life!CloseWindow, LifeStatus, LifeWindow, LifeCarrying, LifeTaking
  <2> QED
    BY <1>14, <2>1 DEF LifeStep, Life!LifeNext
<1>18. CASE x \notin LifeWindow
  BY <1>14, <1>15, <1>16, <1>18 DEF LifeStep
<1> QED
  BY <1>17, <1>18

\* The process dies and Recover runs: nobody is at work, and no row says approved.
LEMMA CrashMoves ==
  ASSUME TxnInv, CrashAndRecover
  PROVE  TxnInv' /\ LifeStep
<1>1. /\ TxnTypeOK /\ inflight' = {} /\ cleaner' = Resting /\ doomed' = {} /\ UNCHANGED <<disk, copies>>
      /\ work' = [w \in Workers |-> Idle]
  BY DEF TxnInv, CrashAndRecover
<1>2. /\ hist' \in [begun : SUBSET Sets, lapsed : SUBSET Sets, robbed : SUBSET Sets, cleared : SUBSET Sets]
      /\ hist'.begun = hist.begun /\ hist'.robbed = hist.robbed /\ hist'.cleared = hist.cleared
  BY <1>1 DEF CrashAndRecover, TxnTypeOK
<1>3. ASSUME NEW x \in Sets
      PROVE  /\ row'[x] \in Row /\ row'[x].ops = row[x].ops /\ row'[x].open = row[x].open /\ row'[x].loc = row[x].loc
             /\ row'[x].status = IF row[x].status \in {"pending", "approved"} THEN "failed" ELSE row[x].status
  <2>1. row[x] \in Row /\ row'[x] = Recovered(row[x]) /\ "failed" \in Statuses
    BY <1>1 DEF CrashAndRecover, TxnTypeOK, Statuses, Terminal
  <2>2. PICK r : r = [row[x] EXCEPT !.status = "failed"]
    OBVIOUS
  <2>3. r \in Row /\ r.ops = row[x].ops /\ r.open = row[x].open /\ r.loc = row[x].loc /\ r.status = "failed"
    BY <2>1, <2>2 DEF Row
  <2> QED
    BY <2>1, <2>2, <2>3 DEF Recovered
<1>4. row' = [x \in Sets |-> row'[x]]
  BY DEF CrashAndRecover
<1>5. TxnTypeOK'
  <2>1. row' \in [Sets -> Row] /\ work' \in [Workers -> Worker]
    BY <1>1, <1>3, <1>4, RestTypes
  <2> QED
    BY <1>1, <1>2, <2>1, RestingFact DEF TxnTypeOK, Cleaner
<1>6. \A w \in Workers : work'[w].pc = "idle" /\ work'[w].kind = "execute" /\ WorkerFits(work[w])'
  BY <1>1, RestTypes DEF WorkerFits, Carrying, Copying
<1>7. ASSUME NEW x \in Sets PROVE RowFits(x)' /\ CleanersFit(x)'
  <2>1. RowFits(x)
    BY DEF TxnInv
  <2>2. RowFits(x)'
    <3>1. row'[x].status = "applied" => row[x].status = "applied"
      BY <1>3
    <3>2. x \notin hist.robbed => CopyOutlivesWindow(x)'
      BY <1>1, <1>3, <2>1, <3>1 DEF RowFits, CopyOutlivesWindow
    <3> QED
      BY <1>2, <1>3, <2>1, <3>2 DEF RowFits, Opened, Terminal
  <2>3. CleanersFit(x)'
    BY <1>1, RestingFact DEF CleanersFit
  <2> QED
    BY <2>2, <2>3
<1>8. OneWorkerEach' /\ ApprovedIsCarriedOut'
  BY <1>3, <1>6 DEF OneWorkerEach, ApprovedIsCarriedOut
<1>9. TxnInv'
  BY <1>5, <1>6, <1>7, <1>8 DEF TxnInv
<1>10. LifeCarrying' = {} /\ LifeTaking' = {}
  BY <1>6 DEF LifeCarrying, LifeTaking, Carries, TakesBack
<1>11. LifeWindow' = LifeWindow
  BY <1>3 DEF LifeWindow
<1>12. LifeStatus' = [x \in Sets |-> IF LifeStatus[x] \in {"pending", "approved"} THEN "failed" ELSE LifeStatus[x]]
  BY <1>3 DEF LifeStatus
<1>13. Life!Crash
  BY <1>10, <1>11, <1>12 DEF Life!Crash, LifeStatus, LifeWindow, LifeCarrying, LifeTaking
<1> QED
  BY <1>9, <1>13 DEF LifeStep, Life!LifeNext

\* An empty table fits, and is the beginning of the life.
LEMMA TxnStarts ==
  ASSUME Init
  PROVE  TxnInv /\ Life!LifeInit
<1>1. TxnTypeOK
  BY RestTypes, RestingFact DEF Init, TxnTypeOK, Cleaner
<1>2. \A x \in Sets : row[x].status = "none" /\ ~row[x].open
  BY RestTypes DEF Init
<1>3. \A w \in Workers : work[w].pc = "idle" /\ work[w].kind = "execute" /\ WorkerFits(work[w])
  BY RestTypes DEF Init, WorkerFits, Carrying, Copying
<1>4. \A x \in Sets : RowFits(x) /\ CleanersFit(x)
  BY <1>2, RestingFact DEF Init, RowFits, CleanersFit, CopyOutlivesWindow
<1>5. OneWorkerEach /\ ApprovedIsCarriedOut
  BY <1>2, <1>3 DEF OneWorkerEach, ApprovedIsCarriedOut
<1>6. Life!LifeInit
  BY <1>2, <1>3 DEF Life!LifeInit, Carries, TakesBack
<1> QED
  BY <1>1, <1>3, <1>4, <1>5, <1>6 DEF TxnInv

\* Every step keeps the invariant and is a step of the life.
LEMMA TxnMoves ==
  ASSUME TxnInv, Next
  PROVE  TxnInv' /\ LifeStep
<1>1. CASE \E w \in Workers : ExecuteStep(w) \/ RollbackStep(w)
  BY <1>1, WorkerMoves
<1>2. CASE CleanupStep
  BY <1>2, CleanupStartsMoves, CleanupEndsMoves, CleanupScansMoves, CleanupEvictsMoves, CleanupRemovesMoves DEF CleanupStep
<1>3. CASE ScreenStep
  BY <1>3, ClearBackupsMoves, DeleteChangeSetsMoves, RemoveDoomedMoves DEF ScreenStep
<1>4. CASE WorldStep
  BY <1>4, UserEditsMoves, WindowExpiresMoves, CrashMoves DEF WorldStep
<1> QED
  BY <1>1, <1>2, <1>3, <1>4 DEF Next

\* So does a step of somebody else.
LEMMA TxnRests ==
  ASSUME TxnInv, UNCHANGED vars
  PROVE  TxnInv' /\ UNCHANGED <<LifeStatus, LifeWindow, LifeCarrying, LifeTaking>>
<1>1. UNCHANGED <<disk, row, copies, inflight, work, cleaner, doomed, hist>>
  BY DEF vars
<1>2. TxnTypeOK' /\ OneWorkerEach' /\ ApprovedIsCarriedOut'
  BY <1>1 DEF TxnInv, TxnTypeOK, OneWorkerEach, ApprovedIsCarriedOut
<1>3. \A w \in Workers : WorkerFits(work[w])'
  BY <1>1 DEF TxnInv, WorkerFits
<1>4. \A x \in Sets : RowFits(x)' /\ CleanersFit(x)'
  BY <1>1 DEF TxnInv, RowFits, CleanersFit, CopyOutlivesWindow
<1> QED
  BY <1>1, <1>2, <1>3, <1>4 DEF TxnInv, LifeStatus, LifeWindow, LifeCarrying, LifeTaking, Carries, TakesBack

\* The inductive invariant holds of every state the transaction engine reaches.
THEOREM TxnHolds == Spec => []TxnInv
<1>1. Init => TxnInv
  BY TxnStarts
<1>2. TxnInv /\ [Next]_vars => TxnInv'
  BY TxnMoves, TxnRests
<1> QED
  BY <1>1, <1>2, PTL DEF Spec

\* The types of the rows, the workers and the histories.
THEOREM TxnTypes == Spec => []TxnTypeOK
<1>1. TxnInv => TxnTypeOK
  BY DEF TxnInv
<1> QED
  BY <1>1, TxnHolds, PTL

\* A change set starts changing the disk at most once: claim lets one goroutine in per id, takes up only a row that is
\* still pending, and step 9 writes approved before the first operation.
THEOREM BeginsOnce == Spec => []AppliesOnce
<1>1. TxnInv => AppliesOnce
  BY DEF TxnInv, AppliesOnce, WorkerFits
<1> QED
  BY <1>1, TxnHolds, PTL

\* A row says approved only while a goroutine carries the set out, or after a status write that failed; Recover sees to
\* it after a crash.
THEOREM ApprovedHasItsWorker == Spec => []ApprovedIsCarriedOut
<1>1. TxnInv => ApprovedIsCarriedOut
  BY DEF TxnInv
<1> QED
  BY <1>1, TxnHolds, PTL

\* While a window is open its copies are there, for every set whose copy was not removed under it while it was being
\* applied: eviction, clearing and expiry close the window before the copy goes.
THEOREM CopiesOutliveWindows == Spec => []WindowClosesFirst
<1>1. TxnInv => WindowClosesFirst
  BY DEF TxnInv, WindowClosesFirst, RowFits
<1> QED
  BY <1>1, TxnHolds, PTL

\* The transaction engine implements ChangeSetLife: every step of every goroutine, cleaner, screen and crash maps to one
\* step of a row's life or to none.
THEOREM TxnImplementsLife == Spec => LivesItsLife
<1>1. Init => Life!LifeInit
  BY TxnStarts
<1>2. TxnInv /\ [Next]_vars => [Life!LifeNext]_(Life!lifeVars)
  <2> SUFFICES ASSUME TxnInv, [Next]_vars PROVE [Life!LifeNext]_(Life!lifeVars)
    OBVIOUS
  <2>1. LifeStep
    BY TxnMoves, TxnRests DEF LifeStep
  <2> QED
    BY <2>1 DEF LifeStep, Life!lifeVars, LifeStatus, LifeWindow, LifeCarrying, LifeTaking
<1> QED
  BY <1>1, <1>2, TxnHolds, PTL DEF Spec, LivesItsLife, Life!LifeSpec

=============================================================================
