-------------------------------- MODULE Txn --------------------------------
(***************************************************************************)
(* The file transaction: companion/internal/txn with its rows in           *)
(* companion/internal/store.                                               *)
(*                                                                         *)
(* A worker is a goroutine inside Engine.Execute or Engine.Rollback.  Each *)
(* store statement, each file system call and each critical section of     *)
(* Engine.mu is a step.  Around them run the person who edits the same     *)
(* files, the hourly CleanupBackups, the screen that clears undo copies or *)
(* the trace, time, and crashes, after which Recover runs before anything  *)
(* else.  The approver is any approver: what it answers is chosen freely.  *)
(***************************************************************************)
EXTENDS FileOps

CONSTANTS
  Workers,    \* goroutines that may be inside Execute or Rollback
  Sets,       \* change set ids
  OpLists,    \* the operation lists a caller may send
  MaxCopies,  \* the backup area's size budget, counted in change sets
  Faults      \* which calls may fail: "disk", "store"

ASSUME TxnAssumption ==
  /\ OpLists \subseteq Seq(Operations)
  /\ <<>> \notin OpLists
  /\ Sets # {}
  /\ MaxCopies \in Nat
  /\ Faults \subseteq {"disk", "store"}

VARIABLES
  disk,       \* the workspace
  row,        \* the change_sets table
  copies,     \* BackupRoot: what each set's directory holds
  inflight,   \* Engine.inflight
  work,       \* the workers
  cleaner,    \* the CleanupBackups goroutine
  doomed,     \* directories a clear handler still has to remove
  hist        \* history: the ids whose set began to write, whose status
              \* write failed, whose copy went while the set was being applied
              \* or by a reading of its row from then, and whose row the
              \* person cleared

vars == <<disk, row, copies, inflight, work, cleaner, doomed, hist>>

Terminal == {"applied", "denied", "failed", "rolled_back"}
Statuses == {"none", "pending", "approved"} \cup Terminal

\* A row.  open says that rollback_deadline is set and ahead; loc that
\* backup_location is set.  before and taint are history, kept for an applied
\* set: what its paths held when it was planned, and which of them others wrote
\* between then and the journal entry.
Row == [status : Statuses, ops : OpLists \cup {<<>>}, before : Disks,
        open : BOOLEAN, loc : BOOLEAN, taint : SUBSET Paths]

\* A worker.  rec is its copy of the row, old what it read of the pre-images,
\* torn that an undo step failed.  dirty is history: the paths others wrote
\* since it planned.
Worker == [pc : {"idle", "claimed", "asking", "approved", "apply", "checked",
                 "verify", "undo", "undone", "journal"},
           kind : {"execute", "rollback"}, set : Sets, i : Nat, rec : Row,
           old : Disks, torn : BOOLEAN, dirty : SUBSET Paths]

Nothing == [p \in Paths |-> Absent]
NoRow == [status |-> "none", ops |-> <<>>, before |-> Nothing,
          open |-> FALSE, loc |-> FALSE, taint |-> {}]
Idle == [pc |-> "idle", kind |-> "execute", set |-> CHOOSE x \in Sets : TRUE,
         i |-> 0, rec |-> NoRow, old |-> Nothing, torn |-> FALSE, dirty |-> {}]

\* The cleaner.  todo is what ReadDir found and is still to be looked at, kept
\* the rows it read, victim the set whose directory it is about to remove;
\* early is history: that set had no verdict yet when its row was read.
Cleaner == [pc : {"idle", "scan", "orphan", "expired", "evicted"}, todo : SUBSET Sets,
            kept : [Sets -> Row], victim : SUBSET Sets, early : BOOLEAN]
Resting == [pc |-> "idle", todo |-> {}, kept |-> [x \in Sets |-> NoRow],
            victim |-> {}, early |-> FALSE]

TxnTypeOK ==
  /\ disk \in Disks
  /\ row \in [Sets -> Row]
  /\ copies \in [Sets -> Disks]
  /\ inflight \subseteq Sets \X {"execute", "rollback"}
  /\ work \in [Workers -> Worker]
  /\ cleaner \in Cleaner
  /\ doomed \subseteq Sets
  /\ hist \in [begun : SUBSET Sets, lapsed : SUBSET Sets, robbed : SUBSET Sets,
               cleared : SUBSET Sets]

Init ==
  /\ disk \in Disks
  /\ row = [x \in Sets |-> NoRow]
  /\ copies = [x \in Sets |-> Nothing]
  /\ inflight = {}
  /\ work = [w \in Workers |-> Idle]
  /\ cleaner = Resting
  /\ doomed = {}
  /\ hist = [begun |-> {}, lapsed |-> {}, robbed |-> {}, cleared |-> {}]

----------------------------------------------------------------------------
\* Steps of a worker.

At(w, kind, pc) == work[w].kind = kind /\ work[w].pc = pc
Ops(w) == work[w].rec.ops
Op(w) == Ops(w)[work[w].i]

Moves(w, next) == work' = [work EXCEPT ![w] = next]
Goes(w, pc) == Moves(w, [work[w] EXCEPT !.pc = pc])

\* The deferred release, and everything the goroutine knew with it.
Release(w) ==
  /\ Moves(w, Idle)
  /\ inflight' = inflight \ {<<work[w].set, work[w].kind>>}

\* A planned worker whose paths somebody else changes is marked.
Marked(wk, changed) ==
  IF wk.pc \in {"idle", "claimed"} THEN wk
  ELSE [wk EXCEPT !.dirty = @ \cup (changed \cap AllPathsOf(wk.rec.ops))]

Differ(d) == {p \in Paths : d[p] # disk[p]}

\* Worker w leaves disk d behind and goes on as next.
Writes(w, d, next) ==
  /\ disk' = d
  /\ work' = [v \in Workers |-> IF v = w THEN next ELSE Marked(work[v], Differ(d))]

\* UpdateChangeSet: the whole mutable row, if there still is a row.
Update(x, rec) ==
  /\ row[x].status # "none"
  /\ row' = [row EXCEPT ![x] = rec]

\* Once the window is closed, or a status is reached that no rollback can
\* follow, nobody asks for the history any more.
Closed(rec) == [rec EXCEPT !.open = FALSE, !.before = Nothing, !.taint = {}]
Ended(rec, status) == [rec EXCEPT !.status = status, !.before = Nothing, !.taint = {}]

\* UpdateChangeSet with its error: no such row, or a store that failed.
UpdateFails(x) ==
  /\ row[x].status = "none" \/ "store" \in Faults
  /\ hist' = [hist EXCEPT !.lapsed = IF row[x].status = "approved" THEN @ \cup {x} ELSE @]
  /\ UNCHANGED row

\* finish: a status nobody hears about when it cannot be written.
Finish(w, rec) ==
  /\ \/ Update(work[w].set, rec) /\ UNCHANGED hist
     \/ UpdateFails(work[w].set)
  /\ Release(w)

\* A claim that does not look whether the id is taken.
ClaimUnguarded(w, kind, x, ops) ==
  /\ work[w].pc = "idle"
  /\ inflight' = inflight \cup {<<x, kind>>}
  /\ Moves(w, [Idle EXCEPT !.pc = "claimed", !.kind = kind, !.set = x, !.rec.ops = ops])
  /\ UNCHANGED <<disk, row, copies, cleaner, doomed, hist>>

\* While another caller holds the id a call is refused and changes nothing.
Claim(w, kind, x, ops) ==
  /\ work[w].pc = "idle"
  /\ <<x, kind>> \notin inflight
  /\ inflight' = inflight \cup {<<x, kind>>}
  /\ Moves(w, [Idle EXCEPT !.pc = "claimed", !.kind = kind, !.set = x, !.rec.ops = ops])
  /\ UNCHANGED <<disk, row, copies, cleaner, doomed, hist>>

\* A retry that takes a denied set up again.
ResumableAfterDenial(x) == row[x].status \in {"none", "pending", "denied"}

\* claim's reading of the row, then steps 2 to 8 and the pending row.  Ids are
\* fresh: using one again after the person cleared its row is left out.
Resumable(x) == row[x].status = "pending" \/ (row[x].status = "none" /\ x \notin hist.cleared)

\* CreateChangeSet.
Created(ops) == [NoRow EXCEPT !.status = "pending", !.ops = ops]

PlanExecute(w) ==
  LET x == work[w].set
      verdict == Plan(Ops(w), disk)
      rec == IF row[x].status = "pending" THEN row[x] ELSE Created(Ops(w))
  IN /\ At(w, "execute", "claimed")
     /\ \/ /\ \/ ~ Resumable(x)
              \/ row[x].status = "pending" /\ row[x].ops # Ops(w)
              \/ verdict = "error"
              \/ "store" \in Faults
           /\ Release(w)
           /\ UNCHANGED <<row, hist>>
        \/ /\ Resumable(x)
           /\ row[x].status = "pending" => row[x].ops = Ops(w)
           /\ verdict = "conflict"
           /\ \/ row[x].status = "pending" /\ Finish(w, Ended(row[x], "failed"))
              \/ row[x].status = "none" /\ Release(w) /\ UNCHANGED <<row, hist>>
        \/ /\ Resumable(x)
           /\ row[x].status = "pending" => row[x].ops = Ops(w)
           /\ verdict = "ok"
           /\ row' = [row EXCEPT ![x] = rec]
           /\ Moves(w, [work[w] EXCEPT !.pc = "asking", !.rec = rec,
                                       !.old = Remembered(Ops(w), disk)])
           /\ UNCHANGED <<inflight, hist>>
     /\ UNCHANGED <<disk, copies, cleaner, doomed>>

\* Step 9.  An error fails the set, no answer in time leaves it pending, a no
\* ends it, a yes is recorded before anything is touched.
Answered(w, answer) ==
  LET rec == work[w].rec
      x == work[w].set
  IN /\ At(w, "execute", "asking")
     /\ \/ answer = "error" /\ Finish(w, Ended(rec, "failed"))
        \/ answer = "pending" /\ Release(w) /\ UNCHANGED <<row, hist>>
        \/ answer = "no" /\ Finish(w, Ended(rec, "denied"))
        \/ /\ answer = "yes"
           /\ Update(x, [rec EXCEPT !.status = "approved"])
           /\ Moves(w, [work[w] EXCEPT !.pc = "approved", !.rec.status = "approved"])
           /\ UNCHANGED <<inflight, hist>>
        \/ answer = "yes" /\ UpdateFails(x) /\ Release(w)
     /\ UNCHANGED <<disk, copies, cleaner, doomed>>

\* Step 10: durable copies before any change.
Backup(w) ==
  LET x == work[w].set
      ok == \A i \in DOMAIN Ops(w) : CanCopy(Ops(w)[i], work[w].old, disk)
  IN /\ At(w, "execute", "approved")
     /\ \/ /\ ok
           /\ copies' = [copies EXCEPT ![x] = Copied(Ops(w), disk)]
           /\ Moves(w, [work[w] EXCEPT !.pc = "apply", !.i = 1, !.rec.loc = TRUE])
           /\ UNCHANGED <<row, inflight, hist>>
        \/ /\ ~ ok \/ "disk" \in Faults
           /\ copies' = [copies EXCEPT ![x] = Nothing]
           /\ Finish(w, Ended(work[w].rec, "failed"))
     /\ UNCHANGED <<disk, cleaner, doomed>>

\* Step 11, the look before each operation.
CheckOp(w) ==
  /\ At(w, "execute", "apply")
  /\ IF StillAtBase(Op(w), work[w].old, disk)
     THEN Goes(w, "checked")
     ELSE Moves(w, [work[w] EXCEPT !.pc = "undo", !.i = @ - 1])
  /\ UNCHANGED <<disk, row, copies, inflight, cleaner, doomed, hist>>

\* Step 11, the operation itself.
NextOp(w) ==
  IF work[w].i = Len(Ops(w)) THEN [work[w] EXCEPT !.pc = "verify", !.i = 1]
  ELSE [work[w] EXCEPT !.pc = "apply", !.i = @ + 1]

DoOp(w) ==
  LET after == ApplyOp(Op(w), work[w].old, disk)
  IN /\ At(w, "execute", "checked")
     /\ \/ \E d \in after : Writes(w, d, NextOp(w))
        \/ /\ after = {} \/ "disk" \in Faults
           /\ Moves(w, [work[w] EXCEPT !.pc = "undo", !.i = @ - 1])
           /\ UNCHANGED disk
     /\ hist' = [hist EXCEPT !.begun = @ \cup {work[w].set}]
     /\ UNCHANGED <<row, copies, inflight, cleaner, doomed>>

\* Step 12.
VerifyOp(w) ==
  LET last == Len(Ops(w))
  IN /\ At(w, "execute", "verify")
     /\ IF ~ Landed(Op(w), disk)
        THEN Moves(w, [work[w] EXCEPT !.pc = "undo", !.i = last])
        ELSE IF work[w].i = last THEN Goes(w, "journal")
        ELSE Moves(w, [work[w] EXCEPT !.i = @ + 1])
     /\ UNCHANGED <<disk, row, copies, inflight, cleaner, doomed, hist>>

\* The deferred undo: what was done, last first; a step that fails is noted
\* and the rest go on.
UndoOp(w) ==
  LET wk == work[w]
      after == ReverseOp(Op(w), wk.old, copies[wk.set], disk)
  IN /\ At(w, "execute", "undo") /\ wk.i > 0
     /\ \/ \E d \in after : Writes(w, d, [wk EXCEPT !.i = @ - 1])
        \/ /\ after = {} \/ "disk" \in Faults
           /\ Moves(w, [wk EXCEPT !.i = @ - 1, !.torn = TRUE])
           /\ UNCHANGED disk
     /\ UNCHANGED <<row, copies, inflight, cleaner, doomed, hist>>

UndoEnds(w) ==
  /\ At(w, "execute", "undo") /\ work[w].i = 0
  /\ Goes(w, "undone")
  /\ UNCHANGED <<disk, row, copies, inflight, cleaner, doomed, hist>>

ExecuteFails(w) ==
  /\ At(w, "execute", "undone")
  /\ Finish(w, Ended(work[w].rec, "failed"))
  /\ UNCHANGED <<disk, copies, cleaner, doomed>>

\* Step 13.
JournalApplied(w) ==
  LET x == work[w].set
  IN /\ At(w, "execute", "journal")
     /\ \/ /\ Update(x, [work[w].rec EXCEPT !.status = "applied", !.open = TRUE,
                          !.before = work[w].old, !.taint = work[w].dirty])
           /\ UNCHANGED hist
        \/ UpdateFails(x)
     /\ Release(w)
     /\ UNCHANGED <<disk, copies, cleaner, doomed>>

----------------------------------------------------------------------------
\* Rollback.

\* The row must be applied and its window open; then the disk and the copy
\* are read once, before the question.
PlanRollback(w) ==
  LET x == work[w].set
      ready == /\ row[x].status = "applied"
               /\ row[x].open
               /\ CanRollBack(row[x].ops, copies[x], disk)
  IN /\ At(w, "rollback", "claimed")
     /\ \/ /\ ready
           /\ Moves(w, [work[w] EXCEPT !.pc = "asking", !.rec = row[x],
                                       !.old = copies[x], !.dirty = row[x].taint])
           /\ UNCHANGED inflight
        \/ (~ ready \/ "store" \in Faults) /\ Release(w)
     /\ UNCHANGED <<disk, row, copies, cleaner, doomed, hist>>

\* Anything but a yes leaves the row as it is.
RollbackAnswered(w, answer) ==
  /\ At(w, "rollback", "asking")
  /\ \/ /\ answer = "yes"
        /\ Moves(w, [work[w] EXCEPT !.pc = "apply", !.i = Len(Ops(w))])
        /\ UNCHANGED inflight
     \/ answer # "yes" /\ Release(w)
  /\ UNCHANGED <<disk, row, copies, cleaner, doomed, hist>>

\* applyRollback: the inverse of each operation, last first, with no second
\* look at the disk; the first failure ends it.
RollbackOp(w) ==
  LET wk == work[w]
      after == ReverseOp(Op(w), wk.old, copies[wk.set], disk)
      next == [wk EXCEPT !.i = @ - 1, !.pc = IF wk.i = 1 THEN "journal" ELSE "apply"]
  IN /\ At(w, "rollback", "apply")
     /\ \/ /\ \E d \in after : Writes(w, d, next)
           /\ UNCHANGED <<row, inflight, hist>>
        \/ /\ after = {} \/ "disk" \in Faults
           /\ Finish(w, Ended(wk.rec, "failed"))
           /\ UNCHANGED disk
     /\ UNCHANGED <<copies, cleaner, doomed>>

JournalRolledBack(w) ==
  LET x == work[w].set
  IN /\ At(w, "rollback", "journal")
     /\ \/ Update(x, Ended(work[w].rec, "rolled_back")) /\ UNCHANGED hist
        \/ UpdateFails(x)
     /\ Release(w)
     /\ UNCHANGED <<disk, copies, cleaner, doomed>>

----------------------------------------------------------------------------
\* CleanupBackups, the clear handlers, the person, time and crashes.

\* A copy goes; history notes whose goes while its set is being applied, or
\* under an open window by a reading of the row from before the verdict.
Drop(x, early) ==
  /\ copies' = [copies EXCEPT ![x] = Nothing]
  /\ hist' = [hist EXCEPT !.robbed =
                IF row[x].status = "approved" \/ (early /\ row[x].open)
                THEN @ \cup {x} ELSE @]

\* ReadDir over the backup area; a cleanup that finds nothing there ends at once.
CleanupStarts ==
  /\ cleaner.pc = "idle"
  /\ \E x \in Sets : copies[x] # Nothing
  /\ cleaner' = [Resting EXCEPT !.pc = "scan", !.todo = {x \in Sets : copies[x] # Nothing}]
  /\ UNCHANGED <<disk, row, copies, inflight, work, doomed, hist>>

\* now.After(RollbackDeadline): a deadline that was never set is long past.
Expired(rec) == ~ rec.open

\* One directory of the scan: its row is read, and what the row says decides.
\* A directory without a row is an orphan, one whose window is past is to go,
\* any other is kept.  A store that fails ends the cleanup.
CleanupScans(x) ==
  LET doomedAs(pc) == [cleaner EXCEPT !.pc = pc, !.todo = @ \ {x}, !.victim = {x},
                                      !.early = row[x].status \notin Terminal]
  IN /\ cleaner.pc = "scan" /\ x \in cleaner.todo
     /\ \/ /\ row[x].status = "none"
           /\ cleaner' = doomedAs("orphan")
        \/ /\ row[x].status # "none" /\ Expired(row[x])
           /\ cleaner' = doomedAs("expired")
        \/ /\ ~ Expired(row[x])
           /\ cleaner' = [cleaner EXCEPT !.todo = @ \ {x}, !.kept[x] = row[x]]
        \/ "store" \in Faults /\ cleaner' = Resting
     /\ UNCHANGED <<disk, row, copies, inflight, work, doomed, hist>>

\* Size pressure: while the kept copies exceed the budget, one of them has
\* its window closed, from the row as the scan read it.  AppliedAt decides
\* which goes first; any may be the oldest.
Kept == {x \in Sets : cleaner.kept[x] # NoRow}

CleanupEvicts(x) ==
  LET rec == Closed(cleaner.kept[x])
  IN /\ cleaner.pc = "scan" /\ cleaner.todo = {}
     /\ x \in Kept /\ Cardinality(Kept) > MaxCopies
     /\ \/ /\ Update(x, rec)
           /\ cleaner' = [cleaner EXCEPT !.pc = "evicted", !.victim = {x}]
           /\ UNCHANGED hist
        \/ UpdateFails(x) /\ cleaner' = Resting
     /\ UNCHANGED <<disk, copies, inflight, work, doomed>>

\* RemoveAll, a call of its own: it goes by the row that was read, whatever the
\* row says by now.  An orphan that cannot be removed is passed over, any other
\* failure ends the cleanup.
CleanupRemoves(x) ==
  /\ cleaner.pc \in {"orphan", "expired", "evicted"} /\ x \in cleaner.victim
  /\ \/ /\ Drop(x, cleaner.early)
        /\ cleaner' = [cleaner EXCEPT !.pc = "scan", !.kept[x] = NoRow,
                                      !.victim = {}, !.early = FALSE]
     \/ /\ "disk" \in Faults
        /\ cleaner' = IF cleaner.pc = "orphan"
                      THEN [cleaner EXCEPT !.pc = "scan", !.victim = {}, !.early = FALSE]
                      ELSE Resting
        /\ UNCHANGED <<copies, hist>>
  /\ UNCHANGED <<disk, row, inflight, work, doomed>>

CleanupEnds ==
  /\ cleaner.pc = "scan" /\ cleaner.todo = {}
  /\ Cardinality(Kept) <= MaxCopies
  /\ cleaner' = Resting
  /\ UNCHANGED <<disk, row, copies, inflight, work, doomed, hist>>

\* ClearBackups and DeleteChangeSets leave the sets on the gate alone; their
\* handlers then remove the directories.
Settled == {x \in Sets : row[x].status \in Terminal}
WithCopy == {x \in Settled : row[x].loc}

\* Clearing the copies without the windows.
ClearBackupsOnly ==
  /\ WithCopy # {}
  /\ row' = [x \in Sets |-> IF x \in WithCopy THEN [row[x] EXCEPT !.loc = FALSE] ELSE row[x]]
  /\ doomed' = doomed \cup WithCopy
  /\ UNCHANGED <<disk, copies, inflight, work, cleaner, hist>>

ClearBackups ==
  /\ WithCopy # {}
  /\ row' = [x \in Sets |-> IF x \in WithCopy
                            THEN [Closed(row[x]) EXCEPT !.loc = FALSE] ELSE row[x]]
  /\ doomed' = doomed \cup WithCopy
  /\ UNCHANGED <<disk, copies, inflight, work, cleaner, hist>>

DeleteChangeSets ==
  /\ Settled # {}
  /\ row' = [x \in Sets |-> IF x \in Settled THEN NoRow ELSE row[x]]
  /\ doomed' = doomed \cup WithCopy
  /\ hist' = [begun |-> hist.begun \ Settled, lapsed |-> hist.lapsed \ Settled,
              robbed |-> hist.robbed \ Settled, cleared |-> hist.cleared \cup Settled]
  /\ UNCHANGED <<disk, copies, inflight, work, cleaner>>

RemoveDoomed(x) ==
  /\ x \in doomed
  /\ doomed' = doomed \ {x}
  /\ Drop(x, FALSE) \/ ("disk" \in Faults /\ UNCHANGED <<copies, hist>>)
  /\ UNCHANGED <<disk, row, inflight, work, cleaner>>

\* The person saves or removes a file, with any program.
UserEdits(p, v) ==
  /\ disk[p] # v
  /\ disk' = [disk EXCEPT ![p] = v]
  /\ work' = [w \in Workers |-> Marked(work[w], {p})]
  /\ UNCHANGED <<row, copies, inflight, cleaner, doomed, hist>>

\* Seven days pass since a deadline was set; a copy of the row ages with it.
Aged(rec) == [rec EXCEPT !.open = FALSE]

WindowExpires(x) ==
  /\ row[x].open
  /\ row' = [row EXCEPT ![x] = Closed(@)]
  /\ work' = [w \in Workers |-> IF work[w].set = x
                                THEN [work[w] EXCEPT !.rec = Aged(@)] ELSE work[w]]
  /\ cleaner' = [cleaner EXCEPT !.kept[x] = Closed(@)]
  /\ UNCHANGED <<disk, copies, inflight, doomed, hist>>

\* A recovery that knows only of the pending sets.
RecoveredPending(rec) ==
  IF rec.status = "pending" THEN [rec EXCEPT !.status = "failed"] ELSE rec

\* The process dies and comes back; Recover runs before it serves anybody.
Recovered(rec) ==
  IF rec.status \in {"pending", "approved"} THEN [rec EXCEPT !.status = "failed"] ELSE rec

CrashAndRecover ==
  /\ row' = [x \in Sets |-> Recovered(row[x])]
  /\ inflight' = {}
  /\ work' = [w \in Workers |-> Idle]
  /\ cleaner' = Resting
  /\ doomed' = {}
  /\ hist' = [hist EXCEPT !.lapsed = {}]
  /\ UNCHANGED <<disk, copies>>

----------------------------------------------------------------------------
ExecuteStep(w) ==
  \/ \E x \in Sets, ops \in OpLists : Claim(w, "execute", x, ops)
  \/ PlanExecute(w)
  \/ \E a \in {"error", "pending", "no", "yes"} : Answered(w, a)
  \/ Backup(w) \/ CheckOp(w) \/ DoOp(w) \/ VerifyOp(w)
  \/ UndoOp(w) \/ UndoEnds(w) \/ ExecuteFails(w) \/ JournalApplied(w)

RollbackStep(w) ==
  \/ \E x \in Sets : Claim(w, "rollback", x, <<>>)
  \/ PlanRollback(w)
  \/ \E a \in {"error", "pending", "no", "yes"} : RollbackAnswered(w, a)
  \/ RollbackOp(w) \/ JournalRolledBack(w)

CleanupStep ==
  \/ CleanupStarts \/ CleanupEnds
  \/ \E x \in Sets : CleanupScans(x) \/ CleanupEvicts(x) \/ CleanupRemoves(x)

ScreenStep ==
  \/ ClearBackups \/ DeleteChangeSets
  \/ \E x \in Sets : RemoveDoomed(x)

WorldStep ==
  \/ \E p \in Paths, v \in Values : UserEdits(p, v)
  \/ \E x \in Sets : WindowExpires(x)
  \/ CrashAndRecover

Next ==
  \/ \E w \in Workers : ExecuteStep(w) \/ RollbackStep(w)
  \/ CleanupStep \/ ScreenStep \/ WorldStep

Spec == Init /\ [][Next]_vars

----------------------------------------------------------------------------
\* Properties.

\* The disk agrees with d on the operations of w whose paths nobody else wrote.
Agrees(w, d) ==
  \A i \in DOMAIN Ops(w) :
    PathsOf(Ops(w)[i]) \cap work[w].dirty = {} =>
      \A p \in PathsOf(Ops(w)[i]) : disk[p] = d[p]

\* A change set that failed half way took back what it had done: where no undo
\* step failed, every operation whose paths nobody else wrote since it was
\* planned has left them as they were then (apply's deferred undo).
UndoRestores ==
  \A w \in Workers :
    At(w, "execute", "undone") /\ ~ work[w].torn => Agrees(w, work[w].old)

\* What a failed set is told about each of its operations is so (effectOf: "a caller
\* reading StateChanged has to be able to act on it without a second confirmation").  Of
\* paths nobody else wrote: untouched means that they hold what they held, and is not said
\* of a directory; changed is said only when an undo step failed; and unknown is the answer
\* for directories alone.
EffectsAreTrue ==
  \A w \in Workers :
    At(w, "execute", "undone") =>
      \A i \in DOMAIN Ops(w) :
        LET op == Ops(w)[i]
            old == work[w].old
            effect == EffectOf(op, old, disk)
        IN PathsOf(op) \cap work[w].dirty = {} =>
             /\ effect = "not_started" <=>
                  old[op.path] \notin Trees /\ \A p \in PathsOf(op) : disk[p] = old[p]
             /\ effect = "state_changed" => work[w].torn
             /\ effect = "outcome_unknown" => old[op.path] \in Trees

\* A rollback that went through is the inverse of the change set: paths that
\* nobody else wrote while the set was being applied or rolled back hold what
\* they held when the set was planned, whatever happened to rows and copies
\* in between (planRollback, applyRollback and the copies of step 10).
RollbackIsInverse ==
  \A w \in Workers :
    At(w, "rollback", "journal") => Agrees(w, work[w].rec.before)

\* A change set starts changing the disk at most once, however often and
\* however concurrently it is retried under its id (claim's promise: "a
\* retried change set must not apply twice").
AppliesOnce ==
  \A w \in Workers :
    work[w].kind = "execute" /\ work[w].pc \in {"apply", "checked"} /\ work[w].i = 1
      => work[w].set \notin hist.begun

\* A row says approved only while a goroutine is carrying the set out: after a
\* crash none does (Recover).  A status write that failed is the exception.
ApprovedIsCarriedOut ==
  \A x \in Sets :
    row[x].status = "approved" =>
      \/ x \in hist.lapsed
      \/ \E w \in Workers : /\ work[w].kind = "execute"
                             /\ work[w].set = x
                             /\ work[w].pc \notin {"idle", "claimed", "asking"}

\* While an applied set's rollback window is open, the copies its rollback
\* needs are there (CleanupBackups: "a backup is never deleted while its
\* rollback window is open").
CopyOutlivesWindow(x) ==
  row[x].status = "applied" /\ row[x].open =>
    \A i \in DOMAIN row[x].ops :
      row[x].ops[i].type \in {"update", "delete"} => copies[x][row[x].ops[i].path] # Absent

OpenWindowHasItsCopy == \A x \in Sets : CopyOutlivesWindow(x)

\* The same, for the sets whose copy was not removed under them while they were
\* being applied, nor later by a cleanup that had read their row then: an
\* eviction, the clear handlers and a cleanup that read a settled row remove a
\* copy only after its window has closed, however late they remove it.
WindowClosesFirst == \A x \in Sets \ hist.robbed : CopyOutlivesWindow(x)

\* The workers of set x that have their yes and still write for it.
Carries(w, x) ==
  work[w].set = x /\ work[w].kind = "execute" /\ work[w].pc \notin {"idle", "claimed", "asking"}
TakesBack(w, x) ==
  work[w].set = x /\ work[w].kind = "rollback" /\ work[w].pc \in {"apply", "journal"}

Life == INSTANCE ChangeSetLife WITH
  status <- [x \in Sets |-> row[x].status],
  window <- {x \in Sets : row[x].status = "applied" /\ row[x].open},
  carrying <- {x \in Sets : \E w \in Workers : Carries(w, x)},
  taking <- {x \in Sets : \E w \in Workers : TakesBack(w, x)}

\* However calls, retries, rollbacks, cleanup, the clearing screens and crashes
\* interleave, a row lives the life ChangeSetLife gives it: it is decided once, it is
\* written for only between a yes and one verdict, a set that ended is not taken up
\* again, and a window that closed stays closed.
LivesItsLife == Life!LifeSpec
=============================================================================
