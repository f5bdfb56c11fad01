---------------------------- MODULE TasksProofs ----------------------------
(***************************************************************************)
(* What the task manager guarantees for any number of runs, keys and       *)
(* crashes and any table size. Neither OneRunPerKey nor RunningIsListed is *)
(* inductive: what keeps a second run out is that the running one still    *)
(* holds its key, and what keeps it holding its key is that nothing        *)
(* running is ever forgotten. RunningHoldsItsKey says both.                *)
(* NoProcessOutlivesClose needs to know that after m.cancel every context  *)
(* is over, so that what is launched late starts no process. What the      *)
(* journal holds of a run is tied to how far the run has come (RowsFit):   *)
(* no ending before it is reported, and nothing for reconcileRuns to       *)
(* answer while it has a goroutine. On these stands the refinement of      *)
(* RunLife. The end of the module is about the other thing that must leave *)
(* nothing behind, the picture of a page.                                  *)
(***************************************************************************)
EXTENDS Tasks, Snapshot, FiniteSetTheorems, TLAPS

\* A running task is in the table under its key (acquire and forgetLocked keep
\* tasks and byKey together).
RunningHoldsItsKey ==
  \A r \in Runs :
    /\ job[r].pc = "new" => job[r].state = "none"
    /\ job[r].state = "running" =>
         job[r].key \in Keys /\ byKey[job[r].key] = r /\ r \in table

\* A task between acquire and the end of finish.
Working == {"acquired", "launched", "started", "up", "exited", "reported"}

\* Once Close has called m.cancel, every context of a live task is over.
CanceledWhenClosed ==
  core \in {"waiting", "shut", "abandoned"} =>
    \A r \in Runs : job[r].pc \in Working => job[r].stop # "no"

\* The inductive invariant of the task manager.
IInv ==
  /\ TasksTypeOK
  /\ RunningHoldsItsKey
  /\ CanceledWhenClosed
  /\ NoProcessOutlivesClose

\* How many runs there have been is a number.
LEMMA SeqFact ==
  ASSUME NEW S \in SUBSET Runs
  PROVE  Cardinality(S) \in Nat
BY FS_Subset, FS_CardinalityType, TasksAssumption

\* purgeLocked forgets finished tasks only.
LEMMA PurgedFact ==
  ASSUME NEW old \in PastRetention
  PROVE  Purged(old) \subseteq {r \in table : Terminal(r)}
BY DEF PastRetention, Purged, Trimmed

\* A journal row keeps the journal a journal.
LEMMA ExecAttemptType ==
  ASSUME TasksTypeOK, NEW r \in Runs, NEW o \in Outcomes \cup {"started"}, ExecAttempt(r, o)
  PROVE  journal' \in [Runs -> Seq(Outcomes \cup {"started"})] /\ lost' \subseteq Runs
<1>1. Append(journal[r], o) \in Seq(Outcomes \cup {"started"})
  BY DEF TasksTypeOK
<1> QED
  BY <1>1 DEF TasksTypeOK, ExecAttempt

\* outcomeOf says an outcome.
LEMMA OutcomeType == \A j \in Job : OutcomeOf(j) \in Outcomes
BY DEF OutcomeOf, Outcomes

\* finish ends a task in a state that is final.
LEMMA FinalStateType == \A j \in Job : FinalState(j) \in Ended
BY DEF FinalState, Ended

\* The table operations.
LEMMA ForgetIInv ==
  ASSUME IInv, NEW gone \in SUBSET {r \in table : Terminal(r)}, Forget(gone),
         UNCHANGED <<core, orphans, job, journal, lost, crashes>>
  PROVE  IInv'
<1>1. TasksTypeOK'
  BY DEF IInv, TasksTypeOK, Forget, KeysLeft
<1>2. RunningHoldsItsKey'
  BY DEF IInv, TasksTypeOK, RunningHoldsItsKey, Forget, KeysLeft, Terminal, Ended
<1>3. CanceledWhenClosed' /\ NoProcessOutlivesClose'
  BY DEF IInv, CanceledWhenClosed, NoProcessOutlivesClose
<1> QED
  BY <1>1, <1>2, <1>3 DEF IInv

\* A new task takes its key, and no running task held it.
LEMMA AcquireIInv ==
  ASSUME IInv, NEW r \in Runs, NEW k \in Keys, NEW old \in PastRetention, Acquire(r, k, old)
  PROVE  IInv'
<1> DEFINE gone == Purged(old)
           heldBy == KeysLeft(gone)[k]
<1>1. gone \subseteq {q \in table : Terminal(q)}
  BY PurgedFact
<1>2. CASE heldBy \in table \ gone /\ ~ Terminal(heldBy)
  BY <1>1, <1>2, ForgetIInv DEF Acquire
<1>3. CASE ~ (heldBy \in table \ gone /\ ~ Terminal(heldBy))
  <2>1. /\ core = "open" /\ job[r].pc = "new"
        /\ table' = (table \ gone) \cup {r}
        /\ byKey' = [KeysLeft(gone) EXCEPT ![k] = r]
        /\ job' = [job EXCEPT ![r] = Fresh(k)]
        /\ UNCHANGED <<core, orphans, journal, lost, crashes>>
    BY <1>3 DEF Acquire
  <2>2. Fresh(k) \in Job
    BY SeqFact DEF Fresh, Job
  <2>3. KeysLeft(gone) \in [Keys -> Runs \cup {None}]
    BY DEF KeysLeft, IInv, TasksTypeOK
  <2>4. TasksTypeOK'
    <3>1. job' \in [Runs -> Job] /\ table' \subseteq Runs
      BY <2>1, <2>2 DEF IInv, TasksTypeOK
    <3>2. byKey' \in [Keys -> Runs \cup {None}]
      BY <2>1, <2>3
    <3> QED
      BY <3>1, <3>2, <2>1 DEF IInv, TasksTypeOK
  <2>5. Fresh(k).pc = "acquired" /\ Fresh(k).state = "running" /\ Fresh(k).key = k
    BY DEF Fresh
  <2>6. RunningHoldsItsKey'
    <3> SUFFICES ASSUME NEW q \in Runs
                 PROVE  /\ job'[q].pc = "new" => job'[q].state = "none"
                        /\ job'[q].state = "running" =>
                             job'[q].key \in Keys /\ byKey'[job'[q].key] = q /\ q \in table'
      BY DEF RunningHoldsItsKey
    <3>1. CASE q = r
      BY <3>1, <2>1, <2>3, <2>5 DEF IInv, TasksTypeOK
    <3>2. CASE q # r
      <4>1. job'[q] = job[q]
        BY <3>2, <2>1 DEF IInv, TasksTypeOK
      <4>2. ASSUME job[q].state = "running"
            PROVE  /\ job[q].key \in Keys /\ byKey[job[q].key] = q
                   /\ q \in table \ gone /\ ~ Terminal(q)
        BY <4>2, <1>1 DEF IInv, RunningHoldsItsKey, Terminal, Ended
      <4>3. ASSUME job[q].state = "running"
            PROVE  KeysLeft(gone)[job[q].key] = q /\ job[q].key # k
        BY <4>2, <4>3, <1>3 DEF KeysLeft
      <4> QED
        BY <4>1, <4>2, <4>3, <2>1, <2>3 DEF IInv, RunningHoldsItsKey
    <3> QED
      BY <3>1, <3>2
  <2>7. CanceledWhenClosed' /\ NoProcessOutlivesClose'
    BY <2>1 DEF CanceledWhenClosed, NoProcessOutlivesClose
  <2> QED
    BY <2>4, <2>6, <2>7 DEF IInv
<1> QED
  BY <1>2, <1>3

\* A step of one run that leaves the table alone, keeps the task's state and
\* brings up no process under a context that is over.
LEMMA QuietStepIInv ==
  ASSUME IInv, NEW r \in Runs, NEW j \in Job, job' = [job EXCEPT ![r] = j],
         UNCHANGED <<core, orphans, table, byKey, crashes>>,
         journal' \in [Runs -> Seq(Outcomes \cup {"started"})], lost' \subseteq Runs,
         j.key = job[r].key, j.pc = "new" => j.state = "none", j.state \in Ended \cup {job[r].state},
         j.pc \in Working => job[r].pc \in Working,
         j.stop = job[r].stop \/ j.stop # "no",
         j.pc = "up" => job[r].pc = "up" \/ job[r].stop = "no"
  PROVE  IInv'
<1>1. TasksTypeOK'
  BY DEF IInv, TasksTypeOK
<1>2. job'[r] = j /\ \A q \in Runs \ {r} : job'[q] = job[q]
  BY DEF IInv, TasksTypeOK
<1>3. RunningHoldsItsKey'
  BY <1>2 DEF IInv, RunningHoldsItsKey, Ended
<1>4. CanceledWhenClosed'
  BY <1>2 DEF IInv, CanceledWhenClosed
<1>5. NoProcessOutlivesClose'
  BY <1>2 DEF IInv, NoProcessOutlivesClose, CanceledWhenClosed, Working
<1> QED
  BY <1>1, <1>3, <1>4, <1>5 DEF IInv

\* Goes changes what its arguments say and nothing else.
LEMMA GoesFact ==
  ASSUME TasksTypeOK, NEW r \in Runs,
         NEW pc \in {"launched", "started", "up", "exited", "reported"},
         NEW out \in {"none", "zero", "nonzero", "timeout", "error"}, Goes(r, pc, out)
  PROVE  \E j \in Job :
           /\ job' = [job EXCEPT ![r] = j]
           /\ j.pc = pc /\ j.key = job[r].key /\ j.state = job[r].state /\ j.stop = job[r].stop /\ j.out = out
<1> DEFINE j == [job[r] EXCEPT !.pc = pc, !.out = out]
<1>1. job[r] \in Job
  BY DEF TasksTypeOK
<1>2. j \in Job /\ j.pc = pc /\ j.key = job[r].key /\ j.state = job[r].state /\ j.stop = job[r].stop /\ j.out = out
  BY <1>1 DEF Job
<1>3. job' = [job EXCEPT ![r] = j]
  BY DEF Goes, TasksTypeOK
<1> QED
  BY <1>2, <1>3

\* Every step of a run's goroutine.
LEMMA RunStepIInv ==
  ASSUME IInv, NEW r \in Runs, RunStep(r)
  PROVE  IInv'
<1> USE DEF Steps, Working
<1>1. TasksTypeOK /\ job[r] \in Job
  BY DEF IInv, TasksTypeOK
<1>2. ASSUME NEW pc \in {"launched", "started", "up", "exited", "reported"},
             NEW out \in {"none", "zero", "nonzero", "timeout", "error"}, Goes(r, pc, out),
             job[r].pc \in Working, pc = "up" => job[r].stop = "no",
             UNCHANGED <<core, orphans, table, byKey, crashes>>,
             journal' \in [Runs -> Seq(Outcomes \cup {"started"})], lost' \subseteq Runs
      PROVE  IInv'
  <2>1. PICK j \in Job :
          /\ job' = [job EXCEPT ![r] = j]
          /\ j.pc = pc /\ j.key = job[r].key /\ j.state = job[r].state /\ j.stop = job[r].stop
    BY <1>1, <1>2, GoesFact
  <2> QED
    BY <1>2, <2>1, QuietStepIInv
<1>3. ASSUME UNCHANGED <<journal, lost>>
      PROVE  journal' \in [Runs -> Seq(Outcomes \cup {"started"})] /\ lost' \subseteq Runs
  BY <1>1, <1>3 DEF TasksTypeOK
<1>4. CASE Launch(r)
  BY <1>2, <1>3, <1>4 DEF Launch
<1>5. CASE PrepareFails(r)
  BY <1>2, <1>3, <1>5 DEF PrepareFails
<1>6. CASE JournalStarted(r)
  BY <1>1, <1>2, <1>6, ExecAttemptType DEF JournalStarted
<1>7. CASE ProcessStarts(r)
  BY <1>2, <1>3, <1>7 DEF ProcessStarts, AtStart
<1>8. CASE StartFails(r)
  BY <1>2, <1>3, <1>8 DEF StartFails, AtStart
<1>9. ASSUME NEW out \in {"zero", "nonzero", "timeout", "error"}, ProcessEnds(r, out)
      PROVE  IInv'
  BY <1>2, <1>3, <1>9 DEF ProcessEnds
<1>10. CASE JournalEnded(r)
  <2>1. OutcomeOf(job[r]) \in Outcomes \cup {"started"}
    BY <1>1, OutcomeType
  <2>2. job[r].out \in {"none", "zero", "nonzero", "timeout", "error"}
    BY <1>1 DEF Job
  <2> QED
    BY <1>1, <1>2, <1>10, <2>1, <2>2, ExecAttemptType DEF JournalEnded
<1>11. CASE Finish(r)
  <2> DEFINE j == [job[r] EXCEPT !.pc = "over", !.state = FinalState(job[r])]
  <2>1. FinalState(job[r]) \in Ended
    BY <1>1, FinalStateType
  <2>2. j \in Job /\ j.pc = "over" /\ j.key = job[r].key /\ j.state \in Ended /\ j.stop = job[r].stop
    BY <1>1, <2>1 DEF Job
  <2>3. job' = [job EXCEPT ![r] = j]
    BY <1>1, <1>11 DEF Finish, TasksTypeOK
  <2> HIDE DEF j
  <2> QED
    BY <1>3, <1>11, <2>2, <2>3, QuietStepIInv DEF Finish
<1> QED
  BY <1>4, <1>5, <1>6, <1>7, <1>8, <1>9, <1>10, <1>11 DEF RunStep

\* A context that is stopped keeps its first error.
LEMMA StoppedFact ==
  ASSUME NEW j \in Job, NEW why \in {"cancel", "deadline"}
  PROVE  /\ Stopped(j, why) \in Job
         /\ Stopped(j, why).pc = j.pc /\ Stopped(j, why).key = j.key
         /\ Stopped(j, why).state = j.state /\ Stopped(j, why).stop # "no"
BY DEF Stopped, Job

\* Cancel and the runtime ceiling touch one context.
LEMMA StopIInv ==
  ASSUME IInv, NEW r \in Runs, Cancel(r) \/ Ceiling(r)
  PROVE  IInv'
<1>1. PICK why \in {"cancel", "deadline"} : job' = [job EXCEPT ![r] = Stopped(job[r], why)]
  BY DEF Cancel, Ceiling, IInv, TasksTypeOK
<1>2. job[r] \in Job /\ (job[r].pc = "new" => job[r].state = "none")
  BY DEF IInv, TasksTypeOK, RunningHoldsItsKey
<1>3. /\ UNCHANGED <<core, orphans, table, byKey, crashes>>
      /\ journal' \in [Runs -> Seq(Outcomes \cup {"started"})] /\ lost' \subseteq Runs
  BY DEF Cancel, Ceiling, IInv, TasksTypeOK
<1> QED
  BY <1>1, <1>2, <1>3, StoppedFact, QuietStepIInv

\* Close and its end.
LEMMA CloseIInv ==
  ASSUME IInv, Close \/ CloseCancels \/ CloseReturns \/ GraceExpires
  PROVE  IInv'
<1>1. CASE Close
  BY <1>1 DEF Close, IInv, TasksTypeOK, RunningHoldsItsKey, CanceledWhenClosed, NoProcessOutlivesClose
<1>2. CASE CloseCancels
  <2>1. ASSUME NEW r \in Runs
        PROVE  /\ job'[r] \in Job
               /\ job'[r].pc = job[r].pc /\ job'[r].key = job[r].key
               /\ job'[r].state = job[r].state
               /\ job'[r].pc \in Working => job'[r].stop # "no"
    BY <1>2, StoppedFact DEF CloseCancels, IInv, TasksTypeOK, Working
  <2>2. TasksTypeOK'
    <3>1. job' = [r \in Runs |-> job'[r]]
      BY <1>2 DEF CloseCancels
    <3> QED
      BY <1>2, <2>1, <3>1 DEF CloseCancels, IInv, TasksTypeOK
  <2>3. RunningHoldsItsKey' /\ CanceledWhenClosed' /\ NoProcessOutlivesClose'
    BY <1>2, <2>1 DEF CloseCancels, IInv, RunningHoldsItsKey, CanceledWhenClosed, NoProcessOutlivesClose
  <2> QED
    BY <2>2, <2>3 DEF IInv
<1>3. CASE CloseReturns
  BY <1>3 DEF CloseReturns, InWaitGroup, IInv, TasksTypeOK, RunningHoldsItsKey,
              CanceledWhenClosed, NoProcessOutlivesClose
<1>4. CASE GraceExpires
  BY <1>4 DEF GraceExpires, IInv, TasksTypeOK, RunningHoldsItsKey, CanceledWhenClosed,
              NoProcessOutlivesClose
<1> QED
  BY <1>1, <1>2, <1>3, <1>4

\* With the process, the table and every task in it are gone.
LEMMA DiesIInv ==
  ASSUME IInv, Exit \/ Crash
  PROVE  IInv'
<1>1. Dies /\ crashes' \in Nat
  BY DEF Exit, Crash, IInv, TasksTypeOK
<1>2. \A r \in Runs : job'[r] \in Job /\ job'[r].state = "none"
  BY <1>1 DEF Dies, New, Job
<1>3. TasksTypeOK'
  <2>1. job' = [r \in Runs |-> job'[r]]
    BY <1>1 DEF Dies
  <2> QED
    BY <1>1, <1>2, <2>1 DEF Dies, IInv, TasksTypeOK
<1>4. RunningHoldsItsKey' /\ CanceledWhenClosed' /\ NoProcessOutlivesClose'
  BY <1>1, <1>2 DEF Dies, RunningHoldsItsKey, CanceledWhenClosed, NoProcessOutlivesClose
<1> QED
  BY <1>3, <1>4 DEF IInv

\* Startup writes to the journal alone.
LEMMA StartupIInv ==
  ASSUME IInv, StartupStep
  PROVE  IInv'
<1>1. OrphanedRuns \subseteq Runs
  BY DEF OrphanedRuns
<1>2. ASSUME NEW r \in Runs
      PROVE  Append(journal[r], "interrupted") \in Seq(Outcomes \cup {"started"})
  BY DEF IInv, TasksTypeOK, Outcomes
<1>3. TasksTypeOK'
  BY <1>1, <1>2 DEF StartupStep, Boot, Serve, Reconcile, IInv, TasksTypeOK
<1>4. UNCHANGED <<job, table, byKey>> /\ core' \in {"boot", "open"}
  BY DEF StartupStep, Boot, Serve, Reconcile
<1>5. RunningHoldsItsKey' /\ CanceledWhenClosed' /\ NoProcessOutlivesClose'
  BY <1>4 DEF IInv, RunningHoldsItsKey, CanceledWhenClosed, NoProcessOutlivesClose
<1> QED
  BY <1>3, <1>5 DEF IInv

\* A fresh installation has no runs.
LEMMA InitIInv == Init => IInv
<1> SUFFICES ASSUME Init PROVE IInv
  OBVIOUS
<1>1. New \in Job /\ New.state = "none"
  BY DEF New, Job
<1>2. << >> \in Seq(Outcomes \cup {"started"})
  OBVIOUS
<1> QED
  BY <1>1, <1>2 DEF Init, IInv, TasksTypeOK, RunningHoldsItsKey, CanceledWhenClosed,
                    NoProcessOutlivesClose

\* Every step of the task manager, the runs and the Core preserves IInv.
LEMMA NextIInv == IInv /\ [Next]_vars => IInv'
<1> SUFFICES ASSUME IInv, [Next]_vars PROVE IInv'
  OBVIOUS
<1>1. CASE \E r \in Runs, k \in Keys, old \in PastRetention : Acquire(r, k, old)
  BY <1>1, AcquireIInv
<1>2. CASE \E old \in PastRetention : Look(old)
  BY <1>2, PurgedFact, ForgetIInv DEF Look
<1>3. CASE Clear
  BY <1>3, ForgetIInv DEF Clear
<1>4. CASE \E r \in Runs : Cancel(r) \/ Ceiling(r)
  BY <1>4, StopIInv
<1>5. CASE \E r \in Runs : RunStep(r)
  BY <1>5, RunStepIInv
<1>6. CASE Close \/ ShutdownStep \/ Crash
  BY <1>6, CloseIInv, DiesIInv DEF ShutdownStep
<1>7. CASE StartupStep
  BY <1>7, StartupIInv
<1>8. CASE UNCHANGED vars
  BY <1>8 DEF vars, IInv, TasksTypeOK, RunningHoldsItsKey, CanceledWhenClosed,
              NoProcessOutlivesClose
<1> QED
  BY <1>1, <1>2, <1>3, <1>4, <1>5, <1>6, <1>7, <1>8 DEF Next

\* The inductive invariant holds in every reachable state.
THEOREM TasksInvariant == Spec => []IInv
BY InitIInv, NextIInv, PTL DEF Spec

\* The task table, the goroutines and the journal keep their types.
THEOREM TasksTypeCorrect == Spec => []TasksTypeOK
<1>1. IInv => TasksTypeOK
  BY DEF IInv
<1> QED
  BY <1>1, TasksInvariant, PTL

\* One idempotency key never has two tasks running (acquire, forgetLocked).
THEOREM SameCallRunsOnce == Spec => []OneRunPerKey
<1>1. IInv => OneRunPerKey
  BY DEF IInv, RunningHoldsItsKey, OneRunPerKey
<1> QED
  BY <1>1, TasksInvariant, PTL

\* A running task can always be asked about and canceled (purgeLocked, Clear).
THEOREM RunningStaysListed == Spec => []RunningIsListed
<1>1. IInv => RunningIsListed
  BY DEF IInv, RunningHoldsItsKey, RunningIsListed
<1> QED
  BY <1>1, TasksInvariant, PTL

\* A Close that waited to the end leaves no process behind (Close, launch).
THEOREM CloseLeavesNoProcess == Spec => []NoProcessOutlivesClose
<1>1. IInv => NoProcessOutlivesClose
  BY DEF IInv
<1> QED
  BY <1>1, TasksInvariant, PTL


-----------------------------------------------------------------------------
(* The journal: the two rows of a run. *)

\* Before its goroutine has written how it ended.
Unreported == {"new", "acquired", "launched", "started", "up", "exited"}

\* A run's rows, as far as the run has come: one ending at most, none before the run is
\* reported, and then the one that finish will agree with.
RowsFit(j, rows, missing) ==
  /\ \A a, b \in DOMAIN rows : rows[a] \in Outcomes /\ rows[b] \in Outcomes => a = b
  /\ j.pc \in Unreported => \A a \in DOMAIN rows : rows[a] \notin Outcomes
  /\ j.pc = "new" => rows = <<>>
  /\ ~missing /\ j.pc \in {"reported", "over"} /\ j.key \notin Delegations /\ j.stop = "no" /\ j.out # "error" =>
       Len(rows) > 0 /\ rows[Len(rows)] = OutcomeOf(j)
  /\ j.state \in Ended => j.pc = "over" /\ j.state = FinalState(j)

\* What reconcileRuns still has to answer has no ending, and its run is of an earlier life.
OrphansAreOpen ==
  /\ ~Alive => \A r \in Runs : job[r].pc \in {"new", "gone"}
  /\ \A r \in orphans : /\ core = "boot" /\ job[r].pc = "gone"
                        /\ \A a \in DOMAIN journal[r] : journal[r][a] \notin Outcomes

\* The inductive invariant of the journal.
JournalInv ==
  /\ IInv
  /\ \A r \in Runs : RowsFit(job[r], journal[r], r \in lost)
  /\ OrphansAreOpen

\* A row at the end leaves the others where they are.
LEMMA AppendFact ==
  ASSUME NEW S, NEW rows \in Seq(S), NEW o \in S, NEW more, more = Append(rows, o)
  PROVE  /\ Len(more) = Len(rows) + 1 /\ Len(rows) \in Nat /\ more[Len(more)] = o
         /\ \A a \in DOMAIN more : a \in DOMAIN rows \/ a = Len(more)
         /\ \A a \in DOMAIN rows : a \in DOMAIN more /\ more[a] = rows[a]
         /\ rows = <<>> => \A a \in DOMAIN more : a = Len(more)
OBVIOUS

\* A step of one run that is not over with, with the row it may write.
LEMMA OneRunFits ==
  ASSUME JournalInv, Alive, NEW r \in Runs, NEW j \in Job, job' = [job EXCEPT ![r] = j],
         UNCHANGED <<core, orphans>>,
         \A q \in Runs \ {r} : journal'[q] = journal[q] /\ (q \in lost' <=> q \in lost),
         RowsFit(j, journal'[r], r \in lost')
  PROVE  (\A q \in Runs : RowsFit(job[q], journal[q], q \in lost))' /\ OrphansAreOpen'
<1>1. job'[r] = j /\ \A q \in Runs \ {r} : job'[q] = job[q]
  BY DEF JournalInv, IInv, TasksTypeOK
<1>2. orphans = {}
  BY DEF JournalInv, OrphansAreOpen, Alive
<1>3. ASSUME NEW q \in Runs PROVE RowsFit(job'[q], journal'[q], q \in lost')
  <2>1. CASE q = r
    BY <1>1, <2>1
  <2>2. CASE q # r
    BY <1>1, <2>2 DEF JournalInv, RowsFit
  <2> QED
    BY <2>1, <2>2
<1>4. OrphansAreOpen'
  BY <1>2 DEF OrphansAreOpen, Alive
<1> QED
  BY <1>3, <1>4

\* The same for a step of the run's goroutine, before it is over.
LEMMA RunStepFits ==
  ASSUME JournalInv, NEW r \in Runs, RunStep(r)
  PROVE  (\A q \in Runs : RowsFit(job[q], journal[q], q \in lost))' /\ OrphansAreOpen'
<1> USE DEF Steps
<1>1. TasksTypeOK /\ job[r] \in Job /\ RowsFit(job[r], journal[r], r \in lost) /\ Alive /\ journal[r] \in Seq(Outcomes \cup {"started"})
  BY DEF JournalInv, IInv, TasksTypeOK, RunStep, Launch, PrepareFails, JournalStarted, ProcessStarts, StartFails, AtStart,
         ProcessEnds, JournalEnded, Finish
<1>2. UNCHANGED <<core, orphans>>
  BY DEF RunStep, Launch, PrepareFails, JournalStarted, ProcessStarts, StartFails, ProcessEnds, JournalEnded, Finish
<1>3. ASSUME NEW pc \in {"launched", "started", "up", "exited", "reported"},
             NEW out \in {"none", "zero", "nonzero", "timeout", "error"}, Goes(r, pc, out)
      PROVE  \E j \in Job : /\ job' = [job EXCEPT ![r] = j]
                            /\ j.pc = pc /\ j.key = job[r].key /\ j.state = job[r].state /\ j.stop = job[r].stop
                            /\ j.out = out
  BY <1>1, <1>3, GoesFact
<1>4. ASSUME NEW pc \in {"launched", "up", "exited", "reported"},
             NEW out \in {"none", "zero", "nonzero", "timeout", "error"}, Goes(r, pc, out),
             job[r].pc \in {"acquired", "launched", "started", "up"},
             pc = "reported" => out = "error", UNCHANGED <<journal, lost>>
      PROVE  (\A q \in Runs : RowsFit(job[q], journal[q], q \in lost))' /\ OrphansAreOpen'
  <2>1. PICK j \in Job : /\ job' = [job EXCEPT ![r] = j]
                         /\ j.pc = pc /\ j.key = job[r].key /\ j.state = job[r].state /\ j.stop = job[r].stop
                         /\ j.out = out
    BY <1>3, <1>4
  <2>2. RowsFit(j, journal'[r], r \in lost')
    BY <1>1, <1>4, <2>1 DEF RowsFit, Unreported
  <2> QED
    BY <1>1, <1>2, <1>4, <2>1, <2>2, OneRunFits
<1>5. CASE Launch(r)
  BY <1>4, <1>5 DEF Launch
<1>6. CASE PrepareFails(r)
  BY <1>4, <1>6 DEF PrepareFails
<1>7. CASE JournalStarted(r)
  <2>1. PICK j \in Job : /\ job' = [job EXCEPT ![r] = j]
                         /\ j.pc = "started" /\ j.key = job[r].key /\ j.state = job[r].state /\ j.stop = job[r].stop
                         /\ j.out = "none"
    BY <1>3, <1>7 DEF JournalStarted
  <2>2. /\ \A q \in Runs \ {r} : journal'[q] = journal[q] /\ (q \in lost' <=> q \in lost)
        /\ journal'[r] = journal[r] \/ journal'[r] = Append(journal[r], "started")
    BY <1>1, <1>7 DEF JournalStarted, ExecAttempt, TasksTypeOK
  <2>3. \A a \in DOMAIN journal'[r] : journal'[r][a] \notin Outcomes
    <3>1. \A a \in DOMAIN journal[r] : journal[r][a] \notin Outcomes
      BY <1>1, <1>7 DEF JournalStarted, RowsFit, Unreported
    <3>2. CASE journal'[r] = journal[r]
      BY <3>1, <3>2
    <3>3. CASE journal'[r] = Append(journal[r], "started")
      <4>1. "started" \in Outcomes \cup {"started"} /\ "started" \notin Outcomes
        BY DEF Outcomes
      <4> QED
        BY <1>1, <3>1, <3>3, <4>1, AppendFact
    <3> QED
      BY <2>2, <3>2, <3>3
  <2>4. RowsFit(j, journal'[r], r \in lost')
    BY <1>1, <1>7, <2>1, <2>3 DEF RowsFit, Unreported, JournalStarted
  <2> QED
    BY <1>1, <1>2, <2>1, <2>2, <2>4, OneRunFits
<1>8. CASE ProcessStarts(r)
  BY <1>4, <1>8 DEF ProcessStarts, AtStart
<1>9. CASE StartFails(r)
  BY <1>4, <1>9 DEF StartFails, AtStart
<1>10. ASSUME NEW out \in {"zero", "nonzero", "timeout", "error"}, ProcessEnds(r, out)
       PROVE  (\A q \in Runs : RowsFit(job[q], journal[q], q \in lost))' /\ OrphansAreOpen'
  BY <1>4, <1>10 DEF ProcessEnds
<1>11. CASE JournalEnded(r)
  <2>1. job[r].out \in {"none", "zero", "nonzero", "timeout", "error"} /\ job[r].pc = "exited"
    BY <1>1, <1>11 DEF Job, JournalEnded
  <2>2. PICK j \in Job : /\ job' = [job EXCEPT ![r] = j]
                         /\ j.pc = "reported" /\ j.key = job[r].key /\ j.state = job[r].state /\ j.stop = job[r].stop
                         /\ j.out = job[r].out
    BY <1>3, <1>11, <2>1 DEF JournalEnded
  <2>3. PICK o \in Outcomes : o = OutcomeOf(job[r])
    BY <1>1, OutcomeType
  <2>4. OutcomeOf(j) = o
    BY <2>2, <2>3 DEF OutcomeOf
  <2>5. \A a \in DOMAIN journal[r] : journal[r][a] \notin Outcomes
    BY <1>1, <2>1 DEF RowsFit, Unreported
  <2>6. /\ \A q \in Runs \ {r} : journal'[q] = journal[q] /\ (q \in lost' <=> q \in lost)
        /\ \/ journal'[r] = journal[r] /\ r \in lost'
           \/ journal'[r] = Append(journal[r], o)
    BY <1>1, <1>11, <2>3 DEF JournalEnded, ExecAttempt, TasksTypeOK
  <2>7. j.state \notin Ended
    BY <1>1, <2>1, <2>2 DEF RowsFit
  <2>8. RowsFit(j, journal'[r], r \in lost')
    <3>1. CASE journal'[r] = journal[r] /\ r \in lost'
      BY <2>2, <2>5, <2>7, <3>1 DEF RowsFit, Unreported
    <3>2. CASE journal'[r] = Append(journal[r], o)
      <4>1. PICK more : more = Append(journal[r], o)
        OBVIOUS
      <4>2. /\ Len(more) = Len(journal[r]) + 1 /\ Len(journal[r]) \in Nat /\ more[Len(more)] = o
            /\ \A a \in DOMAIN more : a \in DOMAIN journal[r] \/ a = Len(more)
            /\ \A a \in DOMAIN journal[r] : a \in DOMAIN more /\ more[a] = journal[r][a]
        BY <1>1, <4>1, AppendFact
      <4>3. \A a, b \in DOMAIN more : more[a] \in Outcomes /\ more[b] \in Outcomes => a = b
        BY <2>5, <4>2
      <4>4. Len(more) > 0
        BY <4>2
      <4> QED
        BY <2>2, <2>4, <2>7, <3>2, <4>1, <4>2, <4>3, <4>4 DEF RowsFit, Unreported
    <3> QED
      BY <2>6, <3>1, <3>2
  <2> QED
    BY <1>1, <1>2, <2>2, <2>6, <2>8, OneRunFits
<1>12. CASE Finish(r)
  <2>0. PICK s \in Ended : s = FinalState(job[r])
    BY <1>1, FinalStateType
  <2>1. PICK j : j = [job[r] EXCEPT !.pc = "over", !.state = s]
    OBVIOUS
  <2>2. /\ j \in Job /\ j.pc = "over" /\ j.key = job[r].key /\ j.state = s /\ j.stop = job[r].stop
        /\ j.out = job[r].out
    BY <1>1, <2>1 DEF Job
  <2>3. job' = [job EXCEPT ![r] = j]
    BY <1>1, <1>12, <2>0, <2>1 DEF Finish, TasksTypeOK
  <2>4. FinalState(j) = s /\ OutcomeOf(j) = OutcomeOf(job[r])
    BY <2>0, <2>2 DEF FinalState, OutcomeOf
  <2>5. UNCHANGED <<journal, lost>> /\ (job[r].key \notin Delegations => job[r].pc = "reported")
    BY <1>12 DEF Finish, IsAgent
  <2>6. RowsFit(j, journal'[r], r \in lost')
    BY <1>1, <2>2, <2>4, <2>5 DEF RowsFit, Unreported
  <2> QED
    BY <1>1, <1>2, <2>2, <2>3, <2>5, <2>6, OneRunFits
<1> QED
  BY <1>5, <1>6, <1>7, <1>8, <1>9, <1>10, <1>11, <1>12 DEF RunStep

\* A run that is stopped keeps its rows, and what it says of its end is no longer compared.
LEMMA StoppedFits ==
  ASSUME NEW j \in Job, NEW rows, NEW missing, NEW why \in {"cancel", "deadline"}, RowsFit(j, rows, missing), j.pc # "over"
  PROVE  RowsFit(Stopped(j, why), rows, missing)
<1>1. /\ Stopped(j, why).pc = j.pc /\ Stopped(j, why).key = j.key
      /\ Stopped(j, why).state = j.state /\ Stopped(j, why).stop # "no"
  BY StoppedFact
<1> QED
  BY <1>1 DEF RowsFit

\* The journal of one run has one ending, and every part of the Core agrees on it.
THEOREM JournalHolds == Spec => []JournalInv
<1>1. Init => JournalInv
  <2> SUFFICES ASSUME Init PROVE JournalInv
    OBVIOUS
  <2>1. \A r \in Runs : job[r].pc = "new" /\ job[r].state = "none" /\ journal[r] = <<>>
    BY DEF Init, New
  <2>2. \A r \in Runs : RowsFit(job[r], journal[r], r \in lost)
    BY <2>1 DEF RowsFit, Ended
  <2> QED
    BY <2>1, <2>2, InitIInv DEF JournalInv, OrphansAreOpen, Init
<1>2. JournalInv /\ [Next]_vars => JournalInv'
  <2> SUFFICES ASSUME JournalInv, [Next]_vars PROVE JournalInv'
    OBVIOUS
  <2>1. IInv /\ IInv' /\ TasksTypeOK
    BY NextIInv DEF JournalInv, IInv
  <2> SUFFICES (\A q \in Runs : RowsFit(job[q], journal[q], q \in lost))' /\ OrphansAreOpen'
    BY <2>1 DEF JournalInv
  <2>2. ASSUME UNCHANGED <<core, orphans, job, journal, lost>>
        PROVE  (\A q \in Runs : RowsFit(job[q], journal[q], q \in lost))' /\ OrphansAreOpen'
    BY <2>2 DEF JournalInv, OrphansAreOpen, Alive
  <2>3. ASSUME NEW r \in Runs, NEW k \in Keys, NEW old \in PastRetention, Acquire(r, k, old)
        PROVE  (\A q \in Runs : RowsFit(job[q], journal[q], q \in lost))' /\ OrphansAreOpen'
    <3>1. CASE UNCHANGED job
      BY <2>2, <2>3, <3>1 DEF Acquire
    <3>2. CASE job' = [job EXCEPT ![r] = Fresh(k)]
      <4>1. Fresh(k) \in Job
        BY SeqFact DEF Fresh, Job
      <4>2. Fresh(k).pc = "acquired" /\ Fresh(k).state = "running"
        BY DEF Fresh
      <4>3. RowsFit(job[r], journal[r], r \in lost) /\ job[r].pc = "new"
        BY <2>3 DEF JournalInv, Acquire
      <4>4. RowsFit(Fresh(k), journal'[r], r \in lost')
        BY <2>3, <4>2, <4>3 DEF RowsFit, Unreported, Ended, Acquire
      <4> QED
        BY <2>3, <3>2, <4>1, <4>4, OneRunFits DEF Acquire, Alive
    <3> QED
      BY <2>3, <3>1, <3>2 DEF Acquire
  <2>4. CASE (\E old \in PastRetention : Look(old)) \/ Clear \/ UNCHANGED vars
    BY <2>2, <2>4 DEF Look, Clear, vars
  <2>5. ASSUME NEW r \in Runs, Cancel(r) \/ Ceiling(r)
        PROVE  (\A q \in Runs : RowsFit(job[q], journal[q], q \in lost))' /\ OrphansAreOpen'
    <3>1. PICK why \in {"cancel", "deadline"} : job' = [job EXCEPT ![r] = Stopped(job[r], why)]
      BY <2>1, <2>5 DEF Cancel, Ceiling, TasksTypeOK
    <3>2. job[r] \in Job /\ job[r].pc # "over" /\ Alive /\ UNCHANGED <<core, orphans, journal, lost>>
      BY <2>1, <2>5 DEF Cancel, Ceiling, TasksTypeOK
    <3>3. Stopped(job[r], why) \in Job
      BY <3>2, StoppedFact
    <3>4. RowsFit(Stopped(job[r], why), journal'[r], r \in lost')
      BY <3>2, StoppedFits DEF JournalInv
    <3> QED
      BY <3>1, <3>2, <3>3, <3>4, OneRunFits
  <2>6. ASSUME NEW r \in Runs, RunStep(r)
        PROVE  (\A q \in Runs : RowsFit(job[q], journal[q], q \in lost))' /\ OrphansAreOpen'
    BY <2>6, RunStepFits
  <2>7. CASE Close \/ CloseReturns \/ GraceExpires
    <3>1. UNCHANGED <<orphans, job, journal, lost>> /\ Alive /\ core # "boot"
      BY <2>7 DEF Close, CloseReturns, GraceExpires, Alive
    <3>2. Alive'
      BY <2>7 DEF Close, CloseReturns, GraceExpires, Alive
    <3> QED
      BY <3>1, <3>2 DEF JournalInv, OrphansAreOpen, Alive
  <2>8. CASE CloseCancels
    <3>1. UNCHANGED <<orphans, journal, lost>> /\ Alive' /\ core # "boot"
      BY <2>8 DEF CloseCancels, Alive
    <3>2. ASSUME NEW q \in Runs PROVE RowsFit(job'[q], journal'[q], q \in lost')
      <4>1. job'[q] = job[q] \/ (job'[q] = Stopped(job[q], "cancel") /\ job[q].pc # "over")
        BY <2>8 DEF CloseCancels
      <4>2. job[q] \in Job /\ RowsFit(job[q], journal[q], q \in lost)
        BY <2>1 DEF JournalInv, TasksTypeOK
      <4> QED
        BY <3>1, <4>1, <4>2, StoppedFits
    <3> QED
      BY <3>1, <3>2 DEF JournalInv, OrphansAreOpen, Alive
  <2>9. CASE Exit \/ Crash
    <3>1. Dies /\ UNCHANGED <<journal, lost>> /\ orphans' = {} /\ core' = "down"
      BY <2>9 DEF Exit, Crash, Dies
    <3>2. ASSUME NEW q \in Runs PROVE RowsFit(job'[q], journal'[q], q \in lost') /\ job'[q].pc \in {"new", "gone"}
      <4>1. /\ job'[q].pc = IF job[q].pc = "new" THEN "new" ELSE "gone"
            /\ job'[q].state = "none"
        BY <3>1 DEF Dies, New
      <4>2. RowsFit(job[q], journal[q], q \in lost)
        BY DEF JournalInv
      <4> QED
        BY <3>1, <4>1, <4>2 DEF RowsFit, Unreported, Ended
    <3> QED
      BY <3>1, <3>2 DEF OrphansAreOpen
  <2>10. CASE Boot
    <3>1. UNCHANGED <<job, journal>> /\ lost \subseteq lost' /\ core = "down" /\ core' \in {"boot", "open"}
      BY <2>10 DEF Boot
    <3>2. ASSUME NEW q \in Runs PROVE RowsFit(job'[q], journal'[q], q \in lost')
      BY <3>1 DEF JournalInv, RowsFit
    <3>3. (core' = "boot" /\ orphans' = OrphanedRuns) \/ (core' = "open" /\ orphans' = orphans)
      BY <2>10 DEF Boot
    <3>4. orphans = {} /\ \A q \in Runs : job[q].pc \in {"new", "gone"}
      BY <3>1 DEF JournalInv, OrphansAreOpen, Alive
    <3>5. ASSUME NEW q \in OrphanedRuns
          PROVE  job[q].pc = "gone" /\ \A a \in DOMAIN journal[q] : journal[q][a] \notin Outcomes
      <4>1. q \in Runs /\ "started" \in Rows(q) /\ Rows(q) \cap Outcomes = {}
        BY <3>5 DEF OrphanedRuns
      <4>2. journal[q] # <<>>
        BY <4>1 DEF Rows
      <4>3. job[q].pc # "new"
        BY <4>1, <4>2 DEF JournalInv, RowsFit
      <4> QED
        BY <3>4, <4>1, <4>3 DEF Rows
    <3> QED
      BY <3>1, <3>2, <3>3, <3>4, <3>5 DEF OrphansAreOpen, Alive
  <2>11. CASE Serve
    BY <2>11 DEF Serve, JournalInv, OrphansAreOpen, Alive
  <2>12. ASSUME NEW r \in Runs, Reconcile(r)
         PROVE  (\A q \in Runs : RowsFit(job[q], journal[q], q \in lost))' /\ OrphansAreOpen'
    <3>1. /\ r \in orphans /\ core = "boot" /\ job[r].pc = "gone" /\ UNCHANGED job
          /\ \A a \in DOMAIN journal[r] : journal[r][a] \notin Outcomes
      BY <2>12 DEF Reconcile, JournalInv, OrphansAreOpen
    <3>2. CASE UNCHANGED journal
      <4>1. CASE journal' = [journal EXCEPT ![r] = Append(@, "interrupted")]
        <5>1. Append(journal[r], "interrupted") = journal[r]
          BY <2>1, <3>2, <4>1 DEF TasksTypeOK
        <5>2. "interrupted" \in Outcomes \cup {"started"} /\ journal[r] \in Seq(Outcomes \cup {"started"})
          BY <2>1 DEF Outcomes, TasksTypeOK
        <5>3. Len(journal[r]) = Len(journal[r]) + 1 /\ Len(journal[r]) \in Nat
          BY <5>1, <5>2, AppendFact
        <5> QED
          BY <5>3
      <4>2. CASE core' = "open" /\ orphans' = {} /\ lost' = lost \cup orphans
        <5>1. ASSUME NEW q \in Runs PROVE RowsFit(job'[q], journal'[q], q \in lost')
          BY <3>1, <3>2, <4>2 DEF JournalInv, RowsFit
        <5> QED
          BY <4>2, <5>1 DEF OrphansAreOpen, Alive
      <4> QED
        BY <2>12, <4>1, <4>2 DEF Reconcile
    <3>3. CASE journal' # journal
      <4>1. /\ journal' = [journal EXCEPT ![r] = Append(journal[r], "interrupted")]
            /\ orphans' = orphans \ {r} /\ UNCHANGED <<core, lost>>
        BY <2>12, <3>3 DEF Reconcile
      <4>2. "interrupted" \in Outcomes \cup {"started"} /\ journal[r] \in Seq(Outcomes \cup {"started"})
        BY <2>1 DEF Outcomes, TasksTypeOK
      <4>3. journal'[r] = Append(journal[r], "interrupted") /\ \A q \in Runs \ {r} : journal'[q] = journal[q]
        BY <2>1, <4>1 DEF TasksTypeOK
      <4>4. \A a, b \in DOMAIN journal'[r] : journal'[r][a] \in Outcomes /\ journal'[r][b] \in Outcomes => a = b
        BY <3>1, <4>2, <4>3, AppendFact
      <4>5. ASSUME NEW q \in Runs PROVE RowsFit(job'[q], journal'[q], q \in lost')
        <5>1. CASE q = r
          BY <3>1, <4>1, <4>4, <5>1 DEF JournalInv, RowsFit, Unreported
        <5>2. CASE q # r
          BY <3>1, <4>1, <4>3, <5>2 DEF JournalInv, RowsFit
        <5> QED
          BY <5>1, <5>2
      <4>6. OrphansAreOpen'
        <5>1. ASSUME NEW q \in orphans' PROVE core' = "boot" /\ job'[q].pc = "gone" /\ journal'[q] = journal[q]
          BY <2>1, <3>1, <4>1, <4>3, <5>1 DEF JournalInv, OrphansAreOpen, TasksTypeOK
        <5>2. ~Alive' => \A q \in Runs : job'[q].pc \in {"new", "gone"}
          BY <3>1, <4>1 DEF JournalInv, OrphansAreOpen, Alive
        <5> QED
          BY <4>1, <5>1, <5>2 DEF JournalInv, OrphansAreOpen
      <4> QED
        BY <4>5, <4>6
    <3> QED
      BY <3>2, <3>3
  <2> QED
    BY <2>3, <2>4, <2>5, <2>6, <2>7, <2>8, <2>9, <2>10, <2>11, <2>12 DEF Next, ShutdownStep, StartupStep
<1> QED
  BY <1>1, <1>2, PTL DEF Spec

\* A run ends once in the journal: its goroutine writes how it ended before it is over, and
\* reconcileRuns answers only what has no ending and no goroutine any more.
THEOREM EndsOnce == Spec => []OneEnding
<1>1. JournalInv => OneEnding
  <2> SUFFICES ASSUME JournalInv, NEW r \in Runs
               PROVE  Cardinality({i \in DOMAIN journal[r] : journal[r][i] \in Outcomes}) <= 1
    BY DEF OneEnding
  <2> DEFINE E == {i \in DOMAIN journal[r] : journal[r][i] \in Outcomes}
  <2>1. \A a, b \in E : a = b
    BY DEF JournalInv, RowsFit
  <2>2. CASE E = {}
    BY <2>2, FS_EmptySet
  <2>3. CASE E # {}
    <3>1. PICK e \in E : TRUE
      BY <2>3
    <3>2. E = {e}
      BY <2>1, <3>1
    <3> QED
      BY <3>2, FS_Singleton
  <2> QED
    BY <2>2, <2>3
<1> QED
  BY <1>1, JournalHolds, PTL

\* A run that was left alone is told of as its row will tell: outcomeOf and finish judge the
\* same result.
THEOREM TableAndJournalAgree == Spec => []OwnEndsAgree
<1>1. JournalInv => OwnEndsAgree
  <2> SUFFICES ASSUME JournalInv, NEW r \in Runs \ lost, Terminal(r), ~IsAgent(r), job[r].stop = "no", job[r].out # "error"
               PROVE  StateFromOutcome(journal[r][Len(journal[r])]) = job[r].state
    BY DEF OwnEndsAgree
  <2>1. RowsFit(job[r], journal[r], r \in lost) /\ job[r] \in Job
    BY DEF JournalInv, IInv, TasksTypeOK
  <2>2. job[r].pc = "over" /\ job[r].state = FinalState(job[r])
    BY <2>1 DEF RowsFit, Terminal
  <2>3. journal[r][Len(journal[r])] = OutcomeOf(job[r])
    BY <2>1, <2>2 DEF RowsFit, IsAgent
  <2>4. StateFromOutcome(OutcomeOf(job[r])) = FinalState(job[r])
    <3>1. job[r].out \in {"none", "zero", "nonzero", "timeout", "error"}
      BY <2>1 DEF Job
    <3> QED
      BY <3>1 DEF StateFromOutcome, OutcomeOf, FinalState
  <2> QED
    BY <2>2, <2>3, <2>4
<1> QED
  BY <1>1, JournalHolds, PTL

-----------------------------------------------------------------------------
(* What a caller sees: the life of a run. *)

\* What the Core says of the runs, as Lives sees it.
LifeSays == [r \in Runs |-> Says(r)]

\* What they were asked for as.
LifeKeys == [r \in Runs |-> job[r].key]

\* Their last rows.
LifeRows == [r \in Runs |-> LastRow(journal[r])]

\* The Core.
LifeCore == IF Alive THEN "serving" ELSE "away"

\* A step of the life, or none.
LifeStep == Lives!LifeNext \/ UNCHANGED <<LifeCore, LifeSays, LifeKeys, LifeRows>>

\* No end is on record.
Unended == {"none", "started"}

\* What JournalEnded may have written of a run by the time it is reported.
Written(j) ==
  IF j.out = "error" THEN {"refused"}
  ELSE IF j.out = "timeout" THEN {"timeout"}
  ELSE (IF j.out = "zero" THEN {"ok"} ELSE {"failed"}) \cup (IF j.stop = "no" THEN {} ELSE {"canceled"})

\* What is said of a run fits where it is; a delegation has no rows and only it meets the
\* ceiling; a command's last row is one it may have written.
LifeFits(j, rows) ==
  /\ j.pc \in {"new", "gone"} => j.key = None
  /\ j.pc \in Working => j.state = "running"
  /\ j.pc \in Working /\ j.key \in Delegations => rows = <<>>
  /\ j.pc \in Working /\ j.key \notin Delegations => j.stop # "deadline"
  /\ j.pc = "reported" => LastRow(rows) \in Unended \cup Written(j)

\* What the refinement needs beside the invariants above.
LifeInv ==
  /\ \A r \in Runs : LifeFits(job[r], journal[r])
  /\ \A r \in orphans : journal[r] # <<>>

\* The row that was written last is the last row.
LEMMA LastFact ==
  ASSUME NEW S, NEW rows \in Seq(S), NEW o \in S
  PROVE  LastRow(Append(rows, o)) = o
<1>1. PICK more : more = Append(rows, o)
  OBVIOUS
<1>2. Len(more) = Len(rows) + 1 /\ Len(rows) \in Nat /\ more[Len(more)] = o
  BY <1>1, AppendFact
<1>3. more # <<>>
  BY <1>2
<1> QED
  BY <1>1, <1>2, <1>3 DEF LastRow

\* Without an end among the rows the last is none.
LEMMA UnendedFact ==
  ASSUME NEW rows \in Seq(Outcomes \cup {"started"}), \A a \in DOMAIN rows : rows[a] \notin Outcomes
  PROVE  LastRow(rows) \in Unended /\ (rows # <<>> => LastRow(rows) = "started")
<1>1. ASSUME rows # <<>> PROVE rows[Len(rows)] = "started"
  <2>1. Len(rows) \in DOMAIN rows
    BY <1>1
  <2> QED
    BY <2>1
<1> QED
  BY <1>1 DEF LastRow, Unended

\* A step that nobody sees.
LEMMA UnseenStep ==
  ASSUME Alive' <=> Alive,
         \A q \in Runs : Says(q)' = Says(q) /\ job'[q].key = job[q].key /\ LastRow(journal'[q]) = LastRow(journal[q])
  PROVE  LifeStep
BY DEF LifeStep, LifeCore, LifeSays, LifeKeys, LifeRows

\* A step of one run.
LEMMA OneRunLives ==
  ASSUME JournalInv, LifeInv, Alive, NEW r \in Runs, NEW j \in Job, job' = [job EXCEPT ![r] = j], UNCHANGED <<core, orphans>>,
         \A q \in Runs \ {r} : journal'[q] = journal[q], LifeFits(j, journal'[r])
  PROVE  /\ LifeInv' /\ job'[r] = j /\ Alive'
         /\ \A q \in Runs \ {r} : job'[q] = job[q] /\ Says(q)' = Says(q) /\ LastRow(journal'[q]) = LastRow(journal[q])
<1>1. job'[r] = j /\ \A q \in Runs \ {r} : job'[q] = job[q]
  BY DEF JournalInv, IInv, TasksTypeOK
<1>2. orphans = {}
  BY DEF JournalInv, OrphansAreOpen, Alive
<1>3. ASSUME NEW q \in Runs PROVE LifeFits(job'[q], journal'[q])
  <2>1. CASE q = r
    BY <1>1, <2>1
  <2>2. CASE q # r
    BY <1>1, <2>2 DEF LifeInv, LifeFits
  <2> QED
    BY <2>1, <2>2
<1>4. LifeInv'
  BY <1>2, <1>3 DEF LifeInv
<1> QED
  BY <1>1, <1>4 DEF Says, Alive

\* A row of a running command.
LEMMA RecordStep ==
  ASSUME NEW r \in Runs, Alive, Alive', Says(r) = "running", Says(r)' = "running", job[r].key \notin Delegations,
         job'[r].key = job[r].key, LastRow(journal[r]) \in Unended,
         NEW o \in {"started", "ok", "failed", "timeout", "canceled", "refused"}, LastRow(journal'[r]) = o,
         \A q \in Runs \ {r} : job'[q] = job[q] /\ Says(q)' = Says(q) /\ LastRow(journal'[q]) = LastRow(journal[q])
  PROVE  LifeStep
<1>1. LifeSays' = LifeSays /\ LifeKeys' = LifeKeys /\ LifeCore = "serving" /\ LifeCore' = "serving"
  BY DEF LifeSays, LifeKeys, LifeCore
<1>2. LifeRows' = [LifeRows EXCEPT ![r] = o] /\ LifeRows[r] \in Unended
  BY DEF LifeRows
<1>3. LifeSays[r] = "running" /\ LifeKeys[r] \notin Delegations
  BY DEF LifeSays, LifeKeys
<1>4. CASE o = "started" /\ LifeRows[r] = "started"
  <2>1. LifeRows' = LifeRows
    BY <1>2, <1>4 DEF LifeRows
  <2> QED
    BY <1>1, <2>1 DEF LifeStep
<1>5. CASE ~ (o = "started" /\ LifeRows[r] = "started")
  <2>1. Lives!Record(r)
    BY <1>1, <1>2, <1>3, <1>5 DEF Lives!Record, Lives!Write, Lives!Open, LifeSays, LifeKeys, LifeRows, LifeCore, Unended
  <2> QED
    BY <2>1 DEF LifeStep, Lives!LifeNext
<1> QED
  BY <1>4, <1>5

\* Every step of a run's goroutine.
LEMMA RunStepLives ==
  ASSUME JournalInv, LifeInv, NEW r \in Runs, RunStep(r)
  PROVE  LifeInv' /\ LifeStep
<1> USE DEF Steps
<1>1. /\ TasksTypeOK /\ job[r] \in Job /\ RowsFit(job[r], journal[r], r \in lost) /\ Alive /\ LifeFits(job[r], journal[r])
      /\ journal[r] \in Seq(Outcomes \cup {"started"})
  BY DEF JournalInv, LifeInv, IInv, TasksTypeOK, RunStep, Launch, PrepareFails, JournalStarted, ProcessStarts, StartFails,
         AtStart, ProcessEnds, JournalEnded, Finish
<1>2. UNCHANGED <<core, orphans>>
  BY DEF RunStep, Launch, PrepareFails, JournalStarted, ProcessStarts, StartFails, ProcessEnds, JournalEnded, Finish
<1>3. ASSUME job[r].pc \in Unreported \ {"new"} PROVE LastRow(journal[r]) \in Unended
  BY <1>1, <1>3, UnendedFact DEF RowsFit
<1>4. ASSUME NEW pc \in {"launched", "up", "exited", "reported"},
             NEW out \in {"none", "zero", "nonzero", "timeout", "error"}, Goes(r, pc, out),
             job[r].pc \in {"acquired", "launched", "started", "up"}, UNCHANGED journal
      PROVE  LifeInv' /\ LifeStep
  <2>1. PICK j \in Job : /\ job' = [job EXCEPT ![r] = j]
                         /\ j.pc = pc /\ j.key = job[r].key /\ j.state = job[r].state /\ j.stop = job[r].stop /\ j.out = out
    BY <1>1, <1>4, GoesFact
  <2>2. LastRow(journal[r]) \in Unended
    BY <1>3, <1>4 DEF Unreported
  <2>3. LifeFits(j, journal'[r])
    BY <1>1, <1>4, <2>1, <2>2 DEF LifeFits, Working
  <2>4. /\ LifeInv' /\ job'[r] = j /\ Alive'
        /\ \A q \in Runs \ {r} : job'[q] = job[q] /\ Says(q)' = Says(q) /\ LastRow(journal'[q]) = LastRow(journal[q])
    BY <1>1, <1>2, <1>4, <2>1, <2>3, OneRunLives
  <2>5. Says(r)' = Says(r) /\ job'[r].key = job[r].key /\ LastRow(journal'[r]) = LastRow(journal[r])
    BY <1>4, <2>1, <2>4 DEF Says
  <2> QED
    BY <1>1, <2>4, <2>5, UnseenStep
<1>5. CASE Launch(r)
  BY <1>4, <1>5 DEF Launch
<1>6. CASE PrepareFails(r)
  BY <1>4, <1>6 DEF PrepareFails
<1>7. CASE ProcessStarts(r)
  BY <1>4, <1>7 DEF ProcessStarts, AtStart
<1>8. CASE StartFails(r)
  BY <1>4, <1>8 DEF StartFails, AtStart
<1>9. ASSUME NEW out \in {"zero", "nonzero", "timeout", "error"}, ProcessEnds(r, out) PROVE LifeInv' /\ LifeStep
  BY <1>4, <1>9 DEF ProcessEnds
<1>10. ASSUME NEW pc \in {"started", "reported"}, NEW o \in {"started", "ok", "failed", "timeout", "canceled", "refused"},
              NEW out \in {"none", "zero", "nonzero", "timeout", "error"}, Goes(r, pc, out), ExecAttempt(r, o),
              job[r].pc \in {"launched", "exited"}, job[r].key \notin Delegations,
              pc = "reported" => o = OutcomeOf(job[r]) /\ out = job[r].out
       PROVE  LifeInv' /\ LifeStep
  <2>1. PICK j \in Job : /\ job' = [job EXCEPT ![r] = j]
                         /\ j.pc = pc /\ j.key = job[r].key /\ j.state = job[r].state /\ j.stop = job[r].stop /\ j.out = out
    BY <1>1, <1>10, GoesFact
  <2>2. LastRow(journal[r]) \in Unended
    BY <1>3, <1>10 DEF Unreported
  <2>3. /\ \A q \in Runs \ {r} : journal'[q] = journal[q]
        /\ journal'[r] = journal[r] \/ LastRow(journal'[r]) = o
    <3>1. CASE UNCHANGED journal
      BY <3>1
    <3>2. CASE journal' = [journal EXCEPT ![r] = Append(@, o)]
      <4>1. o \in Outcomes \cup {"started"}
        BY DEF Outcomes
      <4>2. LastRow(Append(journal[r], o)) = o
        BY <1>1, <4>1, LastFact
      <4> QED
        BY <1>1, <3>2, <4>2 DEF TasksTypeOK
    <3> QED
      BY <1>10, <3>1, <3>2 DEF ExecAttempt
  <2>4. pc = "reported" => o \in Written(j)
    BY <1>10, <2>1 DEF OutcomeOf, Written
  <2>5. LifeFits(j, journal'[r])
    BY <1>1, <1>10, <2>1, <2>2, <2>3, <2>4 DEF LifeFits, Working
  <2>6. /\ LifeInv' /\ job'[r] = j /\ Alive'
        /\ \A q \in Runs \ {r} : job'[q] = job[q] /\ Says(q)' = Says(q) /\ LastRow(journal'[q]) = LastRow(journal[q])
    BY <1>1, <1>2, <2>1, <2>3, <2>5, OneRunLives
  <2>7. Says(r) = "running" /\ Says(r)' = "running" /\ job'[r].key = job[r].key
    BY <1>1, <1>10, <2>1, <2>6 DEF Says, LifeFits, Working
  <2>8. CASE journal'[r] = journal[r]
    BY <1>1, <2>6, <2>7, <2>8, UnseenStep
  <2>9. CASE LastRow(journal'[r]) = o
    BY <1>1, <1>10, <2>2, <2>6, <2>7, <2>9, RecordStep
  <2> QED
    BY <2>3, <2>6, <2>8, <2>9
<1>11. CASE JournalStarted(r)
  BY <1>10, <1>11 DEF JournalStarted, IsAgent
<1>12. CASE JournalEnded(r)
  <2>1. job[r].out \in {"none", "zero", "nonzero", "timeout", "error"}
    BY <1>1 DEF Job
  <2>2. OutcomeOf(job[r]) \in {"started", "ok", "failed", "timeout", "canceled", "refused"}
    BY DEF OutcomeOf
  <2> QED
    BY <1>10, <1>12, <2>1, <2>2 DEF JournalEnded, IsAgent
<1>13. CASE Finish(r)
  <2>1. PICK s \in Ended : s = FinalState(job[r])
    BY <1>1, FinalStateType
  <2>2. PICK j : j = [job[r] EXCEPT !.pc = "over", !.state = s]
    OBVIOUS
  <2>3. j \in Job /\ j.pc = "over" /\ j.key = job[r].key /\ j.state = s
    BY <1>1, <2>2 DEF Job
  <2>4. job' = [job EXCEPT ![r] = j] /\ UNCHANGED journal /\ job[r].pc \in Working
    BY <1>1, <1>13, <2>1, <2>2 DEF Finish, TasksTypeOK, Working
  <2>5. LifeFits(j, journal'[r])
    BY <2>3 DEF LifeFits, Working
  <2>6. /\ LifeInv' /\ job'[r] = j /\ Alive'
        /\ \A q \in Runs \ {r} : job'[q] = job[q] /\ Says(q)' = Says(q) /\ LastRow(journal'[q]) = LastRow(journal[q])
    BY <1>1, <1>2, <2>3, <2>4, <2>5, OneRunLives
  <2>7. Says(r) = "running" /\ Says(r)' = s
    BY <1>1, <2>3, <2>4, <2>6 DEF Says, LifeFits, Working
  <2>8. LastRow(journal[r]) \in Unended \cup Lives!Agree(s)
    <3>1. CASE IsAgent(r)
      BY <1>1, <2>4, <3>1 DEF IsAgent, LifeFits, LastRow, Unended
    <3>2. CASE ~IsAgent(r)
      <4>1. job[r].stop # "deadline" /\ LastRow(journal[r]) \in Unended \cup Written(job[r])
        BY <1>1, <1>13, <2>4, <3>2 DEF Finish, IsAgent, LifeFits
      <4>2. /\ job[r].out \in {"none", "zero", "nonzero", "timeout", "error"}
            /\ job[r].stop \in {"no", "cancel", "deadline"}
        BY <1>1 DEF Job
      <4>3. Written(job[r]) \subseteq Lives!Agree(s)
        BY <2>1, <4>1, <4>2 DEF Written, FinalState, Lives!Agree
      <4> QED
        BY <4>1, <4>3
    <3> QED
      BY <3>1, <3>2
  <2>9. Lives!End(r, s)
    <3>1. LifeSays' = [LifeSays EXCEPT ![r] = s] /\ LifeSays[r] = "running"
      BY <2>6, <2>7 DEF LifeSays
    <3>2. LifeKeys' = LifeKeys /\ LifeRows' = LifeRows /\ LifeCore = "serving" /\ LifeCore' = "serving"
      BY <1>1, <2>3, <2>4, <2>6 DEF LifeKeys, LifeRows, LifeCore
    <3>3. LifeRows[r] \in Unended \cup Lives!Agree(s)
      BY <2>8 DEF LifeRows
    <3> QED
      BY <3>1, <3>2, <3>3 DEF Lives!End, Lives!Open, Unended, LifeSays, LifeKeys, LifeRows, LifeCore
  <2>10. s \in Lives!Verdicts
    BY DEF Ended, Lives!Verdicts
  <2> QED
    BY <2>6, <2>9, <2>10 DEF LifeStep, Lives!LifeNext
<1> QED
  BY <1>5, <1>6, <1>7, <1>8, <1>9, <1>11, <1>12, <1>13 DEF RunStep

\* A call is answered with a new run only when none runs for it.
LEMMA AcquireLives ==
  ASSUME JournalInv, JournalInv', LifeInv, NEW r \in Runs, NEW k \in Keys, NEW old \in PastRetention, Acquire(r, k, old)
  PROVE  LifeInv' /\ LifeStep
<1>1. UNCHANGED <<core, orphans, journal>> /\ core = "open" /\ Alive /\ job[r].pc = "new"
  BY DEF Acquire, Alive
<1>2. CASE UNCHANGED job
  <2>1. LifeInv'
    BY <1>1, <1>2 DEF LifeInv, LifeFits
  <2>2. Alive' <=> Alive
    BY <1>1 DEF Alive
  <2>3. \A q \in Runs : Says(q)' = Says(q) /\ job'[q].key = job[q].key /\ LastRow(journal'[q]) = LastRow(journal[q])
    BY <1>1, <1>2 DEF Says
  <2> QED
    BY <2>1, <2>2, <2>3, UnseenStep
<1>3. CASE job' = [job EXCEPT ![r] = Fresh(k)]
  <2>1. PICK j \in Job : j = Fresh(k)
    BY SeqFact DEF Fresh, Job
  <2>2. j.pc = "acquired" /\ j.state = "running" /\ j.key = k /\ j.stop = "no"
    BY <2>1 DEF Fresh
  <2>3. journal[r] = <<>>
    BY <1>1 DEF JournalInv, RowsFit
  <2>4. LifeFits(j, journal'[r])
    BY <1>1, <2>2, <2>3 DEF LifeFits, Working
  <2>5. /\ LifeInv' /\ job'[r] = j /\ Alive'
        /\ \A q \in Runs \ {r} : job'[q] = job[q] /\ Says(q)' = Says(q) /\ LastRow(journal'[q]) = LastRow(journal[q])
    BY <1>1, <1>3, <2>1, <2>4, OneRunLives
  <2>6. Says(r) = "new" /\ Says(r)' = "running"
    BY <1>1, <2>2, <2>5 DEF Says
  <2>7. ASSUME NEW q \in Runs, Says(q) = "running" PROVE job[q].key # k
    <3>1. q # r /\ job[q].state = "running" /\ job'[q] = job[q]
      BY <2>5, <2>6, <2>7 DEF Says
    <3>2. byKey'[job'[q].key] = q /\ byKey'[job'[r].key] = r
      BY <2>2, <2>5, <3>1 DEF JournalInv, IInv, RunningHoldsItsKey
    <3> QED
      BY <2>2, <2>5, <3>1, <3>2
  <2>8. Lives!Begin(r, k)
    <3>1. LifeSays' = [LifeSays EXCEPT ![r] = "running"] /\ LifeSays[r] = "new"
      BY <2>5, <2>6 DEF LifeSays
    <3>2. LifeKeys' = [LifeKeys EXCEPT ![r] = k]
      BY <2>2, <2>5 DEF LifeKeys
    <3>3. LifeRows' = LifeRows /\ LifeCore = "serving" /\ LifeCore' = "serving"
      BY <1>1, <2>5 DEF LifeRows, LifeCore
    <3>4. \A q \in Runs : LifeSays[q] = "running" => LifeKeys[q] # k
      BY <2>7 DEF LifeSays, LifeKeys
    <3> QED
      BY <3>1, <3>2, <3>3, <3>4 DEF Lives!Begin, LifeSays, LifeKeys, LifeRows, LifeCore
  <2> QED
    BY <2>5, <2>8 DEF LifeStep, Lives!LifeNext
<1> QED
  BY <1>2, <1>3 DEF Acquire

\* A stop is not seen until the run ends.
LEMMA StopLives ==
  ASSUME NEW j \in Job, NEW rows, NEW why \in {"cancel", "deadline"}, LifeFits(j, rows),
         why = "deadline" => j.key \in Delegations
  PROVE  LifeFits(Stopped(j, why), rows)
<1>1. /\ Stopped(j, why).pc = j.pc /\ Stopped(j, why).key = j.key /\ Stopped(j, why).state = j.state
      /\ Stopped(j, why).out = j.out /\ Stopped(j, why).stop = IF j.stop = "no" THEN why ELSE j.stop
  BY DEF Stopped, Job
<1>2. Written(j) \subseteq Written(Stopped(j, why))
  BY <1>1 DEF Written
<1> QED
  BY <1>1, <1>2 DEF LifeFits

\* A step that leaves the runs and the journal alone, and a Core that lives alive.
LEMMA QuietLives ==
  ASSUME LifeInv, UNCHANGED <<orphans, job, journal>>, Alive' <=> Alive
  PROVE  LifeInv' /\ LifeStep
<1>1. LifeInv'
  BY DEF LifeInv, LifeFits
<1>2. \A q \in Runs : Says(q)' = Says(q) /\ job'[q].key = job[q].key /\ LastRow(journal'[q]) = LastRow(journal[q])
  BY DEF Says
<1> QED
  BY <1>1, <1>2, UnseenStep

\* Cancel, the runtime ceiling and Close's cancel of every context.
LEMMA StopsLive ==
  ASSUME JournalInv, LifeInv, CloseCancels \/ \E r \in Runs : Cancel(r) \/ Ceiling(r)
  PROVE  LifeInv' /\ LifeStep
<1>1. UNCHANGED <<orphans, journal>> /\ Alive /\ Alive'
  BY DEF CloseCancels, Cancel, Ceiling, Alive
<1>2. ASSUME NEW q \in Runs
      PROVE  /\ LifeFits(job'[q], journal'[q])
             /\ job'[q].pc = job[q].pc /\ job'[q].state = job[q].state /\ job'[q].key = job[q].key
  <2>1. job[q] \in Job /\ LifeFits(job[q], journal[q]) /\ journal'[q] = journal[q]
    BY <1>1 DEF JournalInv, IInv, TasksTypeOK, LifeInv
  <2>2. \/ job'[q] = job[q]
        \/ job'[q] = Stopped(job[q], "cancel")
        \/ job'[q] = Stopped(job[q], "deadline") /\ job[q].key \in Delegations
    <3>1. CASE CloseCancels
      BY <3>1 DEF CloseCancels
    <3>2. ASSUME NEW r \in Runs, Cancel(r) PROVE job'[q] = job[q] \/ job'[q] = Stopped(job[q], "cancel")
      BY <3>2 DEF Cancel, JournalInv, IInv, TasksTypeOK
    <3>3. ASSUME NEW r \in Runs, Ceiling(r)
          PROVE  job'[q] = job[q] \/ (job'[q] = Stopped(job[q], "deadline") /\ job[q].key \in Delegations)
      BY <3>3 DEF Ceiling, IsAgent, JournalInv, IInv, TasksTypeOK
    <3> QED
      BY <3>1, <3>2, <3>3
  <2>3. CASE job'[q] = job[q]
    BY <2>1, <2>3
  <2>4. CASE job'[q] = Stopped(job[q], "cancel")
    <3>1. LifeFits(Stopped(job[q], "cancel"), journal[q])
      BY <2>1, StopLives
    <3> QED
      BY <2>1, <2>4, <3>1, StoppedFact
  <2>5. CASE job'[q] = Stopped(job[q], "deadline") /\ job[q].key \in Delegations
    <3>1. LifeFits(Stopped(job[q], "deadline"), journal[q])
      BY <2>1, <2>5, StopLives
    <3> QED
      BY <2>1, <2>5, <3>1, StoppedFact
  <2> QED
    BY <2>2, <2>3, <2>4, <2>5
<1>3. LifeInv'
  BY <1>1, <1>2 DEF LifeInv
<1>4. \A q \in Runs : Says(q)' = Says(q) /\ job'[q].key = job[q].key /\ LastRow(journal'[q]) = LastRow(journal[q])
  BY <1>1, <1>2 DEF Says
<1> QED
  BY <1>1, <1>3, <1>4, UnseenStep

\* The Core's end, by Close or by a crash, also while it answers for the last one.
LEMMA DeathLives ==
  ASSUME JournalInv, LifeInv, Exit \/ Crash
  PROVE  LifeInv' /\ LifeStep
<1>1. Dies /\ UNCHANGED journal /\ orphans' = {} /\ ~Alive'
  BY DEF Exit, Crash, Dies, Alive
<1>2. ASSUME NEW q \in Runs
      PROVE  job'[q].pc = (IF job[q].pc = "new" THEN "new" ELSE "gone") /\ job'[q].key = None
  BY <1>1 DEF Dies, New
<1>3. LifeInv'
  BY <1>1, <1>2 DEF LifeInv, LifeFits, Working
<1>4. CASE Alive
  <2>1. LifeSays' = [r \in Runs |-> IF LifeSays[r] = "new" THEN "new" ELSE "gone"]
    <3>1. ASSUME NEW q \in Runs PROVE Says(q)' = IF Says(q) = "new" THEN "new" ELSE "gone"
      <4>1. job[q].state # "new"
        BY DEF JournalInv, IInv, TasksTypeOK, Job, Ended
      <4> QED
        BY <1>2, <4>1 DEF Says
    <3> QED
      BY <3>1 DEF LifeSays
  <2>2. LifeKeys' = [r \in Runs |-> None] /\ LifeRows' = LifeRows /\ LifeCore = "serving" /\ LifeCore' = "away"
    BY <1>1, <1>2, <1>4 DEF LifeKeys, LifeRows, LifeCore
  <2>3. Lives!Go
    BY <2>1, <2>2 DEF Lives!Go, LifeSays, LifeKeys, LifeRows, LifeCore
  <2> QED
    BY <1>3, <2>3 DEF LifeStep, Lives!LifeNext
<1>5. CASE ~Alive
  <2>1. ASSUME NEW q \in Runs PROVE Says(q)' = Says(q) /\ job'[q].key = job[q].key
    <3>1. job[q].pc \in {"new", "gone"} /\ job[q].key = None
      BY <1>5 DEF JournalInv, OrphansAreOpen, LifeInv, LifeFits
    <3> QED
      BY <1>2, <3>1 DEF Says
  <2> QED
    BY <1>1, <1>3, <1>5, <2>1, UnseenStep
<1> QED
  BY <1>4, <1>5

\* The next Core serves.
LEMMA StartLives ==
  ASSUME LifeInv, ~Alive, Alive', UNCHANGED <<job, journal>>, orphans' = {}
  PROVE  LifeInv' /\ LifeStep
<1>1. LifeInv'
  BY DEF LifeInv, LifeFits
<1>2. LifeSays' = LifeSays /\ LifeKeys' = LifeKeys /\ LifeRows' = LifeRows /\ LifeCore = "away" /\ LifeCore' = "serving"
  BY DEF LifeSays, LifeKeys, LifeRows, LifeCore, Says
<1>3. Lives!Start
  BY <1>2 DEF Lives!Start, LifeSays, LifeKeys, LifeRows, LifeCore
<1> QED
  BY <1>1, <1>3 DEF LifeStep, Lives!LifeNext

\* Startup: the answers for the runs of the last life, then service.
LEMMA StartupLives ==
  ASSUME JournalInv, LifeInv, StartupStep
  PROVE  LifeInv' /\ LifeStep
<1>1. UNCHANGED job /\ ~Alive
  BY DEF StartupStep, Boot, Serve, Reconcile, Alive
<1>2. core = "down" => orphans = {}
  BY DEF JournalInv, OrphansAreOpen
<1>3. CASE core = "down" /\ core' = "boot" /\ orphans' = OrphanedRuns /\ UNCHANGED journal
  <2>1. \A q \in OrphanedRuns : journal[q] # <<>>
    BY DEF OrphanedRuns, Rows
  <2>2. LifeInv'
    BY <1>1, <1>3, <2>1 DEF LifeInv, LifeFits
  <2>3. \A q \in Runs : Says(q)' = Says(q) /\ job'[q].key = job[q].key /\ LastRow(journal'[q]) = LastRow(journal[q])
    BY <1>1, <1>3 DEF Says
  <2>4. ~Alive'
    BY <1>3 DEF Alive
  <2> QED
    BY <1>1, <2>2, <2>3, <2>4, UnseenStep
<1>4. CASE core' = "open" /\ orphans' = {} /\ UNCHANGED journal
  <2>1. Alive'
    BY <1>4 DEF Alive
  <2> QED
    BY <1>1, <1>4, <2>1, StartLives
<1>5. ASSUME NEW r \in orphans, core' = core, orphans' = orphans \ {r},
             journal' = [journal EXCEPT ![r] = Append(@, "interrupted")]
      PROVE  LifeInv' /\ LifeStep
  <2>1. /\ TasksTypeOK /\ r \in Runs /\ job[r].pc = "gone" /\ journal[r] # <<>> /\ ~Alive'
        /\ \A a \in DOMAIN journal[r] : journal[r][a] \notin Outcomes
    BY <1>1, <1>5 DEF JournalInv, IInv, TasksTypeOK, OrphansAreOpen, LifeInv, Alive
  <2>2. journal[r] \in Seq(Outcomes \cup {"started"}) /\ "interrupted" \in Outcomes \cup {"started"}
    BY <2>1 DEF TasksTypeOK, Outcomes
  <2>3. journal'[r] = Append(journal[r], "interrupted") /\ \A q \in Runs \ {r} : journal'[q] = journal[q]
    BY <1>5, <2>1 DEF TasksTypeOK
  <2>4. LastRow(journal[r]) = "started" /\ LastRow(journal'[r]) = "interrupted"
    BY <2>1, <2>2, <2>3, UnendedFact, LastFact
  <2>5. LifeInv'
    <3>1. ASSUME NEW q \in Runs PROVE LifeFits(job'[q], journal'[q])
      <4>1. job'[q] = job[q] /\ job[q].pc \in {"new", "gone"} /\ LifeFits(job[q], journal[q])
        BY <1>1 DEF JournalInv, OrphansAreOpen, LifeInv
      <4> QED
        BY <4>1 DEF LifeFits, Working
    <3>2. ASSUME NEW q \in orphans' PROVE journal'[q] # <<>>
      <4>1. q \in orphans /\ q # r /\ q \in Runs
        BY <1>5, <2>1, <3>2 DEF TasksTypeOK
      <4> QED
        BY <2>3, <4>1 DEF LifeInv
    <3> QED
      BY <3>1, <3>2 DEF LifeInv
  <2>6. Lives!Interrupt(r)
    <3>1. LifeSays' = LifeSays /\ LifeKeys' = LifeKeys /\ LifeCore = "away" /\ LifeCore' = "away"
      BY <1>1, <2>1 DEF LifeSays, LifeKeys, LifeCore, Says
    <3>2. LifeRows' = [LifeRows EXCEPT ![r] = "interrupted"]
      BY <2>1, <2>3, <2>4 DEF LifeRows
    <3>3. LifeSays[r] = "gone" /\ LifeRows[r] = "started"
      BY <2>1, <2>4 DEF LifeSays, LifeRows, Says
    <3> QED
      BY <3>1, <3>2, <3>3 DEF Lives!Interrupt, Lives!Write, LifeSays, LifeKeys, LifeRows, LifeCore
  <2> QED
    BY <2>1, <2>5, <2>6 DEF LifeStep, Lives!LifeNext
<1>6. CASE Boot
  BY <1>2, <1>3, <1>4, <1>6 DEF Boot
<1>7. CASE Serve
  BY <1>4, <1>7 DEF Serve
<1>8. ASSUME NEW r \in Runs, Reconcile(r) PROVE LifeInv' /\ LifeStep
  BY <1>4, <1>5, <1>8 DEF Reconcile
<1> QED
  BY <1>6, <1>7, <1>8 DEF StartupStep

\* Every step.
LEMMA TasksLive ==
  ASSUME JournalInv, JournalInv', LifeInv, [Next]_vars
  PROVE  LifeInv' /\ LifeStep
<1>1. CASE (\E old \in PastRetention : Look(old)) \/ Clear \/ Close \/ CloseReturns \/ GraceExpires \/ UNCHANGED vars
  <2>1. UNCHANGED <<orphans, job, journal>> /\ (Alive' <=> Alive)
    BY <1>1 DEF Look, Clear, Close, CloseReturns, GraceExpires, vars, Alive
  <2> QED
    BY <2>1, QuietLives
<1>2. CASE \E r \in Runs, k \in Keys, old \in PastRetention : Acquire(r, k, old)
  BY <1>2, AcquireLives
<1>3. CASE CloseCancels \/ \E r \in Runs : Cancel(r) \/ Ceiling(r)
  BY <1>3, StopsLive
<1>4. CASE \E r \in Runs : RunStep(r)
  BY <1>4, RunStepLives
<1>5. CASE Exit \/ Crash
  BY <1>5, DeathLives
<1>6. CASE StartupStep
  BY <1>6, StartupLives
<1> QED
  BY <1>1, <1>2, <1>3, <1>4, <1>5, <1>6 DEF Next, ShutdownStep

\* The task manager, the runner, the journal and the startup together implement RunLife: every critical section, row,
\* read of a context, purge, shutdown, crash and restart maps to one step of a run's life or to none.
THEOREM TasksImplementLife == Spec => RunsLiveOnce
<1>1. Init => Lives!LifeInit /\ LifeInv
  <2> SUFFICES ASSUME Init PROVE Lives!LifeInit /\ LifeInv
    OBVIOUS
  <2>1. \A r \in Runs : job[r].pc = "new" /\ job[r].key = None /\ journal[r] = <<>>
    BY DEF Init, New
  <2>2. LifeInv
    BY <2>1 DEF Init, LifeInv, LifeFits, Working
  <2>3. LifeCore = "away" /\ LifeSays = [r \in Runs |-> "new"]
    BY <2>1 DEF LifeCore, LifeSays, Says, Init, Alive
  <2>4. LifeKeys = [r \in Runs |-> None] /\ LifeRows = [r \in Runs |-> "none"]
    BY <2>1 DEF LifeKeys, LifeRows, LastRow
  <2> QED
    BY <2>2, <2>3, <2>4 DEF Lives!LifeInit, LifeCore, LifeSays, LifeKeys, LifeRows
<1>2. JournalInv /\ JournalInv' /\ LifeInv /\ [Next]_vars => LifeInv' /\ [Lives!LifeNext]_(Lives!lifeVars)
  <2> SUFFICES ASSUME JournalInv, JournalInv', LifeInv, [Next]_vars PROVE LifeInv' /\ [Lives!LifeNext]_(Lives!lifeVars)
    OBVIOUS
  <2>1. LifeInv' /\ LifeStep
    BY TasksLive
  <2> QED
    BY <2>1 DEF LifeStep, Lives!lifeVars, LifeCore, LifeSays, LifeKeys, LifeRows
<1> QED
  BY <1>1, <1>2, JournalHolds, PTL DEF Spec, RunsLiveOnce, Lives!LifeSpec

-----------------------------------------------------------------------------
(* Snapshot: pictures of a page. *)

\* The steps of Take.
TakeStages == {"new", "agreed", "building", "driving", "navigating", "settling", "settled", "titling", "titled",
               "shooting", "unwinding", "bye", "hangup", "returned"}

\* How a picture ends.
TakeEnds == {"none", "refused", "failed", "picture", "toolarge"}

\* Take: its step, the rung of the ladder it stands on, and its verdict.
TakeRecords == [pc : TakeStages, built : 0..4, tries : Nat, late : BOOLEAN, out : TakeEnds, settled : BOOLEAN,
                gaveUp : SUBSET {"browser", "profile"}]

\* The types of the state.
SnapshotTypeOK ==
  /\ take \in TakeRecords
  /\ conveyor \in [Conveyors -> [pc : {"none", "dialled", "hijacked", "relaying", "serving", "idle", "ended"}, port : Ports]]
  /\ closing \in BOOLEAN /\ folder \in BOOLEAN
  /\ chrome \in {"absent", "running", "exited"}
  /\ reader \in {"none", "reading", "done", "navigating", "titling", "shooting", "bye"}

\* What stands is what the ladder says: the rungs above the one Take stands on are gone,
\* or given up on, or, while it builds, not there yet.
LadderHolds ==
  /\ take.pc \in {"new", "agreed", "returned"} => take.built = Nothing
  /\ take.pc = "building" => take.built # Dialled
  /\ take.pc \in {"driving", "navigating", "settling", "settled", "titling", "titled", "shooting", "bye", "hangup"} => take.built = Dialled
  /\ take.built # Dialled => reader \in {"none", "done"}
  /\ chrome = "running" =>
       \/ take.built >= Profiled /\ (take.built = Profiled => take.pc = "building")
       \/ "browser" \in take.gaveUp /\ take.pc \in {"unwinding", "returned"} /\ (take.built = Nothing => closing)
  /\ folder => take.built >= Profiled \/ "profile" \in take.gaveUp

\* A proxy that has served anything is closed before Take returns.
ServedIsClosed ==
  /\ closing => take.pc \in {"unwinding", "returned"} /\ take.built <= Proxied
  /\ ~closing /\ take.built = Nothing => \A c \in Conveyors : conveyor[c].pc = "none"
  /\ take.pc = "returned" => \A c \in Conveyors : conveyor[c].pc # "relaying"

\* The inductive invariant of a picture.
SnapshotInv == SnapshotTypeOK /\ LadderHolds /\ ServedIsClosed

\* A step of Take that stays on its rung.
LEMMA TakeTurns ==
  ASSUME NEW t \in TakeRecords, NEW pc \in TakeStages, NEW r, r = [t EXCEPT !.pc = pc]
  PROVE  r \in TakeRecords /\ r.pc = pc /\ r.built = t.built /\ r.gaveUp = t.gaveUp
BY DEF TakeRecords

\* The same, moving up or down the ladder too.
LEMMA TakeMoves ==
  ASSUME take \in TakeRecords, NEW pc \in TakeStages, NEW b \in 0..4,
         take' = [take EXCEPT !.pc = pc, !.built = b] \/ take' = [take EXCEPT !.built = b, !.pc = pc]
  PROVE  take' \in TakeRecords /\ take'.pc = pc /\ take'.built = b /\ take'.gaveUp = take.gaveUp
<1>1. take'.pc = pc /\ take'.built = b /\ take'.gaveUp = take.gaveUp
  BY DEF TakeRecords
<1>2. take' = [pc |-> pc, built |-> b, tries |-> take.tries, late |-> take.late, out |-> take.out, settled |-> take.settled,
               gaveUp |-> take.gaveUp]
  BY DEF TakeRecords
<1>3. take.tries \in Nat /\ take.late \in BOOLEAN /\ take.out \in TakeEnds /\ take.settled \in BOOLEAN /\ take.gaveUp \in SUBSET {"browser", "profile"}
  BY DEF TakeRecords
<1>4. take' \in TakeRecords
  BY <1>2, <1>3 DEF TakeRecords
<1> QED
  BY <1>1, <1>4

\* Driving the page, whatever the answers: only pc and the verdict change.
LEMMA DrivingKeeps ==
  ASSUME SnapshotInv, take' \in TakeRecords, take'.built = take.built, take'.gaveUp = take.gaveUp,
         \/ take'.pc = take.pc
         \/ /\ take.built = Dialled
            /\ take'.pc \in {"navigating", "settling", "settled", "titling", "titled", "shooting", "unwinding", "bye", "hangup"},
         reader' \in {"none", "reading", "done", "navigating", "titling", "shooting", "bye"},
         take.built = Dialled \/ reader' = reader,
         UNCHANGED <<conveyor, closing, chrome, folder>>
  PROVE  SnapshotInv'
<1> USE DEF Nothing, Proxied, Profiled, Launched, Dialled, TakeRecords, TakeStages, SnapshotInv
<1>1. SnapshotTypeOK'
  BY DEF SnapshotTypeOK
<1>2. LadderHolds'
  BY DEF SnapshotTypeOK, LadderHolds
<1>3. ServedIsClosed'
  BY DEF SnapshotTypeOK, ServedIsClosed
<1> QED
  BY <1>1, <1>2, <1>3

\* When Take has returned, a browser runs only if stop gave up on it, and behind a closed proxy; its profile is there
\* only if removeProfile gave up; and no reader and no tunnel is left: what was built is taken down in reverse order,
\* and track refuses a CONNECT that was dialled while the proxy closed.
THEOREM PictureLeavesNothing == SnapshotSpec => []NothingOutlivesThePicture
<1> USE DEF Nothing, Proxied, Profiled, Launched, Dialled
<1>1. SnapshotInit => SnapshotInv
  <2> SUFFICES ASSUME SnapshotInit PROVE SnapshotInv
    OBVIOUS
  <2>1. take \in TakeRecords /\ take.pc = "new" /\ take.built = 0
    BY DEF SnapshotInit, TakeRecords, TakeStages, TakeEnds
  <2>2. /\ conveyor \in [Conveyors -> [pc : {"none", "dialled", "hijacked", "relaying", "serving", "idle", "ended"}, port : Ports]]
        /\ \A c \in Conveyors : conveyor[c].pc = "none"
    BY SnapshotAssumption DEF SnapshotInit
  <2>3. ~closing /\ chrome = "absent" /\ ~folder /\ reader = "none" /\ closing \in BOOLEAN /\ folder \in BOOLEAN
    BY DEF SnapshotInit
  <2> QED
    BY <2>1, <2>2, <2>3 DEF SnapshotInv, SnapshotTypeOK, LadderHolds, ServedIsClosed
<1>2. SnapshotInv /\ [SnapshotNext]_snapshotVars => SnapshotInv'
  <2> SUFFICES ASSUME SnapshotInv, [SnapshotNext]_snapshotVars PROVE SnapshotInv'
    OBVIOUS
  <2>0. take \in TakeRecords
    BY DEF SnapshotInv, SnapshotTypeOK
  <2>s. \A x \in {"new", "agreed", "building", "driving", "navigating", "settling", "settled", "titling", "titled",
               "shooting", "unwinding", "bye", "hangup", "returned"} : x \in TakeStages
    BY DEF TakeStages
  <2>e. \A x \in {"none", "refused", "failed", "picture", "toolarge"} : x \in TakeEnds
    BY DEF TakeEnds
  <2> USE DEF SnapshotInv, SnapshotTypeOK, LadderHolds, ServedIsClosed
  <2>1. CASE SnapshotAsks
    <3>1. CASE take' = [take EXCEPT !.pc = "agreed"]
      <4>1. take' \in TakeRecords /\ take'.pc = "agreed" /\ take'.built = take.built /\ take'.gaveUp = take.gaveUp
        BY <2>0, <2>s, <3>1, TakeTurns
      <4> QED
        BY <2>1, <4>1 DEF SnapshotAsks
    <3>2. CASE take' = [take EXCEPT !.pc = "returned", !.out = "refused"]
      <4>1. take' \in TakeRecords /\ take'.pc = "returned" /\ take'.built = take.built /\ take'.gaveUp = take.gaveUp
        BY <2>0, <2>s, <2>e, <3>2 DEF TakeRecords
      <4> QED
        BY <2>1, <4>1 DEF SnapshotAsks
    <3> QED
      BY <2>1, <3>1, <3>2 DEF SnapshotAsks, Turns
  <2>2. CASE TakeChecks
    <3>1. take' \in TakeRecords /\ take'.pc \in {"building", "unwinding"} /\ take'.built = take.built /\ take'.gaveUp = take.gaveUp
      <4>1. CASE take' = [take EXCEPT !.pc = "building"]
        BY <2>0, <2>s, <4>1, TakeTurns
      <4>2. CASE take' = [take EXCEPT !.pc = "unwinding", !.out = "refused"]
        BY <2>0, <2>s, <2>e, <4>2 DEF TakeRecords
      <4> QED
        BY <2>2, <4>1, <4>2 DEF TakeChecks, Turns, GivesUp
    <3>2. take.pc = "agreed" /\ UNCHANGED <<conveyor, closing, chrome, folder, reader>>
      BY <2>2 DEF TakeChecks
    <3> QED
      BY <3>1, <3>2
  <2>b. ASSUME NEW from \in 0..3, NEW to \in 1..4, Builds(from, to)
        PROVE  /\ take.pc = "building" /\ take.built = from /\ take' \in TakeRecords /\ take'.built = to /\ take'.gaveUp = take.gaveUp
               /\ take'.pc = IF to = 4 THEN "driving" ELSE "building"
    <3>1. PICK pc \in TakeStages : pc = (IF to = 4 THEN "driving" ELSE "building") /\ take' = [take EXCEPT !.built = to, !.pc = pc]
      <4>1. CASE to = 4
        BY <2>b, <2>s, <4>1 DEF Builds
      <4>2. CASE to # 4
        BY <2>b, <2>s, <4>2 DEF Builds
      <4> QED
        BY <4>1, <4>2
    <3>2. take' \in TakeRecords /\ take'.built = to /\ take'.pc = pc /\ take'.gaveUp = take.gaveUp
      <4>1. to \in 0..4
        OBVIOUS
      <4>2. take' = [take EXCEPT !.pc = pc, !.built = to] \/ take' = [take EXCEPT !.built = to, !.pc = pc]
        BY <3>1
      <4> QED
        BY <2>0, <4>1, <4>2, TakeMoves
    <3> QED
      BY <2>b, <3>1, <3>2 DEF Builds
  <2>3. CASE StartProxy
    <3>1. Builds(0, 1) /\ UNCHANGED <<conveyor, closing, chrome, folder, reader>>
      BY <2>3 DEF StartProxy
    <3>2. take.pc = "building" /\ take.built = 0 /\ take' \in TakeRecords /\ take'.built = 1 /\ take'.pc = "building" /\ take'.gaveUp = take.gaveUp
      BY <2>b, <3>1
    <3> QED
      BY <3>1, <3>2
  <2>4. CASE MakeProfile
    <3>1. Builds(1, 2) /\ UNCHANGED <<conveyor, closing, chrome, reader>> /\ folder' = TRUE
      BY <2>4 DEF MakeProfile
    <3>2. take.pc = "building" /\ take.built = 1 /\ take' \in TakeRecords /\ take'.built = 2 /\ take'.pc = "building" /\ take'.gaveUp = take.gaveUp
      BY <2>b, <3>1
    <3> QED
      BY <3>1, <3>2
  <2>5. CASE BrowserStarts
    BY <2>5 DEF BrowserStarts
  <2>6. CASE BrowserReady
    <3>1. Builds(2, 3) /\ UNCHANGED <<conveyor, closing, chrome, folder, reader>>
      BY <2>6 DEF BrowserReady
    <3>2. take.pc = "building" /\ take.built = 2 /\ take' \in TakeRecords /\ take'.built = 3 /\ take'.pc = "building" /\ take'.gaveUp = take.gaveUp
      BY <2>b, <3>1
    <3> QED
      BY <3>1, <3>2
  <2>7. CASE DialCDP
    <3>1. Builds(3, 4) /\ UNCHANGED <<conveyor, closing, chrome, folder>> /\ reader' = "reading"
      BY <2>7 DEF DialCDP
    <3>2. take.pc = "building" /\ take.built = 3 /\ take' \in TakeRecords /\ take'.built = 4 /\ take'.pc = "driving" /\ take'.gaveUp = take.gaveUp
      BY <2>b, <3>1
    <3> QED
      BY <3>1, <3>2
  <2>g. ASSUME NEW next \in TakeRecords, Stops(next)
        PROVE  /\ take' \in TakeRecords /\ take'.pc = next.pc /\ take'.built = next.built /\ next.gaveUp \subseteq take'.gaveUp
               /\ chrome' \in {"running", "exited"}
               /\ chrome' = "running" => "browser" \in take'.gaveUp
               /\ "profile" \in next.gaveUp => "profile" \in take'.gaveUp
    <3>1. CASE chrome' = "exited" /\ take' = next
      BY <3>1
    <3>2. CASE chrome = "running" /\ chrome' = chrome /\ take' = [next EXCEPT !.gaveUp = @ \cup {"browser"}]
      <4>1. PICK left \in SUBSET {"browser", "profile"} : left = next.gaveUp \cup {"browser"}
        BY DEF TakeRecords
      <4>2. take' = [next EXCEPT !.gaveUp = left]
        BY <3>2, <4>1
      <4> QED
        BY <3>2, <4>1, <4>2 DEF TakeRecords
    <3> QED
      BY <2>g, <3>1, <3>2 DEF Stops
  <2>8. CASE BuildFails
    <3>1. PICK next : next = [take EXCEPT !.pc = "unwinding", !.out = "failed"]
      OBVIOUS
    <3>2. next \in TakeRecords /\ next.pc = "unwinding" /\ next.built = take.built /\ next.gaveUp = take.gaveUp
      BY <2>0, <2>s, <2>e, <3>1 DEF TakeRecords
    <3>3. take.pc = "building" /\ UNCHANGED <<conveyor, closing, folder, reader>>
      BY <2>8 DEF BuildFails
    <3>4. CASE take.built = 2 /\ chrome = "running" /\ Stops(next)
      BY <2>g, <3>2, <3>3, <3>4
    <3>5. CASE ~(take.built = 2 /\ chrome = "running") /\ take' = next /\ UNCHANGED chrome
      BY <3>2, <3>3, <3>5
    <3> QED
      BY <2>8, <3>1, <3>4, <3>5 DEF BuildFails, GivesUp
  <2>9. CASE CallSends
    <3>1. PICK pc \in {"navigating", "titling", "shooting"} : take' = [take EXCEPT !.pc = pc]
      BY <2>9 DEF CallSends, Turns
    <3>2. take' \in TakeRecords /\ take'.pc = pc /\ take'.built = take.built /\ take'.gaveUp = take.gaveUp
      BY <2>0, <2>s, <3>1, TakeTurns
    <3> QED
      BY <2>9, <3>2, DrivingKeeps DEF CallSends
  <2>10. CASE CallFails
    <3>1. PICK pc \in {"titled", "hangup", "unwinding"}, why \in TakeEnds :
            take' = [take EXCEPT !.pc = pc] \/ take' = [take EXCEPT !.pc = pc, !.out = why]
      BY <2>10, <2>e DEF CallFails, Turns, GivesUp
    <3>2. take' \in TakeRecords /\ take'.pc = pc /\ take'.built = take.built /\ take'.gaveUp = take.gaveUp
      <4>1. CASE take' = [take EXCEPT !.pc = pc]
        BY <2>0, <2>s, <4>1, TakeTurns
      <4>2. CASE take' = [take EXCEPT !.pc = pc, !.out = why]
        BY <2>0, <2>s, <4>2 DEF TakeRecords
      <4> QED
        BY <3>1, <4>1, <4>2
    <3>3. take.built = 4 /\ UNCHANGED <<conveyor, closing, chrome, folder, reader>>
      BY <2>10 DEF CallFails, InCall
    <3> QED
      BY <3>2, <3>3, DrivingKeeps
  <2>11. CASE CallRefused
    <3>1. PICK pc \in {"titled", "unwinding"}, why \in TakeEnds :
            take' = [take EXCEPT !.pc = pc] \/ take' = [take EXCEPT !.pc = pc, !.out = why]
      BY <2>11, <2>e DEF CallRefused, Turns, GivesUp
    <3>2. take' \in TakeRecords /\ take'.pc = pc /\ take'.built = take.built /\ take'.gaveUp = take.gaveUp
      <4>1. CASE take' = [take EXCEPT !.pc = pc]
        BY <2>0, <2>s, <4>1, TakeTurns
      <4>2. CASE take' = [take EXCEPT !.pc = pc, !.out = why]
        BY <2>0, <2>s, <4>2 DEF TakeRecords
      <4> QED
        BY <3>1, <4>1, <4>2
    <3> QED
      BY <2>11, <3>2, DrivingKeeps DEF CallRefused
  <2>12. CASE WaitSettled
    <3>1. take' \in TakeRecords /\ take'.pc = "settled" /\ take'.built = take.built /\ take'.gaveUp = take.gaveUp
      <4>1. CASE take' = [take EXCEPT !.pc = "settled"]
        BY <2>0, <2>s, <4>1, TakeTurns
      <4>2. CASE take' = [take EXCEPT !.pc = "settled", !.settled = TRUE]
        BY <2>0, <2>s, <4>2 DEF TakeRecords
      <4> QED
        BY <2>12, <4>1, <4>2 DEF WaitSettled, Turns
    <3> QED
      BY <2>12, <3>1, DrivingKeeps DEF WaitSettled
  <2>13. CASE UnwindBye
    <3>1. take' \in TakeRecords /\ take'.pc = "bye" /\ take'.built = take.built /\ take'.gaveUp = take.gaveUp
      BY <2>0, <2>s, <2>13, TakeTurns DEF UnwindBye, Turns
    <3> QED
      BY <2>13, <3>1, DrivingKeeps DEF UnwindBye
  <2>14. CASE UnwindHangUp
    <3>1. take' \in TakeRecords /\ take'.pc = "unwinding" /\ take'.built = 3 /\ take'.gaveUp = take.gaveUp
      <4>1. PICK pc \in TakeStages, b \in 0..4 : pc = "unwinding" /\ b = 3
        BY <2>s
      <4>2. take' = [take EXCEPT !.pc = pc, !.built = b] \/ take' = [take EXCEPT !.built = b, !.pc = pc]
        BY <2>14, <4>1 DEF UnwindHangUp
      <4> QED
        BY <2>0, <4>1, <4>2, TakeMoves
    <3>2. take.pc = "hangup" /\ reader' = "done" /\ UNCHANGED <<conveyor, closing, chrome, folder>>
      BY <2>14 DEF UnwindHangUp
    <3> QED
      BY <3>1, <3>2
  <2>d. ASSUME NEW b \in 0..4, take' = [take EXCEPT !.built = b] PROVE take' \in TakeRecords /\ take'.pc = take.pc /\ take'.built = b
    BY <2>0, <2>d DEF TakeRecords
  <2>15. CASE UnwindBrowser
    <3>1. PICK next : next = [take EXCEPT !.built = 2]
      OBVIOUS
    <3>2. next \in TakeRecords /\ next.pc = take.pc /\ next.built = 2 /\ next.gaveUp = take.gaveUp
      BY <2>d, <2>0, <3>1 DEF TakeRecords
    <3>3. take.pc = "unwinding" /\ take.built = 3 /\ Stops(next) /\ UNCHANGED <<conveyor, closing, folder, reader>>
      BY <2>15, <3>1 DEF UnwindBrowser
    <3> QED
      BY <2>g, <3>2, <3>3
  <2>16. CASE UnwindProfile
    <3>1. take.pc = "unwinding" /\ take.built = 2 /\ UNCHANGED <<conveyor, closing, chrome, reader>>
      BY <2>16 DEF UnwindProfile
    <3>2. CASE folder' = FALSE /\ take' = [take EXCEPT !.built = 1]
      <4>1. take' \in TakeRecords /\ take'.pc = take.pc /\ take'.built = 1 /\ take'.gaveUp = take.gaveUp
        BY <2>d, <2>0, <3>2 DEF TakeRecords
      <4>2. ~folder' /\ folder' \in BOOLEAN
        BY <3>2
      <4> QED
        BY <3>1, <4>1, <4>2
    <3>3. CASE UNCHANGED folder /\ take' = [take EXCEPT !.built = 1, !.gaveUp = @ \cup {"profile"}]
      <4>1. PICK left \in SUBSET {"browser", "profile"} : left = take.gaveUp \cup {"profile"}
        BY <2>0 DEF TakeRecords
      <4>2. take' = [pc |-> take.pc, built |-> 1, tries |-> take.tries, late |-> take.late, out |-> take.out,
                     settled |-> take.settled, gaveUp |-> left]
        BY <2>0, <3>3, <4>1 DEF TakeRecords
      <4>3. take' \in TakeRecords /\ take'.pc = take.pc /\ take'.built = 1 /\ take'.gaveUp = left
        BY <2>0, <4>1, <4>2 DEF TakeRecords
      <4> QED
        BY <3>1, <3>3, <4>1, <4>3
    <3> QED
      BY <2>16, <3>2, <3>3 DEF UnwindProfile
  <2>17. CASE UnwindProxy
    BY <2>17 DEF UnwindProxy
  <2>18. CASE TakeReturns
    <3>1. take' \in TakeRecords /\ take'.pc = "returned" /\ take'.built = 0 /\ take'.gaveUp = take.gaveUp
      <4>1. PICK pc \in TakeStages, b \in 0..4 : pc = "returned" /\ b = 0
        BY <2>s
      <4>2. take' = [take EXCEPT !.pc = pc, !.built = b] \/ take' = [take EXCEPT !.built = b, !.pc = pc]
        BY <2>18, <4>1 DEF TakeReturns
      <4> QED
        BY <2>0, <4>1, <4>2, TakeMoves
    <3> QED
      BY <2>18, <3>1 DEF TakeReturns
  <2>19. CASE ReplyArrives
    <3>1. take.built = 4 /\ reader' \in {"navigating", "titling", "shooting", "bye"} /\ UNCHANGED <<take, conveyor, closing, chrome, folder>>
      BY <2>19 DEF ReplyArrives, InCall
    <3> QED
      BY <2>0, <3>1, DrivingKeeps
  <2>20. CASE Reply
    <3>1. reader' = "reading" /\ take.built = 4 /\ UNCHANGED <<conveyor, closing, chrome, folder>>
      BY <2>20 DEF Reply, Delivering
    <3>2. CASE take' = take
      BY <2>0, <3>1, <3>2, DrivingKeeps
    <3>3. CASE \E pc \in {"settling", "titled", "hangup"} : take' = [take EXCEPT !.pc = pc]
      <4>1. take' \in TakeRecords /\ take'.pc \in {"settling", "titled", "hangup"} /\ take'.built = take.built /\ take'.gaveUp = take.gaveUp
        BY <2>0, <2>s, <3>3, TakeTurns
      <4> QED
        BY <3>1, <4>1, DrivingKeeps
    <3>4. CASE \E why \in {"failed", "picture", "toolarge"} : take' = [take EXCEPT !.pc = "unwinding", !.out = why]
      <4>0. PICK why \in TakeEnds : take' = [take EXCEPT !.pc = "unwinding", !.out = why]
        BY <2>e, <3>4
      <4>1. take' \in TakeRecords /\ take'.pc = "unwinding" /\ take'.built = take.built /\ take'.gaveUp = take.gaveUp
        BY <2>0, <2>s, <4>0 DEF TakeRecords
      <4> QED
        BY <3>1, <4>1, DrivingKeeps
    <3>5. CASE take' = [take EXCEPT !.pc = "titled", !.tries = @ + 1]
      <4>1. take.tries + 1 \in Nat
        BY <2>0 DEF TakeRecords
      <4>2. take' \in TakeRecords /\ take'.pc = "titled" /\ take'.built = take.built /\ take'.gaveUp = take.gaveUp
        BY <2>0, <2>s, <3>5, <4>1 DEF TakeRecords
      <4> QED
        BY <3>1, <4>2, DrivingKeeps
    <3>6. Answers
      BY <2>20 DEF Reply
    <3>7. CASE take.pc # reader
      <4>1. UNCHANGED take
        BY <3>6, <3>7 DEF Answers
      <4> QED
        BY <3>2, <4>1
    <3>8. CASE take.pc = reader /\ take.pc \in {"navigating", "titling", "bye"}
      BY <3>3, <3>4, <3>6, <3>8 DEF Answers, Turns, GivesUp
    <3>9. CASE take.pc = reader /\ take.pc = "shooting"
      <4>1. take' \in {Shot, Smaller} \/ GivesUp("failed")
        BY <3>6, <3>9 DEF Answers
      <4> QED
        BY <3>4, <3>5, <4>1 DEF Shot, Smaller, GivesUp
    <3> QED
      BY <2>20, <3>7, <3>8, <3>9 DEF Reply, Delivering
  <2>21. CASE PageEvent \/ PageQuiet
    <3>1. UNCHANGED <<take, conveyor, closing, chrome, folder, reader>>
      BY <2>21 DEF PageEvent, PageQuiet
    <3> QED
      BY <3>1
  <2>22. CASE BrowserDies
    BY <2>22 DEF BrowserDies
  <2>23. CASE ReaderEnds
    BY <2>23 DEF ReaderEnds
  <2>24. CASE Deadline
    <3>1. take' \in TakeRecords /\ take'.pc = take.pc /\ take'.built = take.built /\ take'.gaveUp = take.gaveUp
      BY <2>0, <2>24 DEF Deadline, TakeRecords
    <3> QED
      BY <2>24, <3>1, DrivingKeeps DEF Deadline
  <2>25. ASSUME NEW c \in Conveyors, Hijacks(c) PROVE SnapshotInv'
    BY <2>25 DEF Hijacks
  <2>26. ASSUME NEW c \in Conveyors, Counts(c) PROVE SnapshotInv'
    BY <2>26 DEF Counts, Track
  <2>27. ASSUME NEW c \in Conveyors, RelayEnds(c) PROVE SnapshotInv'
    BY <2>27 DEF RelayEnds
  <2>28. ASSUME NEW c \in Conveyors, NEW p \in Ports, NEW use \in {"dialled", "serving"}, ProxyDials(c, p, use)
         PROVE  SnapshotInv'
    BY <2>28 DEF ProxyDials, ProxyServes
  <2>31. ASSUME NEW c \in Conveyors, ServeEnds(c) PROVE SnapshotInv'
    BY <2>31 DEF ServeEnds
  <2>32. ASSUME NEW c \in Conveyors, ServesAgain(c) PROVE SnapshotInv'
    BY <2>32 DEF ServesAgain, ProxyServes
  <2>29. ASSUME NEW p \in Ports, PortChanges(p) PROVE SnapshotInv'
    BY <2>29 DEF PortChanges
  <2>30. CASE UNCHANGED snapshotVars
    BY <2>30 DEF snapshotVars
  <2> HIDE DEF SnapshotInv
  <2> QED
    BY <2>1, <2>2, <2>3, <2>4, <2>5, <2>6, <2>7, <2>8, <2>9, <2>10, <2>11, <2>12, <2>13, <2>14, <2>15, <2>16, <2>17, <2>18, <2>19,
       <2>20, <2>21, <2>22, <2>23, <2>24, <2>25, <2>26, <2>27, <2>28, <2>29, <2>30, <2>31, <2>32 DEF SnapshotNext, TakeSteps
<1>3. SnapshotInv => NothingOutlivesThePicture
  BY DEF SnapshotInv, SnapshotTypeOK, LadderHolds, ServedIsClosed, NothingOutlivesThePicture
<1> QED
  BY <1>1, <1>2, <1>3, PTL DEF SnapshotSpec

=============================================================================
