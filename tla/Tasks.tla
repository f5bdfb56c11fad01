------------------------------- MODULE Tasks -------------------------------
(***************************************************************************)
(* Commands and delegated agents that outlive the call that started them:  *)
(* companion/internal/tasks (the task table), cmdexec.Runner.Run (the      *)
(* process and its two journal rows), store/exec.go (the append-only       *)
(* journal) and app.reconcileRuns (what startup makes of the last life).   *)
(*                                                                         *)
(* A run is a task with its goroutine.  Each critical section of           *)
(* Manager.mu, each journal row and each read of the task's context is a   *)
(* step; cancellation, purging, shutdown and crashes fall between them.    *)
(***************************************************************************)
EXTENDS Naturals, Sequences, FiniteSets

CONSTANTS
  Runs,        \* task ids; each is drawn once (newID is random)
  Keys,        \* idempotency keys: who asked for what, and where
  Delegations, \* the keys of code_task, whose runs keep no journal
  MaxTasks,    \* how many tasks the table holds before it forgets some
  MaxCrashes,  \* how often the Core may die
  Faults,      \* {"store"} when journal writes may fail
  None

ASSUME TasksAssumption ==
  /\ IsFiniteSet(Runs)
  /\ Delegations \subseteq Keys
  /\ MaxTasks \in Nat /\ MaxCrashes \in Nat
  /\ None \notin Runs

VARIABLES
  core,     \* the life of the process and of Manager.Close in it
  orphans,  \* what reconcileRuns still has to answer
  job,      \* every run: its task, its goroutine and its context
  table,    \* Manager.tasks
  byKey,    \* Manager.byKey
  journal,  \* exec_events, by run_id
  lost,     \* history: the runs one of whose rows could not be written
  crashes   \* history: how often the Core died

vars == <<core, orphans, job, table, byKey, journal, lost, crashes>>

Ended == {"succeeded", "failed", "timed_out", "canceled"}
Outcomes == {"ok", "failed", "timeout", "canceled", "refused", "interrupted"}

\* A run.  out is what the work returned, stop is the task context's Err, seq
\* the order of arrival.
Job == [pc : {"new", "acquired", "launched", "started", "up", "exited",
              "reported", "over", "gone"},
        key : Keys \cup {None}, seq : Nat,
        state : {"none", "running"} \cup Ended,
        out : {"none", "zero", "nonzero", "timeout", "error"},
        stop : {"no", "cancel", "deadline"}]

New == [pc |-> "new", key |-> None, seq |-> 0, state |-> "none", out |-> "none", stop |-> "no"]

TasksTypeOK ==
  /\ core \in {"down", "boot", "open", "closed", "waiting", "shut", "abandoned"}
  /\ orphans \subseteq Runs
  /\ job \in [Runs -> Job]
  /\ table \subseteq Runs
  /\ byKey \in [Keys -> Runs \cup {None}]
  /\ journal \in [Runs -> Seq(Outcomes \cup {"started"})]
  /\ lost \subseteq Runs
  /\ crashes \in Nat

Init ==
  /\ core = "down"
  /\ orphans = {}
  /\ job = [r \in Runs |-> New]
  /\ table = {}
  /\ byKey = [k \in Keys |-> None]
  /\ journal = [r \in Runs |-> <<>>]
  /\ lost = {}
  /\ crashes = 0

Alive == core \notin {"down", "boot"}
Terminal(r) == job[r].state \in Ended
IsAgent(r) == job[r].key \in Delegations

----------------------------------------------------------------------------
\* The task table.

\* The keys as a forgetting leaves them that takes a task's key away whoever
\* holds it by now.
KeysLeftLoosely(gone) ==
  [k \in Keys |-> IF \E r \in gone : job[r].key = k THEN None ELSE byKey[k]]

\* forgetLocked: the key goes with the task only if it is still the task's.
KeysLeft(gone) == [k \in Keys |-> IF byKey[k] \in gone THEN None ELSE byKey[k]]

Forget(gone) ==
  /\ table' = table \ gone
  /\ byKey' = KeysLeft(gone)

\* A trim that takes the oldest, running or not.
TrimAnything(left) ==
  {r \in left : Cardinality(left) - Cardinality({q \in left : job[q].seq < job[r].seq}) > MaxTasks}

\* The second half of purgeLocked: of the tasks left, the oldest finished
\* ones, until the table is down to its cap.
Trimmed(left) ==
  LET finished == {r \in left : Terminal(r)}
      older(r) == {q \in finished : job[q].seq < job[r].seq}
  IN {r \in finished : Cardinality(left) - Cardinality(older(r)) > MaxTasks}

\* purgeLocked; old are the finished tasks that are past retention by now.
Purged(old) == old \cup Trimmed(table \ old)
PastRetention == SUBSET {r \in table : Terminal(r)}

\* The task acquire makes.
Fresh(k) ==
  [pc |-> "acquired", key |-> k, seq |-> Cardinality({q \in Runs : job[q].pc # "new"}),
   state |-> "running", out |-> "none", stop |-> "no"]

\* acquire after purgeLocked: the key's task if it is still running, else a
\* new one, which takes the key.
Acquire(r, k, old) ==
  LET gone == Purged(old)
      holder == KeysLeft(gone)[k]
  IN /\ core = "open" /\ job[r].pc = "new"
     /\ IF holder \in table \ gone /\ ~ Terminal(holder)
        THEN Forget(gone) /\ UNCHANGED job
        ELSE /\ table' = (table \ gone) \cup {r}
             /\ byKey' = [KeysLeft(gone) EXCEPT ![k] = r]
             /\ job' = [job EXCEPT ![r] = Fresh(k)]
     /\ UNCHANGED <<core, orphans, journal, lost, crashes>>

\* Status and List.
Look(old) ==
  /\ Alive
  /\ Purged(old) # {}
  /\ Forget(Purged(old))
  /\ UNCHANGED <<core, orphans, job, journal, lost, crashes>>

Clear ==
  /\ Alive
  /\ \E r \in table : Terminal(r)
  /\ Forget({r \in table : Terminal(r)})
  /\ UNCHANGED <<core, orphans, job, journal, lost, crashes>>

\* A context keeps its first error.
Stopped(j, why) == [j EXCEPT !.stop = IF @ = "no" THEN why ELSE @]

Cancel(r) ==
  /\ Alive
  /\ r \in table /\ job[r].pc # "over"
  /\ job' = [job EXCEPT ![r] = Stopped(@, "cancel")]
  /\ UNCHANGED <<core, orphans, table, byKey, journal, lost, crashes>>

\* maxRuntime.  Only an agent can run into it: a command's own timeout is
\* clamped to a quarter of it.
Ceiling(r) ==
  /\ Alive
  /\ IsAgent(r) /\ job[r].pc \in {"acquired", "launched", "up", "exited"}
  /\ job' = [job EXCEPT ![r] = Stopped(@, "deadline")]
  /\ UNCHANGED <<core, orphans, table, byKey, journal, lost, crashes>>

----------------------------------------------------------------------------
\* A run's goroutine.

Steps(r, from) == Alive /\ job[r].pc = from
Goes(r, pc, out) == job' = [job EXCEPT ![r].pc = pc, ![r].out = out]

\* ExecAttempt.  A row that cannot be written (the store fails, or Close has
\* returned and the store is closed) is only logged.
ExecAttempt(r, outcome) ==
  \/ /\ journal' = [journal EXCEPT ![r] = Append(@, outcome)]
     /\ UNCHANGED lost
  \/ /\ "store" \in Faults \/ core \in {"shut", "abandoned"}
     /\ lost' = lost \cup {r}
     /\ UNCHANGED journal

\* launch, which the caller reaches after it has let go of Manager.mu.
Launch(r) ==
  /\ Steps(r, "acquired")
  /\ Goes(r, "launched", "none")
  /\ UNCHANGED <<core, orphans, table, byKey, journal, lost, crashes>>

\* prepare refuses: the row it leaves carries no run id.
PrepareFails(r) ==
  /\ Steps(r, "launched") /\ ~ IsAgent(r)
  /\ Goes(r, "reported", "error")
  /\ UNCHANGED <<core, orphans, table, byKey, journal, lost, crashes>>

JournalStarted(r) ==
  /\ Steps(r, "launched") /\ ~ IsAgent(r)
  /\ Goes(r, "started", "none")
  /\ ExecAttempt(r, "started")
  /\ UNCHANGED <<core, orphans, table, byKey, crashes>>

AtStart(r) == Steps(r, IF IsAgent(r) THEN "launched" ELSE "started")

\* os/exec starts nothing under a context that is over.
ProcessStarts(r) ==
  /\ AtStart(r)
  /\ job[r].stop = "no"
  /\ Goes(r, "up", "none")
  /\ UNCHANGED <<core, orphans, table, byKey, journal, lost, crashes>>

StartFails(r) ==
  /\ AtStart(r)
  /\ Goes(r, "exited", "error")
  /\ UNCHANGED <<core, orphans, table, byKey, journal, lost, crashes>>

\* The process is over: by itself, by its timeout, or killed with its context.
\* TimedOut is said only while the task's own context stands.
ProcessEnds(r, out) ==
  /\ Steps(r, "up")
  /\ out \in IF IsAgent(r) THEN {"zero", "error"} ELSE {"zero", "nonzero", "timeout"}
  /\ out = "timeout" => job[r].stop = "no"
  /\ Goes(r, "exited", out)
  /\ UNCHANGED <<core, orphans, table, byKey, journal, lost, crashes>>

\* An outcome that does not tell a timeout from a failure.
OutcomeWithoutTimeout(j) ==
  IF j.out = "error" THEN "refused"
  ELSE IF j.stop # "no" THEN "canceled"
  ELSE IF j.out = "zero" THEN "ok" ELSE "failed"

\* outcomeOf, and the row of a process that did not start.
OutcomeOf(j) ==
  IF j.out = "error" THEN "refused"
  ELSE IF j.out = "timeout" THEN "timeout"
  ELSE IF j.stop # "no" THEN "canceled"
  ELSE IF j.out = "zero" THEN "ok" ELSE "failed"

JournalEnded(r) ==
  /\ Steps(r, "exited") /\ ~ IsAgent(r)
  /\ Goes(r, "reported", job[r].out)
  /\ ExecAttempt(r, OutcomeOf(job[r]))
  /\ UNCHANGED <<core, orphans, table, byKey, crashes>>

\* A verdict by the exit code, whatever the row says.
FinalStateByCode(j) ==
  IF j.out = "zero" THEN "succeeded"
  ELSE IF j.out = "timeout" \/ j.stop = "deadline" THEN "timed_out"
  ELSE IF j.stop = "cancel" THEN "canceled" ELSE "failed"

\* finish: the context is read once more.
FinalState(j) ==
  IF j.out = "timeout" \/ j.stop = "deadline" THEN "timed_out"
  ELSE IF j.stop = "cancel" THEN "canceled"
  ELSE IF j.out = "zero" THEN "succeeded" ELSE "failed"

Finish(r) ==
  /\ Steps(r, IF IsAgent(r) THEN "exited" ELSE "reported")
  /\ job' = [job EXCEPT ![r].pc = "over", ![r].state = FinalState(job[r])]
  /\ UNCHANGED <<core, orphans, table, byKey, journal, lost, crashes>>

----------------------------------------------------------------------------
\* Close, the end of the process and the next start.

Close ==
  /\ core = "open"
  /\ core' = "closed"
  /\ UNCHANGED <<orphans, job, table, byKey, journal, lost, crashes>>

\* A Close that waits without having canceled anything.
CloseCancelsNothing ==
  /\ core = "closed"
  /\ core' = "waiting"
  /\ UNCHANGED <<orphans, job, table, byKey, journal, lost, crashes>>

\* m.cancel: the parent of every task's context.
CloseCancels ==
  /\ core = "closed"
  /\ core' = "waiting"
  /\ job' = [r \in Runs |-> IF job[r].pc \in {"new", "over", "gone"} THEN job[r]
                            ELSE Stopped(job[r], "cancel")]
  /\ UNCHANGED <<orphans, table, byKey, journal, lost, crashes>>

\* wg.Wait sees the goroutines that were launched by now.
InWaitGroup(r) == job[r].pc \in {"launched", "started", "up", "exited", "reported"}

CloseReturns ==
  /\ core = "waiting"
  /\ \A r \in Runs : ~ InWaitGroup(r)
  /\ core' = "shut"
  /\ UNCHANGED <<orphans, job, table, byKey, journal, lost, crashes>>

GraceExpires ==
  /\ core = "waiting"
  /\ \E r \in Runs : InWaitGroup(r)
  /\ core' = "abandoned"
  /\ UNCHANGED <<orphans, job, table, byKey, journal, lost, crashes>>

\* With the process goes everything but the journal.
Dies ==
  /\ core' = "down"
  /\ orphans' = {}
  /\ job' = [r \in Runs |-> IF job[r].pc = "new" THEN New ELSE [New EXCEPT !.pc = "gone"]]
  /\ table' = {}
  /\ byKey' = [k \in Keys |-> None]
  /\ UNCHANGED <<journal, lost>>

Exit ==
  /\ core \in {"shut", "abandoned"}
  /\ Dies
  /\ UNCHANGED crashes

Crash ==
  /\ core # "down"
  /\ crashes < MaxCrashes
  /\ crashes' = crashes + 1
  /\ Dies

Rows(r) == {journal[r][i] : i \in DOMAIN journal[r]}

\* OrphanedRuns without its NOT EXISTS.
EveryStartedRun == {r \in Runs : "started" \in Rows(r)}

OrphanedRuns == {r \in Runs : "started" \in Rows(r) /\ Rows(r) \cap Outcomes = {}}

\* A start that serves at once.
BootWithoutReconcile ==
  /\ core = "down"
  /\ core' = "open"
  /\ UNCHANGED <<orphans, job, table, byKey, journal, lost, crashes>>

\* reconcileRuns comes before anything else; looking may fail.
Boot ==
  /\ core = "down"
  /\ \/ core' = "boot" /\ orphans' = OrphanedRuns /\ UNCHANGED lost
     \/ /\ "store" \in Faults
        /\ core' = "open" /\ lost' = lost \cup OrphanedRuns /\ UNCHANGED orphans
  /\ UNCHANGED <<job, table, byKey, journal, crashes>>

\* One answer at a time; the first that cannot be written ends it.
Reconcile(r) ==
  /\ core = "boot" /\ r \in orphans
  /\ \/ /\ journal' = [journal EXCEPT ![r] = Append(@, "interrupted")]
        /\ orphans' = orphans \ {r}
        /\ UNCHANGED <<core, lost>>
     \/ /\ "store" \in Faults
        /\ core' = "open" /\ orphans' = {} /\ lost' = lost \cup orphans
        /\ UNCHANGED journal
  /\ UNCHANGED <<job, table, byKey, crashes>>

Serve ==
  /\ core = "boot" /\ orphans = {}
  /\ core' = "open"
  /\ UNCHANGED <<orphans, job, table, byKey, journal, lost, crashes>>

----------------------------------------------------------------------------
\* What a caller is told.

StateFromOutcome(o) ==
  CASE o = "ok" -> "succeeded" [] o = "timeout" -> "timed_out"
    [] o = "refused" -> "denied" [] o = "interrupted" -> "interrupted"
    [] OTHER -> "failed"

\* task_status: the table, then the journal.
Answer(r) ==
  IF ~ Alive THEN "unavailable"
  ELSE IF r \in table THEN job[r].state
  ELSE IF Rows(r) \cap Outcomes = {} THEN "unknown"
  ELSE StateFromOutcome(journal[r][Len(journal[r])])

----------------------------------------------------------------------------
RunStep(r) ==
  \/ Launch(r) \/ PrepareFails(r) \/ JournalStarted(r)
  \/ ProcessStarts(r) \/ StartFails(r)
  \/ \E out \in {"zero", "nonzero", "timeout", "error"} : ProcessEnds(r, out)
  \/ JournalEnded(r) \/ Finish(r)

ShutdownStep == CloseCancels \/ CloseReturns \/ GraceExpires \/ Exit

StartupStep == Boot \/ Serve \/ \E r \in Runs : Reconcile(r)

Next ==
  \/ \E r \in Runs, k \in Keys, old \in PastRetention : Acquire(r, k, old)
  \/ \E old \in PastRetention : Look(old)
  \/ Clear
  \/ \E r \in Runs : Cancel(r) \/ Ceiling(r)
  \/ \E r \in Runs : RunStep(r)
  \/ Close \/ ShutdownStep \/ Crash \/ StartupStep

Spec == Init /\ [][Next]_vars

----------------------------------------------------------------------------
\* What a caller sees of all this.

Says(r) == IF job[r].pc \in {"new", "gone"} THEN job[r].pc ELSE job[r].state

LastRow(rows) == IF rows = <<>> THEN "none" ELSE rows[Len(rows)]

Lives == INSTANCE RunLife WITH
  core <- IF Alive THEN "serving" ELSE "away",
  says <- [r \in Runs |-> Says(r)],
  keyOf <- [r \in Runs |-> job[r].key],
  row <- [r \in Runs |-> LastRow(journal[r])]

----------------------------------------------------------------------------
\* Properties.

\* However a platform resends its call, however the table is purged, cleared
\* and trimmed in between, one idempotency key has one task running at a time
\* (acquire: "two concurrent retries of the same call cannot both decide they
\* are first").
OneRunPerKey ==
  \A r, q \in Runs :
    job[r].state = "running" /\ job[q].state = "running" /\ job[r].key = job[q].key => r = q

\* A running task is in the table, where task_status finds it and Cancel can
\* stop it, also when the table is over its cap (purgeLocked: "forgetting one
\* would leave a process nothing can report on or cancel").
RunningIsListed ==
  \A r \in Runs : job[r].state = "running" => r \in table

\* A run ends at most once in the journal, over any number of crashes and
\* restarts, also when the process dies between two answers of reconcileRuns
\* (FindRun: "a run has at most one").
OneEnding ==
  \A r \in Runs :
    Cardinality({i \in DOMAIN journal[r] : journal[r][i] \in Outcomes}) <= 1

\* What task_status says of a run the table still holds is what it will read
\* from the journal later: for a run that was started, was left alone and
\* whose row was written.
OwnEndsAgree ==
  \A r \in Runs \ lost :
    /\ Terminal(r) /\ ~ IsAgent(r)
    /\ job[r].stop = "no" /\ job[r].out # "error"
    => StateFromOutcome(journal[r][Len(journal[r])]) = job[r].state

\* Once Close has returned because everything had stopped, no process of the
\* Core is up, not even one whose task was acquired before and launched after
\* ("it is what turns 'the Core exited' into 'the processes it started exited
\* too'").
NoProcessOutlivesClose == core = "shut" => \A r \in Runs : job[r].pc # "up"

\* A run that was stopped is never reported as one that failed, however late
\* task_status is asked ("reporting a shutdown as a failed build would send
\* the user looking for a bug that is not there").
StopsAreNotFailures ==
  [][\A r \in Runs : Answer(r) = "canceled" => Answer(r)' # "failed"]_vars

\* Every run the journal says was started gets an ending there, over crashes
\* and restarts, unless a row could not be written.
StartedRunsEnd ==
  \A r \in Runs :
    "started" \in Rows(r) ~> (Rows(r) \cap Outcomes # {} \/ r \in lost)

\* However contexts, rows, purges, shutdowns, crashes and restarts interleave, a run
\* lives the life RunLife gives it: it is the only one of its call while it runs, what
\* is said of its end agrees with its row, and it is given an end from outside only
\* when its Core is gone and it has none.
RunsLiveOnce == Lives!LifeSpec
=============================================================================
