------------------------------- MODULE MCLive -------------------------------
(***************************************************************************)
(* What must end, for TLC: background tasks over crashes and restarts, and *)
(* pictures of a page.  They share no variable, so each is explored alone: *)
(* scene says which.                                                       *)
(***************************************************************************)
EXTENDS Tasks, Snapshot

VARIABLE scene

liveVars == <<vars, snapshotVars, scene>>

InTasks(A) == scene = "tasks" /\ A /\ UNCHANGED <<snapshotVars, scene>>
InSnapshot(A) == scene = "snapshot" /\ A /\ UNCHANGED <<vars, scene>>

LiveInit ==
  /\ Init /\ SnapshotInit
  /\ scene \in {"tasks", "snapshot"}
  /\ scene # "snapshot" => \A p \in Ports : holder[p]

LiveNext ==
  /\ UNCHANGED scene
  /\ \/ scene = "tasks" /\ Next /\ UNCHANGED snapshotVars
     \/ scene = "snapshot" /\ SnapshotNext /\ UNCHANGED vars

\* Goroutines run; a process ends, for its timeout kills it; a shutdown goes on (wg.Wait
\* has a grace); a Core that is down is started again.  Take goes on, a deadline is a
\* timer, a tunnel of a stopped proxy is closed.  Nothing is assumed of the browser, the
\* page or the user's other processes.
LiveFairness ==
  /\ \A r \in Runs : WF_liveVars(InTasks(RunStep(r)))
  /\ WF_liveVars(InTasks(ShutdownStep))
  /\ WF_liveVars(InTasks(StartupStep))
  /\ WF_liveVars(InSnapshot(TakeSteps)) /\ WF_liveVars(InSnapshot(Reply))
  /\ WF_liveVars(InSnapshot(ReaderEnds)) /\ WF_liveVars(InSnapshot(Deadline))
  /\ \A c \in Conveyors : WF_liveVars(InSnapshot(closing /\ RelayEnds(c)))

LiveSpec == LiveInit /\ [][LiveNext]_liveVars /\ LiveFairness
=============================================================================
