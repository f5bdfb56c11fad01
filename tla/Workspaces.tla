----------------------------- MODULE Workspaces -----------------------------
(***************************************************************************)
(* The registered folders (workspace/manager.go over store/workspace.go)   *)
(* and the file that names the current one, as the desktop's requests      *)
(* change them.                                                            *)
(*                                                                         *)
(* Manager's lock guards the state file only.  A change of a row reads the *)
(* whole row, changes one field and writes the whole row back.             *)
(***************************************************************************)

CONSTANTS
  Folders,      \* directories that may be registered
  Workspaces,   \* bound: ids that can be given out
  Asking,       \* requests of the control API
  NoWorkspace

ASSUME WorkspacesAssumption == NoWorkspace \notin Workspaces \cup Asking

VARIABLES
  rows,         \* the workspaces table
  state,        \* state.json: [id, whole]
  temp,         \* state.json.tmp: [id, whole]
  locked,       \* who holds Manager.mu
  asking        \* the requests under way

workspacesVars == <<rows, state, temp, locked, asking>>

NotRegistered == [status |-> "none", network |-> "allow", root |-> NoWorkspace]
NotAsking == [pc |-> "idle", op |-> "none", id |-> NoWorkspace, rec |-> NotRegistered]
Nobody == NoWorkspace

WorkspacesInit ==
  /\ \E w \in Workspaces, f \in Folders :
       rows = [v \in Workspaces |-> IF v = w THEN [status |-> "active", network |-> "allow", root |-> f] ELSE NotRegistered]
  /\ state = [id |-> NoWorkspace, whole |-> TRUE] /\ temp = [id |-> NoWorkspace, whole |-> FALSE]
  /\ locked = Nobody
  /\ asking = [a \in Asking |-> NotAsking]

AskingGoes(a, r) == asking' = [asking EXCEPT ![a] = r]

----------------------------------------------------------------------------
(* Add.                                                                    *)

\* The root is not a registered one ...
AddLists(a, f) ==
  /\ asking[a].pc = "idle"
  /\ ~\E w \in Workspaces : rows[w].root = f /\ rows[w].status # "revoked"
  /\ AskingGoes(a, [NotAsking EXCEPT !.pc = "create", !.rec = [status |-> "active", network |-> "allow", root |-> f]])
  /\ UNCHANGED <<rows, state, temp, locked>>

\* ... and gets a row of its own.
CreateWorkspace(a, w) ==
  /\ asking[a].pc = "create" /\ rows[w] = NotRegistered
  /\ rows' = [rows EXCEPT ![w] = asking[a].rec]
  /\ AskingGoes(a, NotAsking)
  /\ UNCHANGED <<state, temp, locked>>

----------------------------------------------------------------------------
(* Pause, Resume, Revoke, SetNetwork, SetCurrent.                          *)

\* What an operation makes of the row it has read; none when it refuses.
Changed(op, rec) ==
  CASE op = "pause" -> IF rec.status = "active" THEN {[rec EXCEPT !.status = "paused"]} ELSE {}
    [] op = "resume" -> IF rec.status = "paused" THEN {[rec EXCEPT !.status = "active"]} ELSE {}
    [] op = "revoke" -> {[rec EXCEPT !.status = "revoked"]}
    [] op = "network" -> IF rec.status # "revoked" THEN {[rec EXCEPT !.network = n] : n \in {"allow", "deny"}} ELSE {}
    [] op = "current" -> IF rec.status # "revoked" THEN {rec} ELSE {}

GetWorkspace(a, op, w) ==
  /\ asking[a].pc = "idle" /\ rows[w] # NotRegistered
  /\ \E rec \in Changed(op, rows[w]) :
       AskingGoes(a, [pc |-> IF op = "current" THEN "lock" ELSE "update", op |-> op, id |-> w, rec |-> rec])
  /\ UNCHANGED <<rows, state, temp, locked>>

\* UpdateWorkspace replaces the whole row.
UpdateWorkspace(a) ==
  /\ asking[a].pc = "update"
  /\ rows' = [rows EXCEPT ![asking[a].id] = asking[a].rec]
  /\ IF asking[a].op = "revoke" THEN asking' = [asking EXCEPT ![a].pc = "lock"] ELSE AskingGoes(a, NotAsking)
  /\ UNCHANGED <<state, temp, locked>>

\* The state file, under the lock: revoking reads it first, and leaves another
\* selection alone.
LockState(a) ==
  /\ asking[a].pc = "lock" /\ locked = Nobody
  /\ IF asking[a].op = "revoke" /\ state.id # asking[a].id
     THEN AskingGoes(a, NotAsking) /\ UNCHANGED locked
     ELSE asking' = [asking EXCEPT ![a].pc = "open"] /\ locked' = a
  /\ UNCHANGED <<rows, state, temp>>

Selects(a) == IF asking[a].op = "revoke" THEN NoWorkspace ELSE asking[a].id

\* The file itself, opened empty.
OpensInPlace(a) == temp' = temp /\ state' = [id |-> Selects(a), whole |-> FALSE]

\* writeState: a temporary file, opened empty, ...
OpensTemp(a) == temp' = [id |-> Selects(a), whole |-> FALSE] /\ state' = state

WriteOpens(a) ==
  /\ asking[a].pc = "open"
  /\ OpensTemp(a)
  /\ asking' = [asking EXCEPT ![a].pc = "fill"]
  /\ UNCHANGED <<rows, locked>>

\* ... filled, ...
WriteFills(a) ==
  /\ asking[a].pc = "fill"
  /\ temp' = [temp EXCEPT !.whole = TRUE]
  /\ asking' = [asking EXCEPT ![a].pc = "rename"]
  /\ UNCHANGED <<rows, state, locked>>

\* ... and renamed over the old one.
WriteRenames(a) ==
  /\ asking[a].pc = "rename"
  /\ state' = temp /\ temp' = [id |-> NoWorkspace, whole |-> FALSE]
  /\ locked' = Nobody /\ AskingGoes(a, NotAsking)
  /\ UNCHANGED <<rows>>

\* The Core dies and comes back.
CoreCrashes ==
  /\ asking' = [a \in Asking |-> NotAsking] /\ locked' = Nobody
  /\ UNCHANGED <<rows, state, temp>>

Operations == {"pause", "resume", "revoke", "network", "current"}

WorkspacesNext ==
  \/ \E a \in Asking : \/ \E f \in Folders : AddLists(a, f)
                       \/ \E w \in Workspaces : CreateWorkspace(a, w) \/ \E op \in Operations : GetWorkspace(a, op, w)
                       \/ UpdateWorkspace(a) \/ LockState(a) \/ WriteOpens(a) \/ WriteFills(a) \/ WriteRenames(a)
  \/ CoreCrashes

WorkspacesSpec == WorkspacesInit /\ [][WorkspacesNext]_workspacesVars

----------------------------------------------------------------------------
\* "So a crash can never leave a truncated state file": whenever the Core dies the
\* file that names the current folder is whole, and it names one that was registered.
SelectionIsWhole ==
  state.whole /\ (state.id # NoWorkspace => rows[state.id] # NotRegistered)

=============================================================================
