------------------------------- MODULE Shell --------------------------------
\* The desktop window that brings the Core up (desktop/app.go), the single-instance
\* lock a Core takes on its data directory (app/lock.go), the order in which app.Run
\* opens and closes what the lock guards, and the control file by which a window
\* finds the Core (ctlapi.Start).  A Core is one process; it leaves on a signal, on a
\* change of connection mode, on a failure, or by crashing.
EXTENDS Naturals, Sequences, FiniteSets, TLC

CONSTANTS Cores,      \* processes that a window may spawn
          Windows,    \* desktop shells, open at the same time
          MaxTries,   \* presses of the retry button per window, the launch included
          NoCore

ASSUME ShellAssumption == NoCore \notin Cores /\ MaxTries \in Nat

VARIABLES process,   \* Core -> how far app.Run and main have come
          signalled, \* Cores whose context has been cancelled
          api,       \* Core -> its control server: "off", "up", "closed", "removed"
          toClose,   \* Core -> what Run has open and deferred to close, oldest first
          lock,      \* holder of companion.lock
          control,   \* the Core that control.json names
          window     \* Window -> where its StartCore stands

shellVars == <<process, signalled, api, toClose, lock, control, window>>

Ready == [at |-> "ready", round |-> "launch", saw |-> NoCore, tries |-> 0]

ShellInit ==
  /\ process = [c \in Cores |-> "none"]
  /\ signalled = {}
  /\ api = [c \in Cores |-> "off"]
  /\ toClose = [c \in Cores |-> <<>>]
  /\ lock = NoCore
  /\ control = NoCore
  /\ window = [w \in Windows |-> Ready]

IsAlive(c) == process[c] \notin {"none", "gone"}

-----------------------------------------------------------------------------
\* One Core.

Moves(c, to) == process' = [process EXCEPT ![c] = to]

\* acquireInstanceLock: fails at once when the lock is held elsewhere.
acquireInstanceLock(c) ==
  /\ process[c] = "starts"
  /\ IF lock = NoCore THEN lock' = c /\ Moves(c, "locked")
                      ELSE lock' = lock /\ Moves(c, "left")
  /\ UNCHANGED <<signalled, api, toClose, control, window>>

Opens(c, s) == toClose' = [toClose EXCEPT ![c] = @ \o s]

\* Run returns early: what it has opened so far is closed on the way out.
Fails(c, s) == Moves(c, "leaving") /\ Opens(c, s)

OpenStore(c) ==
  /\ process[c] = "locked"
  /\ \/ Moves(c, "opened") /\ Opens(c, <<"store">>)
     \/ Fails(c, <<>>)
  /\ UNCHANGED <<signalled, api, lock, control, window>>

\* The runs an earlier Core left open are reconciled; then the folders, the
\* approvals and the language servers, any of which may refuse to start.
StartNavigators(c) ==
  /\ process[c] = "opened"
  /\ \/ Moves(c, "navigating") /\ Opens(c, <<"navigators">>)
     \/ Fails(c, <<>>)
  /\ UNCHANGED <<signalled, api, lock, control, window>>

\* Recover fails before there are tasks; the settings the gate, the agents, the
\* providers, the pictures and the other computers are read from fail after.
StartTasks(c) ==
  /\ process[c] = "navigating"
  /\ \/ Moves(c, "working") /\ Opens(c, <<"tasks">>)
     \/ Fails(c, <<>>)
     \/ Fails(c, <<"tasks">>)
  /\ UNCHANGED <<signalled, api, lock, control, window>>

\* Behind a relay, or alone, nothing is left to close; the relay's token may be
\* missing.  In direct mode the authorization server opens or Run fails, and a tunnel
\* that does not start is no reason to stop.
GoPublic(c) ==
  /\ process[c] = "working"
  /\ \/ \E s \in {<<>>, <<"direct">>, <<"direct", "tunnel">>} : Moves(c, "published") /\ Opens(c, s)
     \/ Fails(c, <<>>)
  /\ UNCHANGED <<signalled, api, lock, control, window>>

\* A taken port, or a control file that cannot be written, ends Run.  Start writes the
\* file over any other.
StartControl(c) ==
  /\ process[c] = "published"
  /\ \/ Moves(c, "serving") /\ control' = c /\ api' = [api EXCEPT ![c] = "up"]
     \/ Moves(c, "leaving") /\ UNCHANGED <<control, api>>
  /\ UNCHANGED <<signalled, toClose, lock, window>>

Signal(c) ==
  /\ IsAlive(c) /\ c \notin signalled
  /\ signalled' = signalled \cup {c}
  /\ UNCHANGED <<process, api, toClose, lock, control, window>>

\* The public port is taken, or the select at the end of Run: a signal, a mode switch
\* or a server that failed.  Only the signal cancels the context the control server
\* waits on.
RunEnds(c) ==
  /\ process[c] = "serving"
  /\ Moves(c, "leaving")
  /\ UNCHANGED <<signalled, api, toClose, lock, control, window>>

\* Run's deferred calls come in the reverse of the order they were deferred in, the
\* database the last but one, the lock the last.
CloseLast(c) ==
  /\ process[c] = "leaving" /\ toClose[c] # <<>>
  /\ toClose' = [toClose EXCEPT ![c] = SubSeq(@, 1, Len(@) - 1)]
  /\ UNCHANGED <<process, signalled, api, lock, control, window>>

\* The lock deferred after the store, and so dropped before it.
ReleaseFirst(c) ==
  /\ process[c] = "leaving" /\ lock = c
  /\ lock' = NoCore
  /\ UNCHANGED <<process, signalled, api, toClose, control, window>>

release(c) ==
  /\ process[c] = "leaving" /\ toClose[c] = <<>>
  /\ lock' = NoCore /\ Moves(c, "left")
  /\ UNCHANGED <<signalled, api, toClose, control, window>>

\* serve's own deferred stop cancels the context, then main returns.
Unwind(c) ==
  /\ process[c] = "left"
  /\ Moves(c, "ends") /\ signalled' = signalled \cup {c}
  /\ UNCHANGED <<api, toClose, lock, control, window>>

\* The process is gone, its lock with it; the control file stays.
Exit(c) ==
  /\ IsAlive(c)
  /\ Moves(c, "gone")
  /\ toClose' = [toClose EXCEPT ![c] = <<>>]
  /\ lock' = IF lock = c THEN NoCore ELSE lock
  /\ UNCHANGED <<signalled, api, control, window>>

\* The goroutine Start leaves behind: Run does not wait for it.
Shutdown(c) ==
  /\ IsAlive(c) /\ c \in signalled
  /\ \/ api[c] = "up" /\ api' = [api EXCEPT ![c] = "closed"] /\ control' = control
     \/ api[c] = "closed" /\ api' = [api EXCEPT ![c] = "removed"] /\ control' = NoCore
  /\ UNCHANGED <<process, signalled, toClose, lock, window>>

Process(c) ==
  \/ acquireInstanceLock(c) \/ OpenStore(c) \/ StartNavigators(c) \/ StartTasks(c) \/ GoPublic(c)
  \/ StartControl(c) \/ Signal(c) \/ RunEnds(c) \/ CloseLast(c) \/ release(c) \/ Unwind(c) \/ Exit(c) \/ Shutdown(c)

-----------------------------------------------------------------------------
\* One window.

\* launchCore at start-up, StartCore from the offline banner afterwards.
Press(w) ==
  /\ window[w].at = "ready" /\ window[w].tries < MaxTries
  /\ window' = [window EXCEPT ![w].at = "reads", ![w].tries = @ + 1,
                              ![w].round = IF window[w].tries = 0 THEN "launch" ELSE "retry"]
  /\ UNCHANGED <<process, signalled, api, toClose, lock, control>>

\* What StartCore does when the Core did not answer; after launchCore's second look
\* that is a StartCore of its own, which asks again before it spawns.
Unreached(w) == IF window[w].round = "recheck" THEN [at |-> "reads", round |-> "retry", saw |-> NoCore]
                                               ELSE [at |-> "spawns", round |-> window[w].round, saw |-> NoCore]

\* An answer ends StartCore; launchCore looks once more a moment later.
Reached(w) == IF window[w].round = "launch" THEN [at |-> "reads", round |-> "recheck", saw |-> NoCore]
                                            ELSE [at |-> "ready", round |-> "retry", saw |-> NoCore]

\* client: the control file, or "companion core is not running".
readControl(w) ==
  /\ window[w].at = "reads"
  /\ window' = [window EXCEPT ![w] = [tries |-> window[w].tries] @@
                  IF control = NoCore THEN Unreached(w)
                  ELSE [at |-> "dials", round |-> window[w].round, saw |-> control]]
  /\ UNCHANGED <<process, signalled, api, toClose, lock, control>>

\* The request goes to the Core the file named when it was read.
coreReachable(w) ==
  LET c == window[w].saw IN
  /\ window[w].at = "dials"
  /\ window' = [window EXCEPT ![w] = [tries |-> window[w].tries] @@
                  IF IsAlive(c) /\ api[c] = "up" THEN Reached(w) ELSE Unreached(w)]
  /\ UNCHANGED <<process, signalled, api, toClose, lock, control>>

\* The binary may be missing; a Core that is spawned is watched for a moment only, and
\* whether it is still there then decides the words, not what the window does next.
StartCore(w) ==
  /\ window[w].at = "spawns"
  /\ window' = [window EXCEPT ![w].at = "ready"]
  /\ \/ \E c \in Cores : process[c] = "none" /\ Moves(c, "starts")
     \/ process' = process
  /\ UNCHANGED <<signalled, api, toClose, lock, control>>

ShellNext ==
  \/ \E c \in Cores : Process(c)
  \/ \E w \in Windows : Press(w) \/ readControl(w) \/ coreReachable(w) \/ StartCore(w)

ShellSpec == ShellInit /\ [][ShellNext]_shellVars

-----------------------------------------------------------------------------
\* The database belongs to one Core at a time, and so do the recovery of unfinished
\* writes, the running commands and the language servers that stand on it: however
\* many windows start a Core while another is still closing what it had opened, none
\* opens anything before the last has closed everything.
OneCoreOwnsTheData == Cardinality({c \in Cores : toClose[c] # <<>>}) <= 1

=============================================================================
