------------------------------- MODULE Connect -------------------------------
(***************************************************************************)
(* The tunnel process that publishes this machine (tunnelproc/manager.go), *)
(* the connect screen that swaps and stops it (app/connect.go), and the    *)
(* end of the Core that started it (app/app.go).                           *)
(*                                                                         *)
(* A Manager is built for every tunnel that is started.  An address is the *)
(* manager's n-th run: a quick tunnel has another one every time.          *)
(***************************************************************************)
EXTENDS Naturals

CONSTANTS
  Tunnels,     \* bound: the managers that can be built
  Switches,    \* requests of the connect screen
  MaxRuns,     \* bound: how often one manager starts its process
  NoTunnel

ASSUME ConnectAssumption == NoTunnel \notin Tunnels /\ MaxRuns \in Nat \ {0}

VARIABLES
  manager,     \* per manager: its supervisor, its process, its output, its address
  tunnel,      \* connectControl.tunnel
  first,       \* tunProc: the manager Run started and stops when it returns
  published,   \* directsrv.Server.publicURL: who announced it, in which run
  switch,      \* the requests under way, the Core's own Stop among them
  core         \* "up", "stopping" or "gone"

connectVars == <<manager, tunnel, first, published, switch, core>>

NewManager(sup, held) == [sup |-> sup, proc |-> "none", scan |-> "idle", run |-> 0, url |-> 0,
                          held |-> held, cancelled |-> FALSE]
Unbuilt == NewManager("none", FALSE)
Unpublished == [by |-> NoTunnel, run |-> 0]
\* The address the settings file remembers, announced by no tunnel of this Core.
Restored == [by |-> NoTunnel, run |-> 1]
At(pc, does, m) == [pc |-> pc, does |-> does, on |-> m]
AtRest == At("idle", "none", NoTunnel)

Core == "core"
Actors == Switches \cup {Core}

\* Manager.Start
Started == NewManager("start", TRUE)

\* Run shows the stored address, if there is one, before it starts the tunnel the user
\* picked; it stays when there is none to start, and when startTunnel fails.
ConnectInit ==
  /\ \E m \in Tunnels \cup {NoTunnel} :
       /\ first = m /\ tunnel = m
       /\ manager = [n \in Tunnels |-> IF n = m THEN Started ELSE Unbuilt]
  /\ published \in {Unpublished, Restored}
  /\ switch = [a \in Actors |-> AtRest]
  /\ core = "up"

----------------------------------------------------------------------------
(* supervise and runOnce.                                                  *)

Becomes(m, r) == manager' = [manager EXCEPT ![m] = r]
Supervises(m, sup) == core # "gone" /\ manager[m].sup = sup

\* The process starts, or cannot be started.  Nobody asks whether it is still wanted.
RunStarts(m) ==
  /\ Supervises(m, "start")
  /\ \/ /\ manager[m].run < MaxRuns
        /\ manager' = [manager EXCEPT ![m].sup = "run", ![m].proc = "up", ![m].scan = "reading", ![m].run = @ + 1]
     \/ manager' = [manager EXCEPT ![m].sup = "ended"]
  /\ UNCHANGED <<tunnel, first, published, switch, core>>

\* scan finds the address, which may be output of a process that is gone; setURL
\* records it under the lock ...
ScanFinds(m) ==
  /\ core # "gone" /\ manager[m].scan = "reading" /\ manager[m].url # manager[m].run
  /\ manager' = [manager EXCEPT ![m].url = manager[m].run, ![m].scan = "calls"]
  /\ UNCHANGED <<tunnel, first, published, switch, core>>

\* ... and calls onURL after it.
ScanTells(m) ==
  /\ core # "gone" /\ manager[m].scan = "calls"
  /\ published' = [by |-> m, run |-> manager[m].run]
  /\ manager' = [manager EXCEPT ![m].scan = "reading"]
  /\ UNCHANGED <<tunnel, first, switch, core>>

ScanEnds(m) ==
  /\ core # "gone" /\ manager[m].scan = "reading" /\ manager[m].proc = "dead"
  /\ manager' = [manager EXCEPT ![m].scan = "idle"]
  /\ UNCHANGED <<tunnel, first, published, switch, core>>

\* By itself, when interrupted, or killed after stopGrace.
ProcessEnds(m) ==
  /\ manager[m].proc \in {"up", "asked"}
  /\ manager' = [manager EXCEPT ![m].proc = "dead"]
  /\ UNCHANGED <<tunnel, first, published, switch, core>>

\* ctx.Done: the process is asked to go.
Interrupts(m) ==
  /\ Supervises(m, "run") /\ manager[m].cancelled
  /\ manager' = [manager EXCEPT ![m].sup = "asked", ![m].proc = IF @ = "up" THEN "asked" ELSE @]
  /\ UNCHANGED <<tunnel, first, published, switch, core>>

\* A wait for the process that forgets who reads its output.
ExitedAlone(m) == manager[m].proc = "dead"

\* waitErr: both scanners are through, then cmd.Wait.
Exited(m) == manager[m].scan = "idle" /\ manager[m].proc = "dead"

RunReturns(m) ==
  /\ \E sup \in {"run", "asked"} : Supervises(m, sup)
  /\ Exited(m)
  /\ manager' = [manager EXCEPT ![m].sup = "ended"]
  /\ UNCHANGED <<tunnel, first, published, switch, core>>

\* setURL("") after a run that ended by itself.
DropsAddress(m) ==
  manager' = [manager EXCEPT ![m].url = 0, ![m].sup = IF manager[m].url = 0 THEN "failed" ELSE "told"]

RunEnded(m) ==
  /\ Supervises(m, "ended")
  /\ IF manager[m].cancelled THEN manager' = [manager EXCEPT ![m].sup = "done"] ELSE DropsAddress(m)
  /\ UNCHANGED <<tunnel, first, published, switch, core>>

SuperviseTells(m) ==
  /\ Supervises(m, "told")
  /\ published' = Unpublished
  /\ manager' = [manager EXCEPT ![m].sup = "failed"]
  /\ UNCHANGED <<tunnel, first, switch, core>>

\* The backoff.
BacksOff(m) ==
  /\ Supervises(m, "failed")
  /\ \/ manager[m].cancelled /\ manager' = [manager EXCEPT ![m].sup = "done"]
     \/ manager' = [manager EXCEPT ![m].sup = "start"]
  /\ UNCHANGED <<tunnel, first, published, switch, core>>

Supervision(m) ==
  \/ RunStarts(m) \/ ScanFinds(m) \/ ScanTells(m) \/ ScanEnds(m) \/ ProcessEnds(m)
  \/ Interrupts(m) \/ RunReturns(m) \/ RunEnded(m) \/ SuperviseTells(m) \/ BacksOff(m)

----------------------------------------------------------------------------
(* Manager.Stop, by a request or by the Core that ends.                    *)

Goes(a, r) == switch' = [switch EXCEPT ![a] = r]
Stands(a, pc) == core # "gone" /\ switch[a].pc = pc

\* The cancel function is taken once; whoever comes second returns at once.
StopCancels(a) ==
  /\ Stands(a, "cancel")
  /\ LET m == switch[a].on IN
     /\ switch' = [switch EXCEPT ![a].pc = IF manager[m].held THEN "wait" ELSE "stopped"]
     /\ manager' = [manager EXCEPT ![m].held = FALSE, ![m].cancelled = @ \/ manager[m].held]
  /\ UNCHANGED <<tunnel, first, published, core>>

StopClears(a) ==
  /\ Stands(a, "wait") /\ manager[switch[a].on].sup = "done"
  /\ LET m == switch[a].on IN
     /\ switch' = [switch EXCEPT ![a].pc = IF manager[m].url = 0 THEN "stopped" ELSE "tell"]
     /\ manager' = [manager EXCEPT ![m].url = 0]
  /\ UNCHANGED <<tunnel, first, published, core>>

StopTells(a) ==
  /\ Stands(a, "tell")
  /\ published' = Unpublished
  /\ switch' = [switch EXCEPT ![a].pc = "stopped"]
  /\ UNCHANGED <<manager, tunnel, first, core>>

Stop(a) == StopCancels(a) \/ StopClears(a) \/ StopTells(a)

----------------------------------------------------------------------------
(* ApplyTunnel within direct mode, StopTunnel and SignOut.                 *)

\* Validated, provisioned and saved; stop() takes the tunnel.
StopTakes(s, does) ==
  /\ core = "up" /\ switch[s].pc = "idle" /\ does \in {"apply", "stop"}
  /\ Goes(s, At(IF tunnel = NoTunnel THEN "stopped" ELSE "cancel", does, tunnel))
  /\ tunnel' = NoTunnel
  /\ UNCHANGED <<manager, first, published, core>>

Unpublishes(s) ==
  /\ Stands(s, "stopped")
  /\ published' = Unpublished
  /\ Goes(s, IF switch[s].does = "apply" THEN At("start", "none", NoTunnel) ELSE AtRest)
  /\ UNCHANGED <<manager, tunnel, first, core>>

\* startTunnel, which may fail.
StartTunnel(s) ==
  /\ Stands(s, "start")
  /\ \/ \E m \in {n \in Tunnels : manager[n] = Unbuilt} :
          Becomes(m, Started) /\ Goes(s, At("keep", "none", m))
     \/ Goes(s, AtRest) /\ UNCHANGED manager
  /\ UNCHANGED <<tunnel, first, published, core>>

KeepTunnel(s) ==
  /\ Stands(s, "keep")
  /\ tunnel' = switch[s].on
  /\ Goes(s, AtRest)
  /\ UNCHANGED <<manager, first, published, core>>

----------------------------------------------------------------------------
(* The end of the Core.                                                    *)

\* A signal ends the context of every manager, or the mode was switched and Run
\* returns without that; either way Run stops the manager it started.
CoreStops(signal) ==
  /\ core = "up" /\ core' = "stopping"
  /\ manager' = [m \in Tunnels |-> [manager[m] EXCEPT !.cancelled = @ \/ (signal /\ manager[m] # Unbuilt)]]
  /\ Goes(Core, IF first = NoTunnel THEN At("stopped", "none", NoTunnel)
                ELSE At("cancel", "stop", first))
  /\ UNCHANGED <<tunnel, first, published>>

CoreEnds ==
  /\ core = "stopping" /\ switch[Core].pc = "stopped"
  /\ core' = "gone"
  /\ UNCHANGED <<manager, tunnel, first, published, switch>>

ConnectNext ==
  \/ \E m \in Tunnels : Supervision(m)
  \/ \E a \in Actors : Stop(a)
  \/ \E s \in Switches : \/ \E does \in {"apply", "stop"} : StopTakes(s, does)
                         \/ Unpublishes(s) \/ StartTunnel(s) \/ KeepTunnel(s)
  \/ \E signal \in BOOLEAN : CoreStops(signal)
  \/ CoreEnds

ConnectSpec == ConnectInit /\ [][ConnectNext]_connectVars

----------------------------------------------------------------------------
\* The address platforms are given is one a running tunnel announced, in the run it
\* is in: a tunnel that died is withdrawn before it is started again, and one that
\* was stopped has nothing left that could still publish its address, however late
\* its last line of output is read.  Only its own withdrawal may be under way.  The
\* stored address a start shows is nobody's announcement, and stays when the tunnel
\* fails before it printed one: it is left out.
PublishedIsAlive ==
  (core = "up" /\ published \notin {Unpublished, Restored}) =>
    LET m == manager[published.by] IN
    /\ m.run = published.run
    /\ \/ m.sup \in {"run", "asked", "ended", "told"}
       \/ m.sup = "done" /\ \E a \in Actors : switch[a].on = published.by /\ switch[a].pc \in {"wait", "tell"}
=============================================================================
