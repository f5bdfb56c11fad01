------------------------------ MODULE Machines ------------------------------
(***************************************************************************)
(* The links to other computers (companion/internal/machines): the list    *)
(* the user keeps, one connect loop per link, and the ssh sessions they    *)
(* bring up.                                                               *)
(*                                                                         *)
(* Everything a Manager method changes it changes under mgr.mu, so each is *)
(* one action.  A loop is a goroutine with a context of its own; stopping  *)
(* a link cancels the context and does not wait for the goroutine, so the  *)
(* loops of one link overlap.  A script runs (or fails) in one step and    *)
(* what it printed is acted on in a later one.                             *)
(***************************************************************************)
EXTENDS Naturals

CONSTANTS
  Ids,        \* ids of machines
  Hosts,      \* addresses
  Loops,      \* goroutines that run a connect loop; one that has returned is used again
  MaxStarts,  \* how often a Companion is launched on a host
  NoId, NoLoop, NoHost

ASSUME MachinesAssumption ==
  /\ MaxStarts \in Nat
  /\ NoId \notin Ids /\ NoLoop \notin Loops /\ NoHost \notin Hosts

VARIABLES
  listed,    \* Manager.links
  ordered,   \* Manager.order: the ids in it
  link,      \* the live side of each machine
  loop,      \* the connect loops
  kept,      \* the saved list: the host of each machine
  there      \* what is on each host

machinesVars == <<listed, ordered, link, loop, kept, there>>

States == {"off", "connecting", "missing", "installing", "starting", "online", "error", "lost"}

\* StateError with ReasonLost is written "lost".  session is the loop whose
\* forwards proxy, mcpBase, ctlBase and token belong to; install is the channel.
NewLink(h) == [host |-> h, state |-> "off", session |-> NoLoop, cancel |-> NoLoop, install |-> FALSE]

\* found: what the last probe printed (the launch its control file speaks of, 0
\* when there is none); host: where the forwards lead; asked (history): Install
\* was clicked about what this attempt found.
Idle == [id |-> NoId, pc |-> "none", live |-> FALSE, host |-> NoHost,
         compatible |-> FALSE, control |-> 0, asked |-> FALSE]

\* What a host that has never seen Fylane holds.
Bare == [compatible |-> FALSE, launches |-> 0, up |-> FALSE]

MachinesInit ==
  /\ listed = {} /\ ordered = {}
  /\ link = [m \in Ids |-> NewLink(NoHost)]
  /\ loop = [l \in Loops |-> Idle]
  /\ kept = [m \in Ids |-> NoHost]
  /\ there = [h \in Hosts |-> Bare]

----------------------------------------------------------------------------
(* The Manager's methods.                                                  *)

\* listLocked, and List, endpoints and pending like it, look up the link of every id
\* of the order: one without a link makes them panic.
Listable(ids, links) == ids \subseteq links

Running(m, pc) == [id |-> m, pc |-> pc, live |-> TRUE, host |-> NoHost,
                   compatible |-> FALSE, control |-> 0, asked |-> FALSE]
Fresh(m) == Running(m, "begin")

\* start: a loop with a context of its own; the link is Connecting at once.
Connecting(k, l) == [host |-> k.host, state |-> "connecting", session |-> k.session, cancel |-> l,
                     install |-> k.install]
Start(m, k, l, loops) ==
  /\ loops[l].pc = "none"
  /\ link' = [link EXCEPT ![m] = Connecting(k, l)]
  /\ loop' = [loops EXCEPT ![l] = Fresh(m)]

\* stop: the context ends, the link is off and offers nothing.
StoppedAt(h, k) == [host |-> h, state |-> "off", session |-> NoLoop, cancel |-> NoLoop, install |-> k.install]
Stopped(k) == StoppedAt(k.host, k)
Cancelled(m) ==
  IF link[m].cancel = NoLoop THEN loop ELSE [loop EXCEPT ![link[m].cancel].live = FALSE]

\* Add: saved first; a list that cannot be saved is not changed.  Ids are drawn at
\* random: one is used again only when nothing is left of its first use.
Add(m, h) ==
  /\ Listable(ordered, listed) /\ m \notin listed /\ \A l \in Loops : loop[l].id # m
  /\ kept' = [kept EXCEPT ![m] = h]
  /\ listed' = listed \cup {m} /\ ordered' = ordered \cup {m}
  /\ \E l \in Loops : Start(m, NewLink(h), l, loop)
  /\ UNCHANGED <<there>>

\* Update: stopped, changed, saved, started; a save that fails, or a list that cannot
\* be made, leaves the link off.
Update(m, h) ==
  /\ m \in listed /\ h # link[m].host
  /\ LET k == StoppedAt(h, link[m]) IN
     \/ /\ kept' = [kept EXCEPT ![m] = h] /\ Listable(ordered, listed)
        /\ \E l \in Loops : Start(m, k, l, Cancelled(m))
     \/ link' = [link EXCEPT ![m] = k] /\ loop' = Cancelled(m) /\ UNCHANGED kept
  /\ UNCHANGED <<listed, ordered, there>>

\* Remove: stopped and forgotten, whether the list can be saved or not.  For the
\* machine the window stands on the window's place is saved first, and when that fails
\* the id stays in the order.  (That the window moves back to this computer is in
\* Router.)
Remove(m) ==
  /\ m \in listed
  /\ listed' = listed \ {m}
  /\ link' = [link EXCEPT ![m] = Stopped(@)]
  /\ loop' = Cancelled(m)
  /\ \/ /\ ordered' = ordered \ {m}
        /\ UNCHANGED kept \/ (Listable(ordered', listed') /\ kept' = [kept EXCEPT ![m] = NoHost])
     \/ UNCHANGED <<ordered, kept>>
  /\ UNCHANGED there

\* Connect: a link that has a loop keeps it.
Connect(m) ==
  /\ m \in listed /\ link[m].cancel = NoLoop
  /\ \E l \in Loops : Start(m, link[m], l, loop)
  /\ UNCHANGED <<listed, ordered, kept, there>>

Disconnect(m) ==
  /\ m \in listed
  /\ link' = [link EXCEPT ![m] = Stopped(@)]
  /\ loop' = Cancelled(m)
  /\ UNCHANGED <<listed, ordered, kept, there>>

\* Install: only for a machine found missing; the channel holds one click.
Install(m) ==
  /\ m \in listed /\ link[m].state = "missing"
  /\ link' = [link EXCEPT ![m].install = TRUE]
  /\ loop' = [loop EXCEPT ![link[m].cancel].asked = TRUE]
  /\ UNCHANGED <<listed, ordered, kept, there>>

\* The Companion ends and is started again: Manager.Start makes a link for every
\* machine of the saved list and starts each.
Restart ==
  LET back == {m \in Ids : kept[m] # NoHost} IN
  /\ listed \cup ordered # {}
  /\ \E of \in [back -> Loops] :
       /\ \A m, n \in back : of[m] = of[n] => m = n
       /\ link' = [m \in Ids |-> IF m \in back
            THEN Connecting(NewLink(kept[m]), of[m])
            ELSE NewLink(NoHost)]
       /\ loop' = [l \in Loops |->
            IF \E m \in back : of[m] = l THEN Fresh(CHOOSE m \in back : of[m] = l) ELSE Idle]
  /\ listed' = back /\ ordered' = back
  /\ UNCHANGED <<kept, there>>

----------------------------------------------------------------------------
(* One loop.  A script that a stopped loop asks for does not run: the      *)
(* context has ended.                                                      *)

HostOf(l) == link[loop[l].id].host
To(l, pc) == loop' = [loop EXCEPT ![l].pc = pc]
Returned(l) == loop' = [loop EXCEPT ![l] = Idle]

\* setWithReason: a loop that was stopped or replaced has no say; a state other
\* than online takes the endpoints away.
Set(l, s) ==
  IF loop[l].live
  THEN link' = [link EXCEPT ![loop[l].id].state = s,
                            ![loop[l].id].session = IF s = "online" THEN @ ELSE NoLoop]
  ELSE UNCHANGED link

\* loop, when attempt has returned: a stopped loop ends, others wait and retry.
AttemptFails(l, s) ==
  IF loop[l].live
  THEN Set(l, s) /\ loop' = [loop EXCEPT ![l] = Running(@.id, "backoff")]
  ELSE UNCHANGED link /\ Returned(l)

\* attempt begins: Connecting.
Begin(l) ==
  /\ loop[l].pc = "begin"
  /\ Set(l, "connecting") /\ To(l, "probe")
  /\ UNCHANGED <<listed, ordered, kept, there>>

\* The probe script: the version and the control file; or ssh does not get in.
Probe(l, next) ==
  \/ /\ loop[l].live
     /\ LET t == there[HostOf(l)] IN
        loop' = [loop EXCEPT ![l].pc = next, ![l].compatible = t.compatible, ![l].control = t.launches]
     /\ UNCHANGED link
  \/ AttemptFails(l, "error")

FirstProbe(l) == loop[l].pc = "probe" /\ Probe(l, "judge") /\ UNCHANGED <<listed, ordered, kept, there>>

\* A machine of another version, or with none, is Missing until Install is clicked.
Judge(l) ==
  /\ loop[l].pc = "judge"
  /\ IF loop[l].compatible THEN UNCHANGED link /\ To(l, "bring")
     ELSE /\ Set(l, "missing")
          /\ loop' = [loop EXCEPT ![l].pc = "await"]
  /\ UNCHANGED <<listed, ordered, kept, there>>

\* The select: the click is taken out of the channel, or the context has ended.
AwaitInstall(l) ==
  /\ loop[l].pc = "await"
  /\ \/ /\ link[loop[l].id].install
        /\ link' = [link EXCEPT ![loop[l].id].install = FALSE]
        /\ To(l, "clicked")
     \/ ~loop[l].live /\ Returned(l) /\ UNCHANGED link
  /\ UNCHANGED <<listed, ordered, kept, there>>

SetInstalling(l) ==
  /\ loop[l].pc = "clicked"
  /\ Set(l, "installing") /\ To(l, "install")
  /\ UNCHANGED <<listed, ordered, kept, there>>

\* doInstall: the script ran to its end or failed, having done its work or not.
DoInstall(l) ==
  /\ loop[l].pc = "install"
  /\ there' \in IF loop[l].live THEN {there, [there EXCEPT ![HostOf(l)].compatible = TRUE]} ELSE {there}
  /\ \/ loop[l].live /\ To(l, "reprobe") /\ UNCHANGED link
     \/ AttemptFails(l, "error")
  /\ UNCHANGED <<listed, ordered, kept>>

\* What was installed is probed; another version than this one is an error.
ProbeInstalled(l) == loop[l].pc = "reprobe" /\ Probe(l, "rejudge") /\ UNCHANGED <<listed, ordered, kept, there>>

Rejudge(l) ==
  /\ loop[l].pc = "rejudge"
  /\ IF loop[l].compatible THEN UNCHANGED link /\ To(l, "bring") ELSE AttemptFails(l, "error")
  /\ UNCHANGED <<listed, ordered, kept, there>>

\* bring: forwards for what the control file says, and health through them.  A
\* control file of a Companion that is gone, or none, is what Starting is for.
Answers(l) == loop[l].control # 0 /\ loop[l].control = there[HostOf(l)].launches /\ there[HostOf(l)].up

Forwarded(l) ==
  /\ loop[l].live /\ Answers(l)
  /\ loop' = [loop EXCEPT ![l].pc = "publish", ![l].host = HostOf(l), ![l].compatible = FALSE, ![l].control = 0]
  /\ UNCHANGED link

Bring(l) ==
  /\ loop[l].pc = "bring"
  /\ \/ Forwarded(l)
     \/ loop[l].live /\ ~Answers(l) /\ Set(l, "starting") /\ To(l, "start")
     \/ AttemptFails(l, "error")
  /\ UNCHANGED <<listed, ordered, kept, there>>

\* doStart: launched detached, then probed until a control file other than the
\* stale one is there, or the time is up.
DoStart(l) ==
  /\ loop[l].pc = "start"
  /\ \/ /\ loop[l].live /\ there[HostOf(l)].launches < MaxStarts
        /\ there' = [there EXCEPT ![HostOf(l)].launches = @ + 1, ![HostOf(l)].up = TRUE]
        /\ To(l, "restarted") /\ UNCHANGED link
     \/ AttemptFails(l, "error") /\ UNCHANGED there
  /\ UNCHANGED <<listed, ordered, kept>>

ProbeStarted(l) == loop[l].pc = "restarted" /\ Probe(l, "rebring") /\ UNCHANGED <<listed, ordered, kept, there>>

Rebring(l) ==
  /\ loop[l].pc = "rebring"
  /\ (Forwarded(l) \/ AttemptFails(l, "error"))
  /\ UNCHANGED <<listed, ordered, kept, there>>

\* Endpoints published by whoever gets there.
PublishAnyway(l) == link' = [link EXCEPT ![loop[l].id].session = l]

\* The endpoints go onto the link under the lock, unless the loop was stopped.
PublishEndpoints(l) ==
  IF loop[l].live THEN link' = [link EXCEPT ![loop[l].id].session = l] ELSE UNCHANGED link

Publish(l) ==
  /\ loop[l].pc = "publish"
  /\ PublishEndpoints(l) /\ To(l, "set")
  /\ UNCHANGED <<listed, ordered, kept, there>>

SetOnline(l) ==
  /\ loop[l].pc = "set"
  /\ Set(l, "online") /\ To(l, "up")
  /\ UNCHANGED <<listed, ordered, kept, there>>

\* The session ends, or the loop is stopped and closes it.
Drops(l) ==
  /\ loop[l].pc = "up"
  /\ AttemptFails(l, "lost")
  /\ UNCHANGED <<listed, ordered, kept, there>>

Backoff(l) ==
  /\ loop[l].pc = "backoff"
  /\ IF loop[l].live THEN To(l, "begin") ELSE Returned(l)
  /\ UNCHANGED <<listed, ordered, link, kept, there>>

\* The Companion on a host ends and leaves its control file behind, or somebody
\* installs another version there.
HostChanges(h) ==
  /\ there[h].up
  /\ there' \in {[there EXCEPT ![h].up = FALSE], [there EXCEPT ![h].up = FALSE, ![h].compatible = FALSE]}
  /\ UNCHANGED <<listed, ordered, link, loop, kept>>

LoopStep(l) ==
  \/ Begin(l) \/ FirstProbe(l) \/ Judge(l) \/ AwaitInstall(l) \/ SetInstalling(l) \/ DoInstall(l)
  \/ ProbeInstalled(l) \/ Rejudge(l) \/ Bring(l) \/ DoStart(l) \/ ProbeStarted(l) \/ Rebring(l)
  \/ Publish(l) \/ SetOnline(l) \/ Drops(l) \/ Backoff(l)

MachinesNext ==
  \/ \E m \in Ids, h \in Hosts : Add(m, h) \/ Update(m, h)
  \/ \E m \in Ids : Remove(m) \/ Connect(m) \/ Disconnect(m) \/ Install(m)
  \/ Restart
  \/ \E l \in Loops : LoopStep(l)
  \/ \E h \in Hosts : HostChanges(h)

MachinesSpec == MachinesInit /\ [][MachinesNext]_machinesVars

----------------------------------------------------------------------------
\* Proxy and endpoints hand out what the link holds.  While a machine is online
\* that is the session of the loop the link runs now, and its forwards lead to
\* the host the machine has now, however Update, Disconnect and Connect overlap
\* the loops they replaced.
OnlineIsThisSession ==
  \A m \in Ids : link[m].state = "online" =>
    /\ link[m].session # NoLoop /\ link[m].session = link[m].cancel
    /\ loop[link[m].session].pc = "up" /\ loop[link[m].session].host = link[m].host
=============================================================================
