------------------------------- MODULE Router -------------------------------
(***************************************************************************)
(* The router in front of /mcp (machines/router.go) and the machine the    *)
(* window stands on: which machine a call belongs to, the cached list of   *)
(* every machine's folders, and where forwarded tasks live.                *)
(*                                                                         *)
(* The links are Machines' business; here each is off, pending or online   *)
(* and changes when it likes.  The router's mutex and the Manager's are    *)
(* taken for a moment at a time, so a call is a sequence of short steps.   *)
(***************************************************************************)
EXTENDS Naturals, FiniteSets

CONSTANTS
  Computers,   \* other machines
  SharedFolders,     \* workspace ids on other machines
  Runs,        \* task ids handed out by other machines
  Requests,    \* MCP requests
  Nowhere      \* "": this computer, nobody

ASSUME RouterAssumption == Nowhere \notin Computers

VARIABLES
  configured,  \* machines the Manager has a link for
  status,      \* what the link is: off, pending, online
  shares,      \* the folders each machine lists, none of them revoked
  standing,    \* Manager.current
  owner,       \* router.byID: the machine of each folder listed
  flagged,     \* the machine whose current folder the list calls current
  fresh,       \* the list is younger than listTTL
  tasksAt,     \* router.tasks
  aged,        \* tasks older than taskMemory; the machine itself has forgotten them
  runsAt,      \* where each task id was handed out
  req          \* the requests being served

routerVars == <<configured, status, shares, standing, owner, flagged, fresh, tasksAt, aged, runsAt, req>>

\* machine: where the request is carried; wait: whom it waits for; found and flag:
\* what the refresh under way has collected; out: how it was answered.
NoOwners == [f \in SharedFolders |-> Nowhere]
Asks(pc, kind, folder, task) ==
  [pc |-> pc, kind |-> kind, folder |-> folder, task |-> task, machine |-> Nowhere,
   wait |-> {}, found |-> NoOwners, flag |-> Nowhere, out |-> "none"]
Quiet == Asks("none", "none", Nowhere, Nowhere)

RouterInit ==
  /\ configured = Computers
  /\ status = [m \in Computers |-> "pending"]
  /\ shares \in [SharedFolders -> Computers]
  /\ standing = Nowhere
  /\ owner = [f \in SharedFolders |-> Nowhere] /\ flagged = Nowhere /\ fresh = FALSE
  /\ tasksAt = [t \in Runs |-> Nowhere] /\ aged = {} /\ runsAt = [t \in Runs |-> Nowhere]
  /\ req = [r \in Requests |-> Quiet]

Online == {m \in configured : status[m] = "online"}       \* endpoints
Pending == {m \in configured : status[m] = "pending"}

----------------------------------------------------------------------------
(* Around the router.                                                      *)

LinkChanges(m) ==
  /\ m \in configured
  /\ status' \in {[status EXCEPT ![m] = s] : s \in {"off", "pending", "online"}}
  /\ status' # status
  /\ UNCHANGED <<configured, shares, standing, owner, flagged, fresh, tasksAt, aged, runsAt, req>>

\* Remove: the window moves back to this computer.
Forget(m) ==
  /\ m \in configured
  /\ configured' = configured \ {m}
  /\ standing' = IF standing = m THEN Nowhere ELSE standing
  /\ UNCHANGED <<status, shares, owner, flagged, fresh, tasksAt, aged, runsAt, req>>

\* Select: the list is relisted on the next ask; a choice that cannot be saved is
\* kept all the same, and the list is left as it is.
Stand(m) ==
  /\ m \in configured \cup {Nowhere} /\ m # standing
  /\ standing' = m
  /\ fresh' \in {FALSE, fresh}
  /\ UNCHANGED <<configured, status, shares, owner, flagged, tasksAt, aged, runsAt, req>>

Expire ==
  /\ fresh /\ fresh' = FALSE
  /\ UNCHANGED <<configured, status, shares, standing, owner, flagged, tasksAt, aged, runsAt, req>>

Age(t) ==
  /\ runsAt[t] # Nowhere /\ t \notin aged
  /\ aged' = aged \cup {t}
  /\ UNCHANGED <<configured, status, shares, standing, owner, flagged, fresh, tasksAt, runsAt, req>>

----------------------------------------------------------------------------
(* One request.                                                            *)

Go(r, pc) == req' = [req EXCEPT ![r].pc = pc]
Done(q, flag, out) ==
  [pc |-> "done", kind |-> q.kind, folder |-> q.folder, task |-> q.task, machine |-> q.machine,
   wait |-> {}, found |-> NoOwners, flag |-> flag, out |-> out]
Answered(r, out) == req' = [req EXCEPT ![r] = Done(req[r], Nowhere, out)]

\* A tool call or a resource read names a folder; task_status names a task it was
\* told of; workspace_info asks for the list.  Anything else goes to the local
\* handler and is not modelled.
Arrives(r) ==
  /\ req[r].pc \in {"none", "done"}
  /\ \/ \E f \in SharedFolders, k \in {"use", "run"} :
          req' = [req EXCEPT ![r] = Asks("look", k, f, Nowhere)]
     \/ \E t \in Runs : runsAt[t] # Nowhere /\
          req' = [req EXCEPT ![r] = Asks("task", "status", Nowhere, t)]
     \/ req' = [req EXCEPT ![r] = Asks("stand", "list", Nowhere, Nowhere)]
  /\ UNCHANGED <<configured, status, shares, standing, owner, flagged, fresh, tasksAt, aged, runsAt>>

\* route, task_status: a task the router remembers is asked for where it started.
TaskOwner(r) ==
  /\ req[r].pc = "task"
  /\ LET m == tasksAt[req[r].task] IN
     IF m = Nowhere THEN Answered(r, "local") ELSE req' = [req EXCEPT ![r].pc = "online", ![r].machine = m]
  /\ UNCHANGED <<configured, status, shares, standing, owner, flagged, fresh, tasksAt, aged, runsAt>>

\* workspace: a hit is used however old it is; a miss lists again unless the list
\* is fresh.
Look(r) ==
  /\ req[r].pc = "look"
  /\ LET m == owner[req[r].folder] IN
     IF m # Nowhere THEN req' = [req EXCEPT ![r].pc = "online", ![r].machine = m]
     ELSE Go(r, IF fresh THEN "miss" ELSE "ask")
  /\ UNCHANGED <<configured, status, shares, standing, owner, flagged, fresh, tasksAt, aged, runsAt>>

\* refresh: every machine online is asked for its list; one that does not answer
\* keeps nothing.
Ask(r) ==
  /\ req[r].pc = "ask"
  /\ \E answering \in SUBSET Online :
       req' = [req EXCEPT ![r].pc = "store",
                 ![r].found = [f \in SharedFolders |-> IF shares[f] \in answering THEN shares[f] ELSE Nowhere],
                 ![r].flag = IF standing \in answering THEN standing ELSE Nowhere]
  /\ UNCHANGED <<configured, status, shares, standing, owner, flagged, fresh, tasksAt, aged, runsAt>>

Store(r) ==
  /\ req[r].pc = "store"
  /\ owner' = req[r].found /\ flagged' = req[r].flag /\ fresh' = TRUE
  /\ req' = [req EXCEPT ![r].pc = IF req[r].kind = "list" THEN "offer" ELSE "found",
                         ![r].found = NoOwners, ![r].flag = Nowhere]
  /\ UNCHANGED <<configured, status, shares, standing, tasksAt, aged, runsAt>>

\* lookup, and the second look after a wait, which has nothing left to try.
Found(r) ==
  /\ req[r].pc = "found"
  /\ LET m == owner[req[r].folder] IN
     IF m # Nowhere THEN req' = [req EXCEPT ![r].pc = "online", ![r].machine = m, ![r].out = "none"]
     ELSE IF req[r].out = "waited" THEN Answered(r, "local") ELSE Go(r, "miss")
  /\ UNCHANGED <<configured, status, shares, standing, owner, flagged, fresh, tasksAt, aged, runsAt>>

\* A miss for a folder that is not local waits for the machines on their way.
Miss(r) ==
  /\ req[r].pc = "miss"
  /\ IF Pending = {} THEN Answered(r, "local")
     ELSE req' = [req EXCEPT ![r].pc = "settle", ![r].wait = Pending]
  /\ UNCHANGED <<configured, status, shares, standing, owner, flagged, fresh, tasksAt, aged, runsAt>>

\* settle: until none of them is pending, or connectWait has passed.
Settle(r) ==
  /\ req[r].pc \in {"settle", "settleList", "settleForward"}
  /\ req' = [req EXCEPT ![r].wait = {},
       ![r].pc = CASE req[r].pc = "settle" -> "ask" [] req[r].pc = "settleList" -> "relist"
                   [] OTHER -> "forward",
       ![r].out = "waited"]
  /\ UNCHANGED <<configured, status, shares, standing, owner, flagged, fresh, tasksAt, aged, runsAt>>

\* online: a machine that owns the folder is the answer while it is configured,
\* reachable or not.
OwnerNow(m) == IF m \in configured THEN m ELSE Nowhere

Route(r) ==
  /\ req[r].pc = "online"
  /\ IF OwnerNow(req[r].machine) = Nowhere THEN Answered(r, "local") ELSE Go(r, "forward")
  /\ UNCHANGED <<configured, status, shares, standing, owner, flagged, fresh, tasksAt, aged, runsAt>>

\* forward: a machine that is not online is waited for once, then unavailable.
Forward(r) ==
  /\ req[r].pc = "forward"
  /\ LET m == req[r].machine IN
     IF m \in Online THEN Go(r, "sent")
     ELSE IF m \in Pending /\ req[r].out # "waited"
     THEN req' = [req EXCEPT ![r].pc = "settleForward", ![r].wait = {m}]
     ELSE Answered(r, "unavailable")
  /\ UNCHANGED <<configured, status, shares, standing, owner, flagged, fresh, tasksAt, aged, runsAt>>

\* A remember whose purge takes everything.
RememberAndPurge(t, m) == tasksAt' = [u \in Runs |-> IF u = t THEN m ELSE Nowhere]

\* remember: the task id of the answer; what is older than taskMemory is purged.
Remember(t, m) ==
  tasksAt' = [u \in Runs |-> IF u = t THEN m ELSE IF u \in aged THEN Nowhere ELSE tasksAt[u]]

\* The machine answers.  A task id in the answer to run_command or code_task is
\* remembered before the answer is written.
Answer(r) ==
  /\ req[r].pc = "sent"
  /\ \/ /\ req[r].kind = "run"
        /\ \E t \in Runs :
             /\ runsAt[t] = Nowhere
             /\ runsAt' = [runsAt EXCEPT ![t] = req[r].machine]
             /\ Remember(t, req[r].machine)
        /\ Answered(r, "answered")
     \/ req[r].kind # "run" /\ Answered(r, "answered") /\ UNCHANGED <<tasksAt, runsAt>>
     \/ Answered(r, "unavailable") /\ UNCHANGED <<tasksAt, runsAt>>
  /\ UNCHANGED <<configured, status, shares, standing, owner, flagged, fresh, aged>>

\* Workspaces: the machine the window stands on is waited for when it is on its
\* way, and then the list is not trusted.
ListStarts(r) ==
  /\ req[r].pc = "stand"
  /\ IF standing \in Pending
     THEN req' = [req EXCEPT ![r].pc = "settleList", ![r].wait = {standing}]
     ELSE Go(r, IF fresh THEN "offer" ELSE "ask")
  /\ UNCHANGED <<configured, status, shares, standing, owner, flagged, fresh, tasksAt, aged, runsAt>>

Relist(r) ==
  /\ req[r].pc = "relist"
  /\ fresh' = FALSE
  /\ Go(r, "ask")
  /\ UNCHANGED <<configured, status, shares, standing, owner, flagged, tasksAt, aged, runsAt>>

\* What is offered is the list, less the machines that have dropped since.
Offer(r) ==
  /\ req[r].pc = "offer"
  /\ req' = [req EXCEPT ![r] = Done(req[r], IF flagged \in Online THEN flagged ELSE Nowhere, "answered")]
  /\ UNCHANGED <<configured, status, shares, standing, owner, flagged, fresh, tasksAt, aged, runsAt>>

RouterNext ==
  \/ \E m \in Computers : LinkChanges(m) \/ Forget(m)
  \/ \E m \in Computers \cup {Nowhere} : Stand(m)
  \/ Expire
  \/ \E t \in Runs : Age(t)
  \/ \E r \in Requests :
       \/ Arrives(r) \/ TaskOwner(r) \/ Look(r) \/ Ask(r) \/ Store(r) \/ Found(r) \/ Miss(r) \/ Settle(r)
       \/ Route(r) \/ Forward(r) \/ Answer(r) \/ ListStarts(r) \/ Relist(r) \/ Offer(r)

RouterSpec == RouterInit /\ [][RouterNext]_routerVars

----------------------------------------------------------------------------
\* A task that was handed out on another machine is asked for there: as long as
\* the machine is configured and the task remembered there, task_status is
\* carried to that machine or answered "not connected", never looked up among
\* this computer's own tasks.
TasksStayHome ==
  /\ \A t \in Runs \ aged : runsAt[t] # Nowhere => tasksAt[t] = runsAt[t]
  /\ \A r \in Requests : LET q == req[r] IN
       /\ q.kind = "status" /\ q.pc = "done" /\ q.machine # Nowhere /\ q.machine \in configured
            => q.out # "local"
       /\ q.pc = "sent" => q.machine = (IF q.kind = "status" THEN runsAt[q.task] ELSE shares[q.folder])

=============================================================================
