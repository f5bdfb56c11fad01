---------------------------- MODULE RemoteProofs ----------------------------
(***************************************************************************)
(* What is proved of other computers and of language servers: the links to *)
(* machines, the router between them, the connection to a language server  *)
(* and the table of servers. Each holds for any number of machines, loops, *)
(* requests, callers and questions.                                        *)
(***************************************************************************)
EXTENDS Machines, Router, LspConn, Lsp, TLAPS

-----------------------------------------------------------------------------
(* Machines: the links to other computers. *)

\* What Manager.links holds of a machine.
LinkRecords == [host : Hosts \cup {NoHost}, state : States, session : Loops \cup {NoLoop},
                cancel : Loops \cup {NoLoop}, install : BOOLEAN]

\* Where a connect loop stands.
LoopStages == {"none", "begin", "probe", "judge", "await", "clicked", "install", "reprobe", "rejudge", "bring",
               "start", "restarted", "rebring", "publish", "set", "up", "backoff"}

\* A connect loop: its machine, whether its context is live, the host it forwards to.
LoopRecords == [id : Ids \cup {NoId}, pc : LoopStages, live : BOOLEAN, host : Hosts \cup {NoHost},
                compatible : BOOLEAN, control : Nat, asked : BOOLEAN]

\* The types of the state.
MachinesTypeOK ==
  /\ listed \subseteq Ids
  /\ link \in [Ids -> LinkRecords]
  /\ loop \in [Loops -> LoopRecords]
  /\ kept \in [Ids -> Hosts \cup {NoHost}]
  /\ there \in [Hosts -> [compatible : BOOLEAN, launches : Nat, up : BOOLEAN]]

\* A loop that has not been stopped is the one its link would stop.
LiveIsCancellable ==
  \A l \in Loops : loop[l].live => loop[l].id \in Ids /\ link[loop[l].id].cancel = l /\ loop[l].pc # "none"

\* What a link would stop is a live loop of its own, and the machine is listed.
CancellableIsLive ==
  \A m \in Ids :
    /\ link[m].cancel # NoLoop => loop[link[m].cancel].live /\ loop[link[m].cancel].id = m /\ m \in listed
    /\ m \in listed => link[m].host \in Hosts

\* Endpoints belong to the link's own loop, which has published them and has not
\* returned.
SessionIsOwn ==
  \A m \in Ids : /\ link[m].session # NoLoop => link[m].session = link[m].cancel /\ loop[link[m].cancel].pc \in {"set", "up"}
                 /\ link[m].state = "online" => link[m].session # NoLoop /\ loop[link[m].cancel].pc = "up"

\* A live loop that has forwards has them to the link's host, and from the step
\* after the next on the link holds them.
ForwardsLeadHome ==
  \A l \in Loops : loop[l].live =>
    /\ loop[l].pc \in {"publish", "set", "up"} => loop[l].host = link[loop[l].id].host
    /\ loop[l].pc = "set" => link[loop[l].id].session = l

\* The inductive invariant of the links.
MachinesInv ==
  MachinesTypeOK /\ LiveIsCancellable /\ CancellableIsLive /\ SessionIsOwn /\ ForwardsLeadHome

\* What a step of one loop may do to its own link so that all the rest stays as it is: drop its session, go on
\* without one, publish one, or say online of the one it published.
LEMMA LoopKeeps ==
  ASSUME MachinesInv, MachinesTypeOK', listed' = listed, NEW l \in Loops,
         \A k \in Loops \ {l} : loop'[k] = loop[k],
         \A m \in Ids : link'[m].host = link[m].host /\ link'[m].cancel = link[m].cancel,
         \A m \in Ids : ~loop[l].live \/ m # loop[l].id => link'[m].session = link[m].session /\ link'[m].state = link[m].state,
         ~loop[l].live => ~loop'[l].live,
         loop[l].live =>
           LET m == loop[l].id IN
           /\ loop'[l].live /\ loop'[l].id = m /\ loop'[l].pc # "none"
           /\ \/ /\ loop'[l].pc \notin {"publish", "set", "up"}
                 /\ link'[m].session = NoLoop /\ link'[m].state # "online"
              \/ /\ loop[l].pc \notin {"set", "up"} /\ loop'[l].pc \notin {"set", "up"}
                 /\ loop'[l].pc = "publish" => loop'[l].host = link[m].host
                 /\ link'[m].session = link[m].session /\ link'[m].state = link[m].state
              \/ /\ loop[l].pc = "publish" /\ loop'[l].pc = "set" /\ loop'[l].host = loop[l].host
                 /\ link'[m].session = l /\ link'[m].state = link[m].state
              \/ /\ loop[l].pc = "set" /\ loop'[l].pc = "up" /\ loop'[l].host = loop[l].host
                 /\ link'[m].session = link[m].session
  PROVE  MachinesInv'
<1>1. LiveIsCancellable' /\ CancellableIsLive'
  <2>1. \A k \in Loops : (loop'[k].live <=> loop[k].live) /\ (loop[k].live => loop'[k].id = loop[k].id /\ loop'[k].pc # "none")
    BY DEF MachinesInv, LiveIsCancellable
  <2>2. LiveIsCancellable'
    BY <2>1 DEF MachinesInv, LiveIsCancellable
  <2>3. CancellableIsLive'
    BY <2>1 DEF MachinesInv, CancellableIsLive, MachinesTypeOK, LinkRecords
  <2> QED
    BY <2>2, <2>3
<1>2. CASE ~loop[l].live
  <2>1. SessionIsOwn'
    BY <1>1, <1>2, MachinesAssumption DEF MachinesInv, CancellableIsLive, SessionIsOwn, MachinesTypeOK, LinkRecords
  <2>2. ForwardsLeadHome'
    BY <1>1, <1>2 DEF MachinesInv, LiveIsCancellable, ForwardsLeadHome
  <2> QED
    BY <1>1, <2>1, <2>2 DEF MachinesInv
<1>3. CASE loop[l].live
  <2>1. PICK m \in Ids : m = loop[l].id
    BY <1>3 DEF MachinesInv, LiveIsCancellable
  <2>2. link[m].cancel = l /\ l # NoLoop
    BY <1>3, <2>1, MachinesAssumption DEF MachinesInv, LiveIsCancellable
  <2>3. \A n \in Ids \ {m} : link[n].cancel # l
    BY <2>1, <2>2, MachinesAssumption DEF MachinesInv, CancellableIsLive
  <2>4. SessionIsOwn'
    <3>1. ASSUME NEW n \in Ids \ {m} PROVE SessionIsOwn!(n)'
      BY <2>1, <2>3, <1>1, MachinesAssumption DEF MachinesInv, CancellableIsLive, SessionIsOwn, MachinesTypeOK, LinkRecords
    <3>2. SessionIsOwn!(m)'
      BY <1>3, <2>1, <2>2, MachinesAssumption DEF MachinesInv, SessionIsOwn, ForwardsLeadHome
    <3> QED
      BY <3>1, <3>2 DEF SessionIsOwn
  <2>5. ForwardsLeadHome'
    <3>1. ASSUME NEW k \in Loops \ {l}, loop'[k].live PROVE ForwardsLeadHome!(k)'
      BY <2>1, <2>2, <3>1, <1>1 DEF MachinesInv, LiveIsCancellable, ForwardsLeadHome
    <3>2. ForwardsLeadHome!(l)'
      BY <1>3, <2>1, <2>2 DEF MachinesInv, ForwardsLeadHome
    <3> QED
      BY <3>1, <3>2 DEF ForwardsLeadHome
  <2> QED
    BY <1>1, <2>4, <2>5 DEF MachinesInv
<1> QED
  BY <1>2, <1>3

\* A loop that becomes another record.
LEMMA LoopGoes ==
  ASSUME MachinesTypeOK, NEW l \in Loops, NEW r \in LoopRecords, loop' = [loop EXCEPT ![l] = r]
  PROVE  loop' \in [Loops -> LoopRecords] /\ loop'[l] = r /\ \A k \in Loops \ {l} : loop'[k] = loop[k]
BY DEF MachinesTypeOK

\* A loop that goes on to another step.
LEMMA ToGoes ==
  ASSUME MachinesTypeOK, NEW l \in Loops, NEW pc \in LoopStages, To(l, pc)
  PROVE  /\ loop' \in [Loops -> LoopRecords] /\ \A k \in Loops \ {l} : loop'[k] = loop[k]
         /\ loop'[l].pc = pc /\ loop'[l].id = loop[l].id /\ loop'[l].host = loop[l].host
         /\ loop'[l].live <=> loop[l].live
BY DEF MachinesTypeOK, To, LoopRecords

\* A loop that returns.
LEMMA ReturnedGoes ==
  ASSUME MachinesTypeOK, NEW l \in Loops, Returned(l)
  PROVE  loop' \in [Loops -> LoopRecords] /\ ~loop'[l].live /\ \A k \in Loops \ {l} : loop'[k] = loop[k]
<1>1. Idle \in LoopRecords /\ ~Idle.live
  BY DEF Idle, LoopRecords, LoopStages
<1> QED
  BY <1>1, LoopGoes DEF Returned

\* setState writes the link of a live loop only, and a state other than online takes the endpoints with it.
LEMMA SetGoes ==
  ASSUME MachinesTypeOK, LiveIsCancellable, NEW l \in Loops, NEW s \in States, Set(l, s)
  PROVE  /\ link' \in [Ids -> LinkRecords]
         /\ \A m \in Ids : link'[m].host = link[m].host /\ link'[m].cancel = link[m].cancel
         /\ \A m \in Ids : ~loop[l].live \/ m # loop[l].id => link'[m].session = link[m].session /\ link'[m].state = link[m].state
         /\ loop[l].live => /\ link'[loop[l].id].state = s
                            /\ link'[loop[l].id].session = IF s = "online" THEN link[loop[l].id].session ELSE NoLoop
<1>1. CASE ~loop[l].live
  BY <1>1 DEF Set, MachinesTypeOK
<1>2. CASE loop[l].live
  <2>1. PICK m \in Ids : m = loop[l].id
    BY <1>2 DEF LiveIsCancellable
  <2>2. PICK k \in Loops \cup {NoLoop} :
          /\ link' = [link EXCEPT ![m].state = s, ![m].session = k]
          /\ k = IF s = "online" THEN link[m].session ELSE NoLoop
    <3> DEFINE k == IF s = "online" THEN link[m].session ELSE NoLoop
    <3>1. k \in Loops \cup {NoLoop}
      BY DEF MachinesTypeOK, LinkRecords
    <3>2. link' = [link EXCEPT ![m].state = s, ![m].session = k]
      BY <1>2, <2>1 DEF Set, MachinesTypeOK
    <3> QED
      BY <3>1, <3>2
  <2>3. link'[m] = [link[m] EXCEPT !.state = s, !.session = k]
    BY <2>2 DEF MachinesTypeOK
  <2>4. link[m] \in LinkRecords
    BY DEF MachinesTypeOK
  <2>5. /\ link'[m] \in LinkRecords /\ link'[m].state = s /\ link'[m].session = k
        /\ link'[m].host = link[m].host /\ link'[m].cancel = link[m].cancel
    BY <2>3, <2>4 DEF LinkRecords
  <2>6. link' = [n \in Ids |-> IF n = m THEN link'[m] ELSE link[n]]
    BY <2>2 DEF MachinesTypeOK
  <2>7. link' \in [Ids -> LinkRecords] /\ \A n \in Ids \ {m} : link'[n] = link[n]
    BY <2>5, <2>6 DEF MachinesTypeOK
  <2> QED
    BY <1>2, <2>1, <2>2, <2>5, <2>7
<1> QED
  BY <1>1, <1>2

\* An attempt that fails tells its link so, or returns if it was stopped.
LEMMA FailsSafely ==
  ASSUME MachinesInv, NEW l \in Loops, NEW s \in States \ {"online"}, AttemptFails(l, s),
         UNCHANGED <<listed, kept>>, there' \in [Hosts -> [compatible : BOOLEAN, launches : Nat, up : BOOLEAN]]
  PROVE  MachinesInv'
<1>1. CASE ~loop[l].live
  <2>1. UNCHANGED link /\ Returned(l)
    BY <1>1 DEF AttemptFails
  <2>2. loop' \in [Loops -> LoopRecords] /\ ~loop'[l].live /\ \A k \in Loops \ {l} : loop'[k] = loop[k]
    BY <2>1, ReturnedGoes DEF MachinesInv
  <2>3. MachinesTypeOK'
    BY <2>1, <2>2 DEF MachinesInv, MachinesTypeOK
  <2> QED
    BY <1>1, <2>1, <2>2, <2>3, LoopKeeps
<1>2. CASE loop[l].live
  <2>1. PICK m \in Ids : m = loop[l].id
    BY <1>2 DEF MachinesInv, LiveIsCancellable
  <2>2. Set(l, s) /\ loop' = [loop EXCEPT ![l] = Running(m, "backoff")]
    BY <1>2, <2>1 DEF AttemptFails, MachinesInv, MachinesTypeOK
  <2>3. /\ Running(m, "backoff") \in LoopRecords /\ Running(m, "backoff").live
        /\ Running(m, "backoff").id = m /\ Running(m, "backoff").pc = "backoff"
    BY DEF Running, LoopRecords, LoopStages
  <2>4. loop' \in [Loops -> LoopRecords] /\ loop'[l] = Running(m, "backoff") /\ \A k \in Loops \ {l} : loop'[k] = loop[k]
    BY <2>2, <2>3, LoopGoes DEF MachinesInv
  <2>5. /\ link' \in [Ids -> LinkRecords]
        /\ \A n \in Ids : link'[n].host = link[n].host /\ link'[n].cancel = link[n].cancel
        /\ \A n \in Ids : n # m => link'[n].session = link[n].session /\ link'[n].state = link[n].state
        /\ link'[m].state = s /\ link'[m].session = NoLoop
    BY <1>2, <2>1, <2>2, SetGoes DEF MachinesInv
  <2>6. MachinesTypeOK'
    BY <2>4, <2>5 DEF MachinesInv, MachinesTypeOK
  <2> QED
    BY <1>2, <2>1, <2>3, <2>4, <2>5, <2>6, LoopKeeps
<1> QED
  BY <1>1, <1>2

\* The Companion on a host.
HostRecords == [compatible : BOOLEAN, launches : Nat, up : BOOLEAN]

\* A state that is not online, and on to the next step.
LEMMA SetsAndGoes ==
  ASSUME MachinesInv, NEW l \in Loops, NEW s \in States \ {"online"}, NEW pc \in LoopStages \ {"none", "publish", "set", "up"},
         Set(l, s), To(l, pc), UNCHANGED <<listed, kept, there>>
  PROVE  MachinesInv'
<1>1. /\ loop' \in [Loops -> LoopRecords] /\ \A k \in Loops \ {l} : loop'[k] = loop[k]
      /\ loop'[l].pc = pc /\ loop'[l].id = loop[l].id
      /\ loop'[l].live <=> loop[l].live
  BY ToGoes DEF MachinesInv
<1>2. /\ link' \in [Ids -> LinkRecords]
      /\ \A m \in Ids : link'[m].host = link[m].host /\ link'[m].cancel = link[m].cancel
      /\ \A m \in Ids : ~loop[l].live \/ m # loop[l].id => link'[m].session = link[m].session /\ link'[m].state = link[m].state
      /\ loop[l].live => link'[loop[l].id].state = s /\ link'[loop[l].id].session = NoLoop
  BY SetGoes DEF MachinesInv
<1>3. MachinesTypeOK'
  BY <1>1, <1>2 DEF MachinesInv, MachinesTypeOK
<1> QED
  BY <1>1, <1>2, <1>3, LoopKeeps

\* On to the next step without touching the link.
LEMMA OnlyGoes ==
  ASSUME MachinesInv, NEW l \in Loops, NEW pc \in LoopStages \ {"none", "publish", "set", "up"},
         loop[l].pc \notin {"set", "up"}, To(l, pc), UNCHANGED <<listed, kept, link>>, there' \in [Hosts -> HostRecords]
  PROVE  MachinesInv'
<1>1. /\ loop' \in [Loops -> LoopRecords] /\ \A k \in Loops \ {l} : loop'[k] = loop[k]
      /\ loop'[l].pc = pc /\ loop'[l].id = loop[l].id
      /\ loop'[l].live <=> loop[l].live
  BY ToGoes DEF MachinesInv
<1>2. MachinesTypeOK'
  BY <1>1 DEF MachinesInv, MachinesTypeOK, HostRecords
<1> QED
  BY <1>1, <1>2, LoopKeeps

\* A stopped loop returns.
LEMMA OnlyReturns ==
  ASSUME MachinesInv, NEW l \in Loops, ~loop[l].live, Returned(l), UNCHANGED <<listed, kept, link, there>>
  PROVE  MachinesInv'
<1>1. loop' \in [Loops -> LoopRecords] /\ ~loop'[l].live /\ \A k \in Loops \ {l} : loop'[k] = loop[k]
  BY ReturnedGoes DEF MachinesInv
<1>2. MachinesTypeOK'
  BY <1>1 DEF MachinesInv, MachinesTypeOK
<1> QED
  BY <1>1, <1>2, LoopKeeps

\* probe, whatever it learns.
LEMMA ProbesSafely ==
  ASSUME MachinesInv, NEW l \in Loops, NEW next \in LoopStages \ {"none", "publish", "set", "up"},
         loop[l].pc \notin {"set", "up"}, Probe(l, next), UNCHANGED <<listed, kept, there>>
  PROVE  MachinesInv'
<1>0. there' \in [Hosts -> HostRecords]
  BY DEF MachinesInv, MachinesTypeOK, HostRecords
<1>1. CASE AttemptFails(l, "error")
  BY <1>0, <1>1, FailsSafely DEF States, HostRecords
<1>2. CASE loop[l].live /\ ~AttemptFails(l, "error")
  <2>1. PICK m \in Ids : m = loop[l].id /\ link[m].cancel = l
    BY <1>2 DEF MachinesInv, LiveIsCancellable
  <2>2. link[m].host \in Hosts
    BY <2>1, MachinesAssumption DEF MachinesInv, CancellableIsLive
  <2>3. PICK c \in BOOLEAN, n \in Nat : loop' = [loop EXCEPT ![l].pc = next, ![l].compatible = c, ![l].control = n]
    BY <1>2, <2>1, <2>2 DEF Probe, HostOf, MachinesInv, MachinesTypeOK
  <2>4. loop[l] \in LoopRecords /\ loop'[l] = [loop[l] EXCEPT !.pc = next, !.compatible = c, !.control = n]
    BY <2>3 DEF MachinesInv, MachinesTypeOK
  <2>5. loop'[l] \in LoopRecords /\ loop'[l].pc = next /\ loop'[l].id = loop[l].id /\ loop'[l].live = loop[l].live
    BY <2>4 DEF LoopRecords
  <2>6. loop' = [loop EXCEPT ![l] = loop'[l]]
    BY <2>3 DEF MachinesInv, MachinesTypeOK
  <2>7. loop' \in [Loops -> LoopRecords] /\ \A k \in Loops \ {l} : loop'[k] = loop[k]
    BY <2>5, <2>6, LoopGoes DEF MachinesInv
  <2>8. link' = link
    BY <1>2 DEF Probe
  <2>9. MachinesTypeOK'
    BY <2>7, <2>8 DEF MachinesInv, MachinesTypeOK
  <2> QED
    BY <1>2, <2>5, <2>7, <2>8, <2>9, LoopKeeps
<1> QED
  BY <1>1, <1>2 DEF Probe

\* forward, to the host of the machine as it is read.
LEMMA ForwardsSafely ==
  ASSUME MachinesInv, NEW l \in Loops, loop[l].pc \notin {"set", "up"}, Forwarded(l), UNCHANGED <<listed, kept, there>>
  PROVE  MachinesInv'
<1>1. PICK m \in Ids : m = loop[l].id /\ link[m].cancel = l
  BY DEF MachinesInv, LiveIsCancellable, Forwarded
<1>2. link[m].host \in Hosts
  BY <1>1, MachinesAssumption DEF MachinesInv, CancellableIsLive
<1>3. loop' = [loop EXCEPT ![l].pc = "publish", ![l].host = link[m].host, ![l].compatible = FALSE, ![l].control = 0]
  BY <1>1 DEF Forwarded, HostOf
<1>4. loop[l] \in LoopRecords /\ loop'[l] = [loop[l] EXCEPT !.pc = "publish", !.host = link[m].host, !.compatible = FALSE, !.control = 0]
  BY <1>3 DEF MachinesInv, MachinesTypeOK
<1>5. PICK h \in Hosts : h = link[m].host
  BY <1>2
<1>6. /\ loop'[l] \in LoopRecords /\ loop'[l].pc = "publish" /\ loop'[l].id = loop[l].id /\ loop'[l].live = loop[l].live
      /\ loop'[l].host = h
  <2>1. /\ loop'[l] = [loop[l] EXCEPT !.pc = "publish", !.host = h, !.compatible = FALSE, !.control = 0]
        /\ "publish" \in LoopStages /\ loop[l] \in LoopRecords
    BY <1>4, <1>5 DEF LoopStages
  <2>2. loop'[l].pc = "publish" /\ loop'[l].id = loop[l].id /\ loop'[l].live = loop[l].live /\ loop'[l].host = h
    BY <2>1 DEF LoopRecords
  <2>3. loop'[l] = [id |-> loop[l].id, pc |-> "publish", live |-> loop[l].live, host |-> h,
                    compatible |-> FALSE, control |-> 0, asked |-> loop[l].asked]
    BY <2>1 DEF LoopRecords
  <2>4. loop[l].id \in Ids \cup {NoId} /\ loop[l].live \in BOOLEAN /\ loop[l].asked \in BOOLEAN
    BY <2>1 DEF LoopRecords
  <2>5. "publish" \in LoopStages /\ h \in Hosts
    BY <1>5, <2>1
  <2>6. loop'[l] \in LoopRecords
    BY <2>3, <2>4, <2>5 DEF LoopRecords
  <2> QED
    BY <2>2, <2>6
<1>7. loop' = [loop EXCEPT ![l] = loop'[l]]
  BY <1>3 DEF MachinesInv, MachinesTypeOK
<1>8. loop' \in [Loops -> LoopRecords] /\ \A k \in Loops \ {l} : loop'[k] = loop[k]
  BY <1>6, <1>7, LoopGoes DEF MachinesInv
<1>9. link' = link /\ loop[l].live
  BY DEF Forwarded
<1>10. MachinesTypeOK'
  BY <1>8, <1>9 DEF MachinesInv, MachinesTypeOK
<1> QED
  BY <1>1, <1>5, <1>6, <1>8, <1>9, <1>10, LoopKeeps

\* Every step of a connect loop keeps the invariant.
LEMMA LoopStepsKeep ==
  ASSUME MachinesInv, NEW l \in Loops, LoopStep(l)
  PROVE  MachinesInv'
<1>0. there \in [Hosts -> HostRecords]
  BY DEF MachinesInv, MachinesTypeOK, HostRecords
<1> USE DEF States, LoopStages
<1>1. CASE Begin(l)
  BY <1>1, SetsAndGoes DEF Begin
<1>2. CASE FirstProbe(l)
  BY <1>2, ProbesSafely DEF FirstProbe
<1>3. CASE Judge(l)
  <2>1. CASE loop[l].compatible
    BY <1>0, <1>3, <2>1, OnlyGoes DEF Judge
  <2>2. CASE ~loop[l].compatible
    BY <1>3, <2>2, SetsAndGoes DEF Judge, To
  <2> QED
    BY <2>1, <2>2
<1>4. CASE AwaitInstall(l)
  <2>1. CASE ~loop[l].live /\ Returned(l) /\ UNCHANGED link
    BY <1>4, <2>1, OnlyReturns DEF AwaitInstall
  <2>2. CASE /\ link' = [link EXCEPT ![loop[l].id].install = FALSE]
             /\ To(l, "clicked")
    <3>1. /\ link' \in [Ids -> LinkRecords]
          /\ \A m \in Ids : /\ link'[m].host = link[m].host /\ link'[m].cancel = link[m].cancel
                            /\ link'[m].session = link[m].session /\ link'[m].state = link[m].state
      BY <2>2 DEF MachinesInv, MachinesTypeOK, LinkRecords
    <3>2. /\ loop' \in [Loops -> LoopRecords] /\ \A k \in Loops \ {l} : loop'[k] = loop[k]
          /\ loop'[l].pc = "clicked" /\ loop'[l].id = loop[l].id
          /\ loop'[l].live <=> loop[l].live
      BY <2>2, ToGoes DEF MachinesInv
    <3>3. UNCHANGED <<listed, kept, there>> /\ loop[l].pc = "await"
      BY <1>4 DEF AwaitInstall
    <3>4. MachinesTypeOK'
      BY <3>1, <3>2, <3>3 DEF MachinesInv, MachinesTypeOK
    <3>5. loop[l].live => loop'[l].live /\ loop'[l].id = loop[l].id /\ loop[l].id \in Ids
      BY <3>2 DEF MachinesInv, LiveIsCancellable
    <3> QED
      BY <3>1, <3>2, <3>3, <3>4, <3>5, LoopKeeps
  <2> QED
    BY <1>4, <2>1, <2>2 DEF AwaitInstall
<1>5. CASE SetInstalling(l)
  BY <1>5, SetsAndGoes DEF SetInstalling
<1>6. CASE DoInstall(l)
  <2>1. there' \in [Hosts -> HostRecords]
    BY <1>0, <1>6 DEF DoInstall, HostRecords
  <2>2. CASE AttemptFails(l, "error")
    BY <1>6, <2>1, <2>2, FailsSafely DEF DoInstall, HostRecords
  <2>3. CASE To(l, "reprobe") /\ UNCHANGED link
    BY <1>6, <2>1, <2>3, OnlyGoes DEF DoInstall
  <2> QED
    BY <1>6, <2>2, <2>3 DEF DoInstall
<1>7. CASE ProbeInstalled(l)
  BY <1>7, ProbesSafely DEF ProbeInstalled
<1>8. CASE Rejudge(l)
  <2>1. CASE loop[l].compatible
    BY <1>0, <1>8, <2>1, OnlyGoes DEF Rejudge
  <2>2. CASE ~loop[l].compatible
    BY <1>0, <1>8, <2>2, FailsSafely DEF Rejudge, HostRecords
  <2> QED
    BY <2>1, <2>2
<1>9. CASE Bring(l)
  <2>1. CASE Forwarded(l)
    BY <1>9, <2>1, ForwardsSafely DEF Bring
  <2>2. CASE Set(l, "starting") /\ To(l, "start")
    BY <1>9, <2>2, SetsAndGoes DEF Bring
  <2>3. CASE AttemptFails(l, "error")
    BY <1>0, <1>9, <2>3, FailsSafely DEF Bring, HostRecords
  <2> QED
    BY <1>9, <2>1, <2>2, <2>3 DEF Bring
<1>10. CASE DoStart(l)
  <2>1. CASE AttemptFails(l, "error") /\ UNCHANGED there
    BY <1>0, <1>10, <2>1, FailsSafely DEF DoStart, HostRecords
  <2>2. CASE /\ there' = [there EXCEPT ![HostOf(l)].launches = @ + 1, ![HostOf(l)].up = TRUE]
             /\ loop[l].live /\ To(l, "restarted") /\ UNCHANGED link
    <3>1. PICK h \in Hosts : h = HostOf(l)
      BY <2>2, MachinesAssumption DEF HostOf, MachinesInv, LiveIsCancellable, CancellableIsLive
    <3>2. there[h].launches + 1 \in Nat
      BY <1>0 DEF HostRecords
    <3>3. there'[h] = [there[h] EXCEPT !.launches = there[h].launches + 1, !.up = TRUE]
      BY <1>0, <2>2, <3>1
    <3>4. there[h] \in HostRecords
      BY <1>0
    <3>5. there'[h] \in HostRecords
      BY <3>2, <3>3, <3>4 DEF HostRecords
    <3>6. there' = [g \in Hosts |-> IF g = h THEN there'[h] ELSE there[g]]
      BY <1>0, <2>2, <3>1
    <3>7. there' \in [Hosts -> HostRecords]
      BY <1>0, <3>5, <3>6
    <3> QED
      BY <1>10, <2>2, <3>7, OnlyGoes DEF DoStart
  <2> QED
    BY <1>10, <2>1, <2>2 DEF DoStart
<1>11. CASE ProbeStarted(l)
  BY <1>11, ProbesSafely DEF ProbeStarted
<1>12. CASE Rebring(l)
  <2>1. CASE Forwarded(l)
    BY <1>12, <2>1, ForwardsSafely DEF Rebring
  <2>2. CASE AttemptFails(l, "error")
    BY <1>0, <1>12, <2>2, FailsSafely DEF Rebring, HostRecords
  <2> QED
    BY <1>12, <2>1, <2>2 DEF Rebring
<1>13. CASE Publish(l)
  <2>1. /\ loop' \in [Loops -> LoopRecords] /\ \A k \in Loops \ {l} : loop'[k] = loop[k]
        /\ loop'[l].pc = "set" /\ loop'[l].id = loop[l].id /\ loop'[l].host = loop[l].host
        /\ loop'[l].live <=> loop[l].live
    BY <1>13, ToGoes DEF MachinesInv, Publish
  <2>2. loop[l].pc = "publish" /\ UNCHANGED <<listed, kept, there>>
    BY <1>13 DEF Publish
  <2>3. CASE ~loop[l].live
    <3>1. link' = link
      BY <1>13, <2>3 DEF Publish, PublishEndpoints
    <3>2. MachinesTypeOK'
      BY <2>1, <2>2, <3>1 DEF MachinesInv, MachinesTypeOK
    <3> QED
      BY <2>1, <2>2, <2>3, <3>1, <3>2, LoopKeeps
  <2>4. CASE loop[l].live
    <3>1. PICK m \in Ids : m = loop[l].id
      BY <2>4 DEF MachinesInv, LiveIsCancellable
    <3>2. link' = [link EXCEPT ![m].session = l]
      BY <1>13, <2>4, <3>1 DEF Publish, PublishEndpoints
    <3>3. /\ link' \in [Ids -> LinkRecords]
          /\ \A n \in Ids : /\ link'[n].host = link[n].host /\ link'[n].cancel = link[n].cancel
                            /\ link'[n].state = link[n].state /\ (n # m => link'[n].session = link[n].session)
          /\ link'[m].session = l
      BY <3>2 DEF MachinesInv, MachinesTypeOK, LinkRecords
    <3>4. MachinesTypeOK'
      BY <2>1, <2>2, <3>3 DEF MachinesInv, MachinesTypeOK
    <3> QED
      BY <2>1, <2>2, <2>4, <3>1, <3>3, <3>4, LoopKeeps
  <2> QED
    BY <2>3, <2>4
<1>14. CASE SetOnline(l)
  <2>1. /\ loop' \in [Loops -> LoopRecords] /\ \A k \in Loops \ {l} : loop'[k] = loop[k]
        /\ loop'[l].pc = "up" /\ loop'[l].id = loop[l].id /\ loop'[l].host = loop[l].host
        /\ loop'[l].live <=> loop[l].live
    BY <1>14, ToGoes DEF MachinesInv, SetOnline
  <2>2. loop[l].pc = "set" /\ UNCHANGED <<listed, kept, there>> /\ Set(l, "online")
    BY <1>14 DEF SetOnline
  <2>3. /\ link' \in [Ids -> LinkRecords]
        /\ \A m \in Ids : link'[m].host = link[m].host /\ link'[m].cancel = link[m].cancel
        /\ \A m \in Ids : ~loop[l].live \/ m # loop[l].id => link'[m].session = link[m].session /\ link'[m].state = link[m].state
        /\ loop[l].live => link'[loop[l].id].session = link[loop[l].id].session
    BY <2>2, SetGoes DEF MachinesInv
  <2>4. MachinesTypeOK'
    BY <2>1, <2>2, <2>3 DEF MachinesInv, MachinesTypeOK
  <2> QED
    BY <2>1, <2>2, <2>3, <2>4, LoopKeeps
<1>15. CASE Drops(l)
  BY <1>0, <1>15, FailsSafely DEF Drops, HostRecords
<1>16. CASE Backoff(l)
  <2>1. CASE loop[l].live
    BY <1>0, <1>16, <2>1, OnlyGoes DEF Backoff
  <2>2. CASE ~loop[l].live
    BY <1>16, <2>2, OnlyReturns DEF Backoff
  <2> QED
    BY <2>1, <2>2
<1> QED
  BY <1>1, <1>2, <1>3, <1>4, <1>5, <1>6, <1>7, <1>8, <1>9, <1>10, <1>11, <1>12, <1>13, <1>14, <1>15, <1>16 DEF LoopStep

\* What stopping a machine's loop does to the loops.
LEMMA CancelsLoops ==
  ASSUME MachinesInv, NEW m \in Ids, NEW loops, loops = Cancelled(m)
  PROVE  /\ loops \in [Loops -> LoopRecords]
         /\ \A k \in Loops : /\ loops[k].live <=> loop[k].live /\ loop[k].id # m
                             /\ loops[k].id = loop[k].id /\ loops[k].pc = loop[k].pc /\ loops[k].host = loop[k].host
<1>1. loop \in [Loops -> LoopRecords]
  BY DEF MachinesInv, MachinesTypeOK
<1>2. \A k \in Loops : loop[k].live /\ loop[k].id = m => k = link[m].cancel
  BY DEF MachinesInv, LiveIsCancellable
<1>3. CASE link[m].cancel = NoLoop
  BY <1>1, <1>2, <1>3, MachinesAssumption DEF Cancelled
<1>4. CASE link[m].cancel # NoLoop
  <2>1. PICK c \in Loops : c = link[m].cancel /\ loop[c].id = m
    BY <1>4 DEF MachinesInv, MachinesTypeOK, LinkRecords, CancellableIsLive
  <2>2. loops = [loop EXCEPT ![c].live = FALSE]
    BY <1>4, <2>1 DEF Cancelled
  <2>3. loops \in [Loops -> LoopRecords]
    BY <1>1, <2>2 DEF LoopRecords
  <2>4. /\ ~loops[c].live /\ loops[c].id = loop[c].id /\ loops[c].pc = loop[c].pc /\ loops[c].host = loop[c].host
        /\ \A k \in Loops \ {c} : loops[k] = loop[k]
    BY <1>1, <2>2 DEF LoopRecords
  <2> QED
    BY <1>2, <2>1, <2>3, <2>4
<1> QED
  BY <1>3, <1>4

\* A machine stopped, and perhaps removed or moved to another host.
LEMMA StopsLink ==
  ASSUME MachinesInv, NEW m \in Ids, NEW h \in Hosts \cup {NoHost}, loop' = Cancelled(m),
         link' = [link EXCEPT ![m] = StoppedAt(h, link[m])],
         listed' \in {listed, listed \ {m}}, m \in listed' => h \in Hosts,
         kept' \in [Ids -> Hosts \cup {NoHost}], there' = there
  PROVE  MachinesInv'
<1>1. /\ loop' \in [Loops -> LoopRecords]
      /\ \A k \in Loops : /\ loop'[k].live <=> loop[k].live /\ loop[k].id # m
                          /\ loop'[k].id = loop[k].id /\ loop'[k].pc = loop[k].pc /\ loop'[k].host = loop[k].host
  BY CancelsLoops
<1>2. link \in [Ids -> LinkRecords]
  BY DEF MachinesInv, MachinesTypeOK
<1>3. PICK r \in LinkRecords : /\ r = StoppedAt(h, link[m])
                               /\ r.state = "off" /\ r.session = NoLoop /\ r.cancel = NoLoop /\ r.host = h
  BY <1>2 DEF StoppedAt, LinkRecords, States
<1>4. link' \in [Ids -> LinkRecords] /\ link'[m] = r /\ \A n \in Ids \ {m} : link'[n] = link[n]
  BY <1>2, <1>3
<1>5. MachinesTypeOK'
  BY <1>1, <1>4 DEF MachinesInv, MachinesTypeOK
<1>6. LiveIsCancellable'
  BY <1>1, <1>3, <1>4 DEF MachinesInv, LiveIsCancellable
<1>7. CancellableIsLive'
  BY <1>1, <1>2, <1>3, <1>4, MachinesAssumption DEF MachinesInv, CancellableIsLive, LinkRecords
<1>8. SessionIsOwn'
  BY <1>1, <1>2, <1>3, <1>4, MachinesAssumption DEF MachinesInv, SessionIsOwn, LinkRecords
<1>9. ForwardsLeadHome'
  BY <1>1, <1>3, <1>4 DEF MachinesInv, LiveIsCancellable, ForwardsLeadHome
<1> QED
  BY <1>5, <1>6, <1>7, <1>8, <1>9 DEF MachinesInv

\* The link of a machine that starts to connect.
LEMMA ConnectingLink ==
  ASSUME NEW k, NEW l \in Loops, k.host \in Hosts, k.session = NoLoop, k.install \in BOOLEAN
  PROVE  /\ Connecting(k, l) \in LinkRecords /\ Connecting(k, l).state = "connecting" /\ Connecting(k, l).session = NoLoop
         /\ Connecting(k, l).cancel = l /\ Connecting(k, l).host \in Hosts
BY DEF Connecting, LinkRecords, States

\* A loop that has just been started.
LEMMA FreshLoop ==
  ASSUME NEW m \in Ids
  PROVE  Fresh(m) \in LoopRecords /\ Fresh(m).id = m /\ Fresh(m).pc = "begin" /\ Fresh(m).live
BY DEF Fresh, Running, LoopRecords, LoopStages

\* A machine that starts to connect, its earlier loop stopped.
LEMMA StartsLoop ==
  ASSUME MachinesInv, NEW m \in Ids, NEW k, NEW l \in Loops, NEW loops,
         loops \in [Loops -> LoopRecords],
         \A i \in Loops : /\ loops[i].live <=> loop[i].live /\ loop[i].id # m
                          /\ loops[i].id = loop[i].id /\ loops[i].pc = loop[i].pc /\ loops[i].host = loop[i].host,
         k.host \in Hosts, k.session = NoLoop, k.install \in BOOLEAN,
         Start(m, k, l, loops), listed' = listed \cup {m}, kept' \in [Ids -> Hosts \cup {NoHost}], there' = there
  PROVE  MachinesInv'
<1>1. link \in [Ids -> LinkRecords]
  BY DEF MachinesInv, MachinesTypeOK
<1>2. PICK r \in LinkRecords : /\ r = Connecting(k, l)
                               /\ r.state = "connecting" /\ r.session = NoLoop /\ r.cancel = l /\ r.host \in Hosts
  BY ConnectingLink
<1>3. link' \in [Ids -> LinkRecords] /\ link'[m] = r /\ \A n \in Ids \ {m} : link'[n] = link[n]
  BY <1>1, <1>2 DEF Start
<1>4. PICK f \in LoopRecords : f = Fresh(m) /\ f.id = m /\ f.pc = "begin" /\ f.live
  BY FreshLoop
<1>5. loop' \in [Loops -> LoopRecords] /\ loop'[l] = f /\ \A i \in Loops \ {l} : loop'[i] = loops[i]
  BY <1>4 DEF Start
<1>6. loop[l].pc = "none" /\ ~loop[l].live
  BY DEF Start, MachinesInv, LiveIsCancellable
<1>7. \A n \in Ids : link[n].cancel # l
  BY <1>6, MachinesAssumption DEF MachinesInv, CancellableIsLive
<1>8. MachinesTypeOK'
  BY <1>3, <1>5 DEF MachinesInv, MachinesTypeOK
<1>9. LiveIsCancellable'
  BY <1>2, <1>3, <1>4, <1>5 DEF MachinesInv, LiveIsCancellable
<1>10. CancellableIsLive'
  BY <1>1, <1>2, <1>3, <1>4, <1>5, <1>7, MachinesAssumption DEF MachinesInv, CancellableIsLive, LinkRecords
<1>11. SessionIsOwn'
  BY <1>1, <1>2, <1>3, <1>4, <1>5, <1>7, MachinesAssumption DEF MachinesInv, SessionIsOwn, LinkRecords
<1>12. ForwardsLeadHome'
  BY <1>2, <1>3, <1>4, <1>5 DEF MachinesInv, LiveIsCancellable, ForwardsLeadHome
<1> QED
  BY <1>8, <1>9, <1>10, <1>11, <1>12 DEF MachinesInv

\* A restart forgets every loop and starts one for each machine that was kept.
LEMMA RestartKeeps ==
  ASSUME MachinesInv, Restart
  PROVE  MachinesInv'
<1> DEFINE back == {m \in Ids : kept[m] # NoHost}
<1>1. PICK of \in [back -> Loops] :
        /\ \A m, n \in back : of[m] = of[n] => m = n
        /\ link' = [m \in Ids |-> IF m \in back THEN Connecting(NewLink(kept[m]), of[m]) ELSE NewLink(NoHost)]
        /\ loop' = [l \in Loops |-> IF \E m \in back : of[m] = l THEN Fresh(CHOOSE m \in back : of[m] = l) ELSE Idle]
  BY DEF Restart
<1>2. listed' = back /\ UNCHANGED <<kept, there>>
  BY DEF Restart
<1> HIDE DEF back
<1>3. /\ NewLink(NoHost) \in LinkRecords /\ NewLink(NoHost).cancel = NoLoop /\ NewLink(NoHost).session = NoLoop
      /\ NewLink(NoHost).state # "online"
  BY DEF NewLink, LinkRecords, States
<1>4. ASSUME NEW m \in back
      PROVE  /\ m \in Ids /\ link'[m] \in LinkRecords /\ link'[m].cancel = of[m] /\ link'[m].session = NoLoop
             /\ link'[m].state # "online" /\ link'[m].host \in Hosts
  <2>1. m \in Ids /\ kept[m] \in Hosts
    BY DEF back, MachinesInv, MachinesTypeOK
  <2>2. NewLink(kept[m]).host \in Hosts /\ NewLink(kept[m]).session = NoLoop /\ NewLink(kept[m]).install \in BOOLEAN
    BY <2>1 DEF NewLink
  <2>3. link'[m] = Connecting(NewLink(kept[m]), of[m])
    BY <1>1, <2>1
  <2> QED
    BY <2>1, <2>2, <2>3, ConnectingLink
<1>5. ASSUME NEW m \in Ids \ back PROVE link'[m] = NewLink(NoHost)
  BY <1>1
<1>6. Idle \in LoopRecords /\ ~Idle.live /\ Idle.pc = "none"
  BY DEF Idle, LoopRecords, LoopStages
<1>7. ASSUME NEW m \in back PROVE loop'[of[m]] = Fresh(m)
  <2>1. (CHOOSE n \in back : of[n] = of[m]) = m
    BY <1>1
  <2> QED
    BY <1>1, <2>1
<1>8. ASSUME NEW l \in Loops, ~\E m \in back : of[m] = l PROVE loop'[l] = Idle
  BY <1>1, <1>8
<1>9. ASSUME NEW m \in Ids PROVE Fresh(m) \in LoopRecords /\ Fresh(m).id = m /\ Fresh(m).pc = "begin" /\ Fresh(m).live
  BY FreshLoop
<1>10. link' \in [Ids -> LinkRecords]
  <2>1. \A m \in Ids : link'[m] \in LinkRecords
    BY <1>3, <1>4, <1>5
  <2> QED
    BY <1>1, <2>1
<1>11. loop' \in [Loops -> LoopRecords]
  <2>1. \A l \in Loops : loop'[l] \in LoopRecords
    BY <1>4, <1>6, <1>7, <1>8, <1>9
  <2> QED
    BY <1>1, <2>1
<1>12. MachinesTypeOK'
  BY <1>2, <1>10, <1>11 DEF MachinesInv, MachinesTypeOK, back
<1>13. \A l \in Loops : loop'[l].live => loop'[l].pc = "begin" /\ \E m \in back : of[m] = l /\ loop'[l].id = m
  BY <1>4, <1>6, <1>7, <1>8, <1>9
<1>14. LiveIsCancellable'
  BY <1>4, <1>13 DEF LiveIsCancellable
<1>15. CancellableIsLive'
  BY <1>2, <1>3, <1>4, <1>5, <1>7, <1>9 DEF CancellableIsLive
<1>16. SessionIsOwn' /\ ForwardsLeadHome'
  BY <1>3, <1>4, <1>5, <1>13 DEF SessionIsOwn, ForwardsLeadHome
<1> QED
  BY <1>12, <1>14, <1>15, <1>16 DEF MachinesInv

\* Online means the session of the loop that the link has now, to the host the machine has now: a loop that
\* was replaced may still come up, but setEndpoints and setState look at its context under the lock first.
THEOREM SessionsAreCurrent == MachinesSpec => []OnlineIsThisSession
<1>1. MachinesInit => MachinesInv
  <2> SUFFICES ASSUME MachinesInit PROVE MachinesInv
    OBVIOUS
  <2>1. /\ NewLink(NoHost) \in LinkRecords /\ NewLink(NoHost).cancel = NoLoop /\ NewLink(NoHost).session = NoLoop
        /\ NewLink(NoHost).state # "online"
    BY DEF NewLink, LinkRecords, States
  <2>2. Idle \in LoopRecords /\ ~Idle.live
    BY DEF Idle, LoopRecords, LoopStages
  <2>3. MachinesTypeOK
    BY <2>1, <2>2 DEF MachinesInit, MachinesTypeOK, Bare
  <2>4. LiveIsCancellable /\ CancellableIsLive /\ SessionIsOwn /\ ForwardsLeadHome
    BY <2>1, <2>2 DEF MachinesInit, LiveIsCancellable, CancellableIsLive, SessionIsOwn, ForwardsLeadHome
  <2> QED
    BY <2>3, <2>4 DEF MachinesInv
<1>2. MachinesInv /\ [MachinesNext]_machinesVars => MachinesInv'
  <2> SUFFICES ASSUME MachinesInv, [MachinesNext]_machinesVars PROVE MachinesInv'
    OBVIOUS
  <2>0. MachinesTypeOK /\ link \in [Ids -> LinkRecords] /\ loop \in [Loops -> LoopRecords]
    BY DEF MachinesInv, MachinesTypeOK
  <2>1. ASSUME NEW m \in Ids, NEW h \in Hosts, Add(m, h) PROVE MachinesInv'
    <3>1. PICK l \in Loops : Start(m, NewLink(h), l, loop)
      BY <2>1 DEF Add
    <3>2. \A i \in Loops : loop[i].live => loop[i].id # m
      BY <2>1 DEF Add
    <3>3. NewLink(h).host \in Hosts /\ NewLink(h).session = NoLoop /\ NewLink(h).install \in BOOLEAN
      BY DEF NewLink
    <3>4. listed' = listed \cup {m} /\ kept' \in [Ids -> Hosts \cup {NoHost}] /\ there' = there
      BY <2>0, <2>1 DEF Add, MachinesTypeOK
    <3> QED
      BY <2>0, <3>1, <3>2, <3>3, <3>4, StartsLoop
  <2>2. ASSUME NEW m \in Ids, NEW h \in Hosts, Update(m, h) PROVE MachinesInv'
    <3>1. m \in listed /\ listed' = listed /\ there' = there
      BY <2>2 DEF Update
    <3>2. CASE /\ kept' = [kept EXCEPT ![m] = h]
               /\ \E l \in Loops : Start(m, StoppedAt(h, link[m]), l, Cancelled(m))
      <4>1. PICK l \in Loops : Start(m, StoppedAt(h, link[m]), l, Cancelled(m))
        BY <3>2
      <4>2. link[m].install \in BOOLEAN
        BY <2>0 DEF LinkRecords
      <4>3. /\ StoppedAt(h, link[m]).host \in Hosts /\ StoppedAt(h, link[m]).session = NoLoop
            /\ StoppedAt(h, link[m]).install \in BOOLEAN
        BY <4>2 DEF StoppedAt
      <4>4. listed' = listed \cup {m} /\ kept' \in [Ids -> Hosts \cup {NoHost}]
        BY <2>0, <3>1, <3>2 DEF MachinesTypeOK
      <4>5. PICK loops : loops = Cancelled(m)
        OBVIOUS
      <4>6. /\ loops \in [Loops -> LoopRecords]
            /\ \A k \in Loops : /\ loops[k].live <=> loop[k].live /\ loop[k].id # m
                                /\ loops[k].id = loop[k].id /\ loops[k].pc = loop[k].pc /\ loops[k].host = loop[k].host
        BY <4>5, CancelsLoops
      <4> QED
        BY <3>1, <4>1, <4>3, <4>4, <4>5, <4>6, StartsLoop
    <3>3. CASE link' = [link EXCEPT ![m] = StoppedAt(h, link[m])] /\ loop' = Cancelled(m) /\ UNCHANGED kept
      BY <2>0, <3>1, <3>3, StopsLink DEF MachinesTypeOK
    <3> QED
      BY <2>2, <3>2, <3>3 DEF Update
  <2>3. ASSUME NEW m \in Ids, Remove(m) \/ Disconnect(m) PROVE MachinesInv'
    <3>1. link[m].host \in Hosts \cup {NoHost} /\ (m \in listed => link[m].host \in Hosts)
      BY <2>0 DEF LinkRecords, MachinesInv, CancellableIsLive
    <3>2. link' = [link EXCEPT ![m] = StoppedAt(link[m].host, link[m])] /\ loop' = Cancelled(m) /\ there' = there
      BY <2>0, <2>3 DEF Remove, Disconnect, Stopped
    <3>3. listed' \in {listed, listed \ {m}} /\ (m \in listed' => m \in listed)
      BY <2>3 DEF Remove, Disconnect
    <3>4. kept' \in [Ids -> Hosts \cup {NoHost}]
      BY <2>0, <2>3 DEF Remove, Disconnect, MachinesTypeOK
    <3> QED
      BY <3>1, <3>2, <3>3, <3>4, StopsLink
  <2>4. ASSUME NEW m \in Ids, Connect(m) PROVE MachinesInv'
    <3>1. PICK l \in Loops : Start(m, link[m], l, loop)
      BY <2>4 DEF Connect
    <3>2. m \in listed /\ link[m].cancel = NoLoop /\ UNCHANGED <<listed, kept, there>>
      BY <2>4 DEF Connect
    <3>3. \A i \in Loops : loop[i].live => loop[i].id # m
      BY <3>2, MachinesAssumption DEF MachinesInv, LiveIsCancellable
    <3>4. link[m].host \in Hosts /\ link[m].session = NoLoop /\ link[m].install \in BOOLEAN
      BY <2>0, <3>2 DEF MachinesInv, CancellableIsLive, SessionIsOwn, LinkRecords
    <3>5. listed' = listed \cup {m} /\ kept' \in [Ids -> Hosts \cup {NoHost}]
      BY <2>0, <3>2 DEF MachinesTypeOK
    <3> QED
      BY <2>0, <3>1, <3>2, <3>3, <3>4, <3>5, StartsLoop
  <2>5. ASSUME NEW m \in Ids, Install(m) PROVE MachinesInv'
    <3>1. /\ link' \in [Ids -> LinkRecords]
          /\ \A n \in Ids : /\ link'[n].host = link[n].host /\ link'[n].cancel = link[n].cancel
                            /\ link'[n].session = link[n].session /\ link'[n].state = link[n].state
      BY <2>0, <2>5 DEF Install, LinkRecords
    <3>2. PICK c : c = link[m].cancel
      OBVIOUS
    <3>3. loop' = [loop EXCEPT ![c].asked = TRUE]
      BY <2>5, <3>2 DEF Install
    <3>4. /\ loop' \in [Loops -> LoopRecords]
          /\ \A l \in Loops : /\ loop'[l].id = loop[l].id /\ loop'[l].pc = loop[l].pc /\ loop'[l].host = loop[l].host
                              /\ loop'[l].live = loop[l].live
      BY <2>0, <3>3 DEF LoopRecords
    <3>5. UNCHANGED <<listed, kept, there>>
      BY <2>5 DEF Install
    <3>6. MachinesTypeOK'
      BY <2>0, <3>1, <3>4, <3>5 DEF MachinesTypeOK
    <3>7. LiveIsCancellable' /\ CancellableIsLive'
      BY <2>0, <3>1, <3>4, <3>5, MachinesAssumption DEF MachinesInv, LiveIsCancellable, CancellableIsLive, LinkRecords
    <3>8. SessionIsOwn'
      BY <2>0, <3>1, <3>4, MachinesAssumption DEF MachinesInv, SessionIsOwn, LinkRecords
    <3>9. ForwardsLeadHome'
      BY <3>1, <3>4 DEF MachinesInv, LiveIsCancellable, ForwardsLeadHome
    <3> QED
      BY <3>6, <3>7, <3>8, <3>9 DEF MachinesInv
  <2>6. ASSUME NEW h \in Hosts, HostChanges(h) PROVE MachinesInv'
    <3>1. there' \in [Hosts -> HostRecords]
      BY <2>0, <2>6 DEF HostChanges, HostRecords, MachinesTypeOK
    <3>2. UNCHANGED <<listed, link, loop, kept>>
      BY <2>6 DEF HostChanges
    <3> QED
      BY <3>1, <3>2 DEF MachinesInv, MachinesTypeOK, LiveIsCancellable, CancellableIsLive, SessionIsOwn, ForwardsLeadHome, HostRecords
  <2>7. CASE UNCHANGED machinesVars
    BY <2>7 DEF machinesVars, MachinesInv, MachinesTypeOK, LiveIsCancellable, CancellableIsLive, SessionIsOwn, ForwardsLeadHome
  <2> QED
    BY <2>1, <2>2, <2>3, <2>4, <2>5, <2>6, <2>7, RestartKeeps, LoopStepsKeep DEF MachinesNext
<1>3. MachinesInv => OnlineIsThisSession
  BY MachinesAssumption DEF MachinesInv, MachinesTypeOK, LinkRecords, CancellableIsLive, SessionIsOwn, ForwardsLeadHome, OnlineIsThisSession
<1> QED
  BY <1>1, <1>2, <1>3, PTL DEF MachinesSpec

-----------------------------------------------------------------------------
(* Router: which machine a call goes to. *)

\* A machine, or none.
Anywhere == Computers \cup {Nowhere}

\* The steps of a request.
RequestStages == {"none", "look", "task", "stand", "ask", "store", "found", "miss", "settle", "settleList",
                  "settleForward", "relist", "offer", "online", "forward", "sent", "done"}

\* A request on its way through the router.
RequestRecords ==
  [pc : RequestStages, kind : {"none", "use", "run", "status", "list"}, folder : SharedFolders \cup {Nowhere},
   task : Runs \cup {Nowhere}, machine : Anywhere, wait : SUBSET Computers, found : [SharedFolders -> Anywhere],
   flag : Anywhere, out : {"none", "waited", "local", "unavailable", "answered"}]

\* The types of the state.
RouterTypeOK ==
  /\ configured \subseteq Computers
  /\ shares \in [SharedFolders -> Computers]
  /\ standing \in Anywhere /\ flagged \in Anywhere
  /\ owner \in [SharedFolders -> Anywhere]
  /\ tasksAt \in [Runs -> Anywhere] /\ runsAt \in [Runs -> Anywhere] /\ aged \subseteq Runs
  /\ req \in [Requests -> RequestRecords]

\* The machine a request belongs on.
Home(q) == IF q.kind = "status" THEN runsAt[q.task] ELSE shares[q.folder]

\* What the request is about decides the steps it takes; from the lookup on it
\* carries the machine it belongs on.
RequestOK(q) ==
  /\ q.pc = "none" <=> q.kind = "none"
  /\ q.kind = "status" => /\ q.task \in Runs /\ runsAt[q.task] # Nowhere
                          /\ q.pc \in {"task", "online", "forward", "settleForward", "sent", "done"}
                          /\ q.pc = "task" => q.machine = Nowhere
  /\ q.kind \in {"use", "run"} => /\ q.folder \in SharedFolders
                                  /\ q.pc \notin {"task", "stand", "settleList", "relist", "offer"}
  /\ q.kind = "list" => q.pc \in {"stand", "settleList", "relist", "ask", "store", "offer", "done"}
  /\ q.pc \in {"online", "forward", "settleForward", "sent"} => q.machine = Home(q)
  /\ q.kind = "status" /\ q.pc = "done" /\ q.machine # Nowhere /\ q.machine \in configured => q.out # "local"
  /\ \A f \in SharedFolders : q.found[f] \in {Nowhere, shares[f]}

\* The inductive invariant of the router: what it remembers is where things are, unless it was purged.
RouterInv ==
  /\ RouterTypeOK
  /\ \A f \in SharedFolders : owner[f] \in {Nowhere, shares[f]}
  /\ \A t \in Runs : /\ tasksAt[t] \in {Nowhere, runsAt[t]}
                     /\ t \notin aged => tasksAt[t] = runsAt[t]
  /\ \A r \in Requests : RequestOK(req[r])

\* A step of one request that touches nothing the router remembers.
LEMMA RequestStep ==
  ASSUME RouterInv, NEW r \in Requests, NEW q \in RequestRecords, req' = [req EXCEPT ![r] = q], RequestOK(q),
         standing' \in Anywhere, flagged' \in Anywhere,
         UNCHANGED <<configured, shares, owner, tasksAt, aged, runsAt>>
  PROVE  RouterInv'
<1>1. req' \in [Requests -> RequestRecords] /\ req'[r] = q /\ \A s \in Requests \ {r} : req'[s] = req[s]
  BY DEF RouterInv, RouterTypeOK
<1>2. RouterTypeOK'
  BY <1>1 DEF RouterInv, RouterTypeOK
<1>3. \A s \in Requests : RequestOK(req'[s])
  BY <1>1 DEF RouterInv
<1>4. \A s \in Requests : RequestOK(req[s])'
  BY <1>3 DEF RequestOK, Home
<1> QED
  BY <1>2, <1>4 DEF RouterInv

\* The steps a request of a kind may go on to.
StepsOf(kind) ==
  CASE kind = "status" -> {"online", "forward", "settleForward", "sent"}
    [] kind = "list" -> {"settleList", "relist", "ask", "store", "offer"}
    [] kind \in {"use", "run"} -> {"ask", "store", "found", "miss", "settle", "online", "forward", "settleForward", "sent"}
    [] OTHER -> {}

\* A request that goes on with the machine it belongs on.
LEMMA GoesOn ==
  ASSUME RouterInv, NEW r \in Requests, NEW q \in RequestRecords, req' = [req EXCEPT ![r] = q],
         q.kind = req[r].kind, q.folder = req[r].folder, q.task = req[r].task,
         q.pc \in StepsOf(q.kind), q.pc \in {"online", "forward", "settleForward", "sent"} => q.machine = Home(req[r]),
         \A f \in SharedFolders : q.found[f] \in {Nowhere, shares[f]},
         standing' \in Anywhere, flagged' \in Anywhere,
         UNCHANGED <<configured, shares, owner, tasksAt, aged, runsAt>>
  PROVE  RouterInv'
<1>1. RequestOK(req[r])
  BY DEF RouterInv
<1>2. CASE q.kind = "status"
  BY <1>1, <1>2, RequestStep DEF RequestOK, Home, StepsOf
<1>3. CASE q.kind = "list"
  BY <1>1, <1>3, RequestStep DEF RequestOK, Home, StepsOf
<1>4. CASE q.kind \in {"use", "run"}
  BY <1>1, <1>4, RequestStep DEF RequestOK, Home, StepsOf
<1> QED
  BY <1>2, <1>3, <1>4 DEF StepsOf, RequestRecords

\* The same, changing only where it stands.
LEMMA OnlyGoesOn ==
  ASSUME RouterInv, NEW r \in Requests, NEW pc \in RequestStages, Go(r, pc),
         pc \in StepsOf(req[r].kind), pc \in {"online", "forward", "settleForward", "sent"} => req[r].machine = Home(req[r]),
         standing' \in Anywhere, flagged' \in Anywhere,
         UNCHANGED <<configured, shares, owner, tasksAt, aged, runsAt>>
  PROVE  RouterInv'
<1>1. req \in [Requests -> RequestRecords] /\ req[r] \in RequestRecords /\ RequestOK(req[r])
  BY DEF RouterInv, RouterTypeOK
<1>2. PICK q : q = [req[r] EXCEPT !.pc = pc]
  OBVIOUS
<1>3. /\ q \in RequestRecords /\ q.pc = pc /\ q.kind = req[r].kind /\ q.folder = req[r].folder /\ q.task = req[r].task
      /\ q.machine = req[r].machine /\ q.found = req[r].found
  BY <1>1, <1>2 DEF RequestRecords
<1>4. req' = [req EXCEPT ![r] = q]
  BY <1>1, <1>2 DEF Go
<1>5. \A f \in SharedFolders : q.found[f] \in {Nowhere, shares[f]}
  BY <1>1, <1>3 DEF RequestOK
<1> QED
  BY <1>3, <1>4, <1>5, GoesOn

\* A request that is answered.
LEMMA AnsweredStep ==
  ASSUME RouterInv, NEW r \in Requests, NEW out \in {"local", "unavailable", "answered"},
         NEW flag \in Anywhere, req' = [req EXCEPT ![r] = Done(req[r], flag, out)],
         req[r].kind # "none",
         req[r].kind = "status" /\ req[r].machine # Nowhere /\ req[r].machine \in configured => out # "local",
         standing' \in Anywhere, flagged' \in Anywhere,
         UNCHANGED <<configured, shares, owner, tasksAt, aged, runsAt>>
  PROVE  RouterInv'
<1>1. req[r] \in RequestRecords /\ RequestOK(req[r])
  BY DEF RouterInv, RouterTypeOK
<1>2. PICK q : q = Done(req[r], flag, out)
  OBVIOUS
<1>3. /\ q.pc = "done" /\ q.kind = req[r].kind /\ q.folder = req[r].folder /\ q.task = req[r].task
      /\ q.machine = req[r].machine /\ q.out = out /\ q.found = NoOwners
  BY <1>2 DEF Done
<1>4. q \in RequestRecords
  <2>1. NoOwners \in [SharedFolders -> Anywhere] /\ "done" \in RequestStages
    BY DEF NoOwners, Anywhere, RequestStages
  <2>2. /\ req[r].kind \in {"none", "use", "run", "status", "list"} /\ req[r].folder \in SharedFolders \cup {Nowhere}
        /\ req[r].task \in Runs \cup {Nowhere} /\ req[r].machine \in Anywhere
    BY <1>1 DEF RequestRecords
  <2> QED
    BY <1>2, <2>1, <2>2 DEF Done, RequestRecords
<1>5. RequestOK(q)
  BY <1>1, <1>3 DEF RequestOK, Home, NoOwners
<1> QED
  BY <1>2, <1>4, <1>5, RequestStep

\* A request whose machine was found.
LEMMA FoundStep ==
  ASSUME RouterInv, NEW r \in Requests, NEW m \in Anywhere, req' = [req EXCEPT ![r].pc = "online", ![r].machine = m],
         "online" \in StepsOf(req[r].kind), m = Home(req[r]),
         standing' \in Anywhere, flagged' \in Anywhere,
         UNCHANGED <<configured, shares, owner, tasksAt, aged, runsAt>>
  PROVE  RouterInv'
<1>1. req \in [Requests -> RequestRecords] /\ req[r] \in RequestRecords /\ RequestOK(req[r])
  BY DEF RouterInv, RouterTypeOK
<1>2. PICK q : q = [req[r] EXCEPT !.pc = "online", !.machine = m]
  OBVIOUS
<1>3. /\ q \in RequestRecords /\ q.pc = "online" /\ q.kind = req[r].kind /\ q.folder = req[r].folder /\ q.task = req[r].task
      /\ q.machine = m /\ q.found = req[r].found
  BY <1>1, <1>2 DEF RequestRecords, RequestStages
<1>4. req' = [req EXCEPT ![r] = q]
  BY <1>1, <1>2
<1>5. \A f \in SharedFolders : q.found[f] \in {Nowhere, shares[f]}
  BY <1>1, <1>3 DEF RequestOK
<1> QED
  BY <1>3, <1>4, <1>5, GoesOn

\* A request that waits for machines to settle.
LEMMA WaitStep ==
  ASSUME RouterInv, NEW r \in Requests, NEW pc \in {"settle", "settleList", "settleForward"}, NEW wait \in SUBSET Computers,
         req' = [req EXCEPT ![r].pc = pc, ![r].wait = wait],
         pc \in StepsOf(req[r].kind), pc = "settleForward" => req[r].machine = Home(req[r]),
         standing' \in Anywhere, flagged' \in Anywhere,
         UNCHANGED <<configured, shares, owner, tasksAt, aged, runsAt>>
  PROVE  RouterInv'
<1>1. req \in [Requests -> RequestRecords] /\ req[r] \in RequestRecords /\ RequestOK(req[r]) /\ pc \in RequestStages
  BY DEF RouterInv, RouterTypeOK, RequestStages
<1>2. PICK q : q = [req[r] EXCEPT !.pc = pc, !.wait = wait]
  OBVIOUS
<1>3. /\ q \in RequestRecords /\ q.pc = pc /\ q.kind = req[r].kind /\ q.folder = req[r].folder /\ q.task = req[r].task
      /\ q.machine = req[r].machine /\ q.found = req[r].found
  BY <1>1, <1>2 DEF RequestRecords
<1>4. req' = [req EXCEPT ![r] = q]
  BY <1>1, <1>2
<1>5. \A f \in SharedFolders : q.found[f] \in {Nowhere, shares[f]}
  BY <1>1, <1>3 DEF RequestOK
<1> QED
  BY <1>3, <1>4, <1>5, GoesOn

\* A request that has asked the machines for their folders.
LEMMA ListStep ==
  ASSUME RouterInv, NEW r \in Requests, NEW found \in [SharedFolders -> Anywhere], NEW flag \in Anywhere,
         req' = [req EXCEPT ![r].pc = "store", ![r].found = found, ![r].flag = flag],
         \A f \in SharedFolders : found[f] \in {Nowhere, shares[f]}, "store" \in StepsOf(req[r].kind),
         standing' \in Anywhere, flagged' \in Anywhere,
         UNCHANGED <<configured, shares, owner, tasksAt, aged, runsAt>>
  PROVE  RouterInv'
<1>1. req \in [Requests -> RequestRecords] /\ "store" \in RequestStages
  BY DEF RouterInv, RouterTypeOK, RequestStages
<1>2. req'[r] = [req[r] EXCEPT !.pc = "store", !.found = found, !.flag = flag] /\ req[r] \in RequestRecords
  BY <1>1
<1>3. /\ req'[r] \in RequestRecords /\ req'[r].pc = "store" /\ req'[r].kind = req[r].kind /\ req'[r].folder = req[r].folder
      /\ req'[r].task = req[r].task /\ req'[r].found = found
  BY <1>1, <1>2 DEF RequestRecords
<1>4. req' = [req EXCEPT ![r] = req'[r]]
  BY <1>1
<1>5. /\ req'[r].pc \in StepsOf(req'[r].kind) /\ req'[r].pc \notin {"online", "forward", "settleForward", "sent"}
      /\ \A f \in SharedFolders : req'[r].found[f] \in {Nowhere, shares[f]}
  BY <1>3
<1>6. PICK q \in RequestRecords : q = req'[r]
  BY <1>3
<1> QED
  BY <1>3, <1>4, <1>5, <1>6, GoesOn

\* A request that has just arrived.
LEMMA NewRequest ==
  ASSUME NEW pc \in RequestStages, NEW kind \in {"none", "use", "run", "status", "list"},
         NEW f \in SharedFolders \cup {Nowhere}, NEW t \in Runs \cup {Nowhere}
  PROVE  /\ Asks(pc, kind, f, t) \in RequestRecords
         /\ LET q == Asks(pc, kind, f, t) IN
            /\ q.pc = pc /\ q.kind = kind /\ q.folder = f /\ q.task = t /\ q.machine = Nowhere
            /\ \A g \in SharedFolders : q.found[g] = Nowhere
<1>1. NoOwners \in [SharedFolders -> Anywhere] /\ \A g \in SharedFolders : NoOwners[g] = Nowhere
  BY DEF NoOwners, Anywhere
<1> QED
  BY <1>1 DEF Asks, RequestRecords, Anywhere

\* A task_status is sent to the machine that runs the task, or answered here only if none does: remember files
\* a task under the machine its answer came from, and purge drops it only once it is past asking.
THEOREM TasksAreAskedForAtHome == RouterSpec => []TasksStayHome
<1>1. RouterInit => RouterInv
  <2> SUFFICES ASSUME RouterInit PROVE RouterInv
    OBVIOUS
  <2>1. /\ Quiet \in RequestRecords /\ Quiet.pc = "none" /\ Quiet.kind = "none"
        /\ \A g \in SharedFolders : Quiet.found[g] = Nowhere
    BY NewRequest DEF Quiet, RequestStages
  <2>2. RouterTypeOK
    BY <2>1 DEF RouterInit, RouterTypeOK, Anywhere
  <2>3. RequestOK(Quiet)
    BY <2>1 DEF RequestOK
  <2> QED
    BY <2>2, <2>3 DEF RouterInit, RouterInv
<1>2. RouterInv /\ [RouterNext]_routerVars => RouterInv'
  <2> SUFFICES ASSUME RouterInv, [RouterNext]_routerVars PROVE RouterInv'
    OBVIOUS
  <2>0. /\ RouterTypeOK /\ req \in [Requests -> RequestRecords] /\ standing \in Anywhere /\ flagged \in Anywhere
        /\ \A r \in Requests : req[r] \in RequestRecords /\ RequestOK(req[r])
    BY DEF RouterInv, RouterTypeOK
  <2>1. ASSUME NEW m \in Computers, LinkChanges(m) PROVE RouterInv'
    BY <2>1 DEF LinkChanges, RouterInv, RouterTypeOK, RequestOK, Home
  <2>2. ASSUME NEW m \in Computers, Forget(m) PROVE RouterInv'
    BY <2>2 DEF Forget, RouterInv, RouterTypeOK, RequestOK, Home, Anywhere
  <2>3. ASSUME NEW m \in Computers \cup {Nowhere}, Stand(m) PROVE RouterInv'
    BY <2>3 DEF Stand, RouterInv, RouterTypeOK, RequestOK, Home, Anywhere
  <2>4. CASE Expire
    BY <2>4 DEF Expire, RouterInv, RouterTypeOK, RequestOK, Home
  <2>5. ASSUME NEW t \in Runs, Age(t) PROVE RouterInv'
    BY <2>5 DEF Age, RouterInv, RouterTypeOK, RequestOK, Home
  <2>6. ASSUME NEW r \in Requests, Arrives(r) PROVE RouterInv'
    <3>1. UNCHANGED <<configured, standing, flagged, shares, owner, tasksAt, aged, runsAt>>
      BY <2>6 DEF Arrives
    <3>2. ASSUME NEW f \in SharedFolders, NEW k \in {"use", "run"}, req' = [req EXCEPT ![r] = Asks("look", k, f, Nowhere)]
          PROVE  RouterInv'
      <4>1. PICK q \in RequestRecords : /\ q = Asks("look", k, f, Nowhere) /\ q.pc = "look" /\ q.kind = k /\ q.folder = f
                                        /\ \A g \in SharedFolders : q.found[g] = Nowhere
        BY NewRequest DEF RequestStages
      <4>2. RequestOK(q)
        BY <4>1 DEF RequestOK
      <4> QED
        BY <2>0, <3>1, <3>2, <4>1, <4>2, RequestStep
    <3>3. ASSUME NEW t \in Runs, runsAt[t] # Nowhere, req' = [req EXCEPT ![r] = Asks("task", "status", Nowhere, t)]
          PROVE  RouterInv'
      <4>1. PICK q \in RequestRecords : /\ q = Asks("task", "status", Nowhere, t) /\ q.pc = "task" /\ q.kind = "status"
                                        /\ q.task = t /\ q.machine = Nowhere
                                        /\ \A g \in SharedFolders : q.found[g] = Nowhere
        BY NewRequest DEF RequestStages
      <4>2. RequestOK(q)
        BY <3>3, <4>1 DEF RequestOK
      <4> QED
        BY <2>0, <3>1, <3>3, <4>1, <4>2, RequestStep
    <3>4. ASSUME req' = [req EXCEPT ![r] = Asks("stand", "list", Nowhere, Nowhere)]
          PROVE  RouterInv'
      <4>1. PICK q \in RequestRecords : /\ q = Asks("stand", "list", Nowhere, Nowhere) /\ q.pc = "stand" /\ q.kind = "list"
                                        /\ \A g \in SharedFolders : q.found[g] = Nowhere
        BY NewRequest DEF RequestStages
      <4>2. RequestOK(q)
        BY <4>1 DEF RequestOK
      <4> QED
        BY <2>0, <3>1, <3>4, <4>1, <4>2, RequestStep
    <3> QED
      BY <2>6, <3>2, <3>3, <3>4 DEF Arrives
  <2> USE DEF RequestStages
  <2>7. ASSUME NEW r \in Requests, TaskOwner(r) PROVE RouterInv'
    <3>1. UNCHANGED <<configured, standing, flagged, shares, owner, tasksAt, aged, runsAt>> /\ req[r].pc = "task"
      BY <2>7 DEF TaskOwner
    <3>2. req[r].kind = "status" /\ req[r].machine = Nowhere /\ req[r].task \in Runs
      BY <2>0, <3>1 DEF RequestOK, RequestRecords
    <3>3. CASE tasksAt[req[r].task] = Nowhere
      BY <2>0, <2>7, <3>1, <3>2, <3>3, AnsweredStep DEF TaskOwner, Answered, Anywhere
    <3>4. CASE tasksAt[req[r].task] # Nowhere
      <4>1. PICK m \in Anywhere : m = tasksAt[req[r].task] /\ m = Home(req[r])
        BY <3>2, <3>4 DEF RouterInv, RouterTypeOK, Home
      <4>2. req' = [req EXCEPT ![r].pc = "online", ![r].machine = m]
        BY <2>7, <3>4, <4>1 DEF TaskOwner
      <4> QED
        BY <2>0, <3>1, <3>2, <4>1, <4>2, FoundStep DEF StepsOf
    <3> QED
      BY <3>3, <3>4
  <2>8. ASSUME NEW r \in Requests, Look(r) PROVE RouterInv'
    <3>1. UNCHANGED <<configured, standing, flagged, shares, owner, tasksAt, aged, runsAt>> /\ req[r].pc = "look"
      BY <2>8 DEF Look
    <3>2. req[r].kind \in {"use", "run"} /\ req[r].folder \in SharedFolders
      BY <2>0, <3>1 DEF RequestOK, RequestRecords
    <3>3. CASE owner[req[r].folder] = Nowhere
      BY <2>0, <2>8, <3>1, <3>2, <3>3, OnlyGoesOn DEF Look, StepsOf
    <3>4. CASE owner[req[r].folder] # Nowhere
      <4>1. PICK m \in Anywhere : m = owner[req[r].folder] /\ m = Home(req[r])
        BY <3>2, <3>4 DEF RouterInv, RouterTypeOK, Home
      <4>2. req' = [req EXCEPT ![r].pc = "online", ![r].machine = m]
        BY <2>8, <3>4, <4>1 DEF Look
      <4> QED
        BY <2>0, <3>1, <3>2, <4>1, <4>2, FoundStep DEF StepsOf
    <3> QED
      BY <3>3, <3>4
  <2>9. ASSUME NEW r \in Requests, Ask(r) PROVE RouterInv'
    <3>1. UNCHANGED <<configured, standing, flagged, shares, owner, tasksAt, aged, runsAt>> /\ req[r].pc = "ask"
      BY <2>9 DEF Ask
    <3>2. req[r].kind \in {"use", "run", "list"}
      BY <2>0, <3>1 DEF RequestOK, RequestRecords
    <3>3. PICK answering \in SUBSET Online :
            req' = [req EXCEPT ![r].pc = "store",
                      ![r].found = [f \in SharedFolders |-> IF shares[f] \in answering THEN shares[f] ELSE Nowhere],
                      ![r].flag = IF standing \in answering THEN standing ELSE Nowhere]
      BY <2>9 DEF Ask
    <3>4. PICK found \in [SharedFolders -> Anywhere], flag \in Anywhere :
            /\ req' = [req EXCEPT ![r].pc = "store", ![r].found = found, ![r].flag = flag]
            /\ \A f \in SharedFolders : found[f] \in {Nowhere, shares[f]}
      <4> DEFINE found == [f \in SharedFolders |-> IF shares[f] \in answering THEN shares[f] ELSE Nowhere]
                 flag == IF standing \in answering THEN standing ELSE Nowhere
      <4>1. found \in [SharedFolders -> Anywhere] /\ flag \in Anywhere
        BY <2>0 DEF RouterTypeOK, Anywhere
      <4>2. \A f \in SharedFolders : found[f] \in {Nowhere, shares[f]}
        OBVIOUS
      <4> HIDE DEF found, flag
      <4> QED
        BY <3>3, <4>1, <4>2 DEF found, flag
    <3> QED
      BY <2>0, <3>1, <3>2, <3>4, ListStep DEF StepsOf
  <2>10. ASSUME NEW r \in Requests, Store(r) PROVE RouterInv'
    <3>1. /\ UNCHANGED <<configured, standing, shares, tasksAt, aged, runsAt>> /\ req[r].pc = "store"
          /\ owner' = req[r].found /\ flagged' = req[r].flag
      BY <2>10 DEF Store
    <3>2. req[r].kind \in {"use", "run", "list"}
      BY <2>0, <3>1 DEF RequestOK, RequestRecords
    <3>3. PICK pc \in {"offer", "found"} :
            /\ pc = IF req[r].kind = "list" THEN "offer" ELSE "found"
            /\ req' = [req EXCEPT ![r].pc = pc, ![r].found = NoOwners, ![r].flag = Nowhere]
      BY <2>10 DEF Store
    <3>4. req[r].found \in [SharedFolders -> Anywhere] /\ req[r].flag \in Anywhere
      BY <2>0 DEF RequestRecords
    <3>5. \A f \in SharedFolders : req[r].found[f] \in {Nowhere, shares[f]}
      BY <2>0 DEF RequestOK
    <3>6. NoOwners \in [SharedFolders -> Anywhere] /\ \A f \in SharedFolders : NoOwners[f] = Nowhere
      BY DEF NoOwners, Anywhere
    <3>7. PICK q \in RequestRecords : /\ req' = [req EXCEPT ![r] = q]
                                      /\ q.pc = pc /\ q.kind = req[r].kind /\ q.folder = req[r].folder /\ q.task = req[r].task
                                      /\ q.found = NoOwners
      <4>1. req'[r] = [req[r] EXCEPT !.pc = pc, !.found = NoOwners, !.flag = Nowhere] /\ req[r] \in RequestRecords
        BY <2>0, <3>3
      <4>2. pc \in RequestStages /\ Nowhere \in Anywhere
        BY DEF Anywhere
      <4> HIDE DEF RequestStages
      <4>3. /\ req'[r] \in RequestRecords /\ req'[r].pc = pc /\ req'[r].kind = req[r].kind /\ req'[r].folder = req[r].folder
            /\ req'[r].task = req[r].task /\ req'[r].found = NoOwners
        BY <3>6, <4>1, <4>2 DEF RequestRecords
      <4>4. req' = [req EXCEPT ![r] = req'[r]]
        BY <2>0, <3>3
      <4> QED
        BY <4>3, <4>4
    <3>8. RequestOK(q)
      BY <2>0, <3>2, <3>3, <3>6, <3>7 DEF RequestOK
    <3>9. req' \in [Requests -> RequestRecords] /\ req'[r] = q /\ \A s \in Requests \ {r} : req'[s] = req[s]
      BY <2>0, <3>7
    <3>10. RouterTypeOK'
      BY <2>0, <3>1, <3>4, <3>9 DEF RouterTypeOK
    <3>11. \A s \in Requests : RequestOK(req'[s])
      BY <2>0, <3>8, <3>9
    <3>12. \A s \in Requests : RequestOK(req[s])'
      BY <3>1, <3>11 DEF RequestOK, Home
    <3> QED
      BY <3>1, <3>5, <3>10, <3>12 DEF RouterInv
  <2>11. ASSUME NEW r \in Requests, Found(r) PROVE RouterInv'
    <3>1. UNCHANGED <<configured, standing, flagged, shares, owner, tasksAt, aged, runsAt>> /\ req[r].pc = "found"
      BY <2>11 DEF Found
    <3>2. req[r].kind \in {"use", "run"} /\ req[r].folder \in SharedFolders
      BY <2>0, <3>1 DEF RequestOK, RequestRecords
    <3>3. CASE owner[req[r].folder] = Nowhere /\ req[r].out = "waited"
      BY <2>0, <2>11, <3>1, <3>2, <3>3, AnsweredStep DEF Found, Answered, Anywhere
    <3>4. CASE owner[req[r].folder] = Nowhere /\ req[r].out # "waited"
      BY <2>0, <2>11, <3>1, <3>2, <3>4, OnlyGoesOn DEF Found, StepsOf
    <3>5. CASE owner[req[r].folder] # Nowhere
      <4>1. PICK m \in Anywhere : m = owner[req[r].folder] /\ m = Home(req[r])
        BY <3>2, <3>5 DEF RouterInv, RouterTypeOK, Home
      <4>2. req' = [req EXCEPT ![r].pc = "online", ![r].machine = m, ![r].out = "none"]
        BY <2>11, <3>5, <4>1 DEF Found
      <4>3. req'[r] = [req[r] EXCEPT !.pc = "online", !.machine = m, !.out = "none"]
        BY <2>0, <4>2
      <4>4. req[r] \in RequestRecords
        BY <2>0
      <4>5. /\ req'[r] \in RequestRecords /\ req'[r].pc = "online" /\ req'[r].machine = m /\ req'[r].kind = req[r].kind
            /\ req'[r].folder = req[r].folder /\ req'[r].task = req[r].task /\ req'[r].found = req[r].found
        BY <4>3, <4>4 DEF RequestRecords
      <4>6. req' = [req EXCEPT ![r] = req'[r]]
        BY <2>0, <4>2
      <4>7. \A f \in SharedFolders : req[r].found[f] \in {Nowhere, shares[f]}
        BY <2>0 DEF RequestOK
      <4>8. req'[r].pc \in StepsOf(req'[r].kind)
        BY <3>2, <4>5 DEF StepsOf
      <4> QED
        BY <2>0, <3>1, <4>1, <4>5, <4>6, <4>7, <4>8, GoesOn
    <3> QED
      BY <3>3, <3>4, <3>5
  <2>12. ASSUME NEW r \in Requests, Miss(r) PROVE RouterInv'
    <3>1. UNCHANGED <<configured, standing, flagged, shares, owner, tasksAt, aged, runsAt>> /\ req[r].pc = "miss"
      BY <2>12 DEF Miss
    <3>2. req[r].kind \in {"use", "run"}
      BY <2>0, <3>1 DEF RequestOK, RequestRecords
    <3>3. CASE Pending = {}
      BY <2>0, <2>12, <3>1, <3>2, <3>3, AnsweredStep DEF Miss, Answered, Anywhere
    <3>4. CASE Pending # {}
      <4>1. req' = [req EXCEPT ![r].pc = "settle", ![r].wait = Pending] /\ Pending \in SUBSET Computers
        BY <2>0, <2>12, <3>4 DEF Miss, Pending, RouterTypeOK
      <4> QED
        BY <2>0, <3>1, <3>2, <4>1, WaitStep DEF StepsOf
    <3> QED
      BY <3>3, <3>4
  <2>13. ASSUME NEW r \in Requests, Settle(r) PROVE RouterInv'
    <3>1. UNCHANGED <<configured, standing, flagged, shares, owner, tasksAt, aged, runsAt>>
      BY <2>13 DEF Settle
    <3>2. PICK pc \in {"ask", "relist", "forward"} :
            /\ req' = [req EXCEPT ![r].wait = {}, ![r].pc = pc, ![r].out = "waited"]
            /\ \/ pc = "ask" /\ req[r].pc = "settle"
               \/ pc = "relist" /\ req[r].pc = "settleList"
               \/ pc = "forward" /\ req[r].pc = "settleForward"
      <4>1. CASE req[r].pc = "settle"
        BY <2>13, <4>1 DEF Settle
      <4>2. CASE req[r].pc = "settleList"
        BY <2>13, <4>2 DEF Settle
      <4>3. CASE req[r].pc = "settleForward"
        BY <2>13, <4>3 DEF Settle
      <4> QED
        BY <2>13, <4>1, <4>2, <4>3 DEF Settle
    <3>3. req'[r] = [req[r] EXCEPT !.wait = {}, !.pc = pc, !.out = "waited"] /\ req[r] \in RequestRecords
      BY <2>0, <3>2
    <3>4. /\ req'[r] \in RequestRecords /\ req'[r].pc = pc /\ req'[r].machine = req[r].machine /\ req'[r].kind = req[r].kind
          /\ req'[r].folder = req[r].folder /\ req'[r].task = req[r].task /\ req'[r].found = req[r].found
      BY <3>3 DEF RequestRecords
    <3>5. req' = [req EXCEPT ![r] = req'[r]]
      BY <2>0, <3>2
    <3>6. \A f \in SharedFolders : req[r].found[f] \in {Nowhere, shares[f]}
      BY <2>0 DEF RequestOK
    <3>7. pc \in StepsOf(req[r].kind) /\ (pc = "forward" => req[r].machine = Home(req[r]))
      <4>1. req[r].kind \in {"none", "use", "run", "status", "list"}
        BY <2>0 DEF RequestRecords
      <4> QED
        BY <2>0, <3>2, <4>1 DEF RequestOK, StepsOf
    <3>8. /\ req'[r].pc \in StepsOf(req'[r].kind)
          /\ req'[r].pc \in {"online", "forward", "settleForward", "sent"} => req'[r].machine = Home(req[r])
      BY <3>2, <3>4, <3>7
    <3>9. \A f \in SharedFolders : req'[r].found[f] \in {Nowhere, shares[f]}
      BY <3>4, <3>6
    <3>10. standing' \in Anywhere /\ flagged' \in Anywhere
      BY <2>0, <3>1
    <3> HIDE DEF RequestStages
    <3> QED
      BY <3>1, <3>4, <3>5, <3>8, <3>9, <3>10, GoesOn
  <2>14. ASSUME NEW r \in Requests, Route(r) PROVE RouterInv'
    <3>1. UNCHANGED <<configured, standing, flagged, shares, owner, tasksAt, aged, runsAt>> /\ req[r].pc = "online"
      BY <2>14 DEF Route
    <3>2. req[r].kind \in {"use", "run", "status"} /\ req[r].machine = Home(req[r])
      BY <2>0, <3>1 DEF RequestOK, RequestRecords
    <3>3. CASE OwnerNow(req[r].machine) = Nowhere
      BY <2>0, <2>14, <3>1, <3>2, <3>3, AnsweredStep DEF Route, Answered, Anywhere, OwnerNow
    <3>4. CASE OwnerNow(req[r].machine) # Nowhere
      BY <2>0, <2>14, <3>1, <3>2, <3>4, OnlyGoesOn DEF Route, StepsOf
    <3> QED
      BY <3>3, <3>4
  <2>15. ASSUME NEW r \in Requests, Forward(r) PROVE RouterInv'
    <3>1. UNCHANGED <<configured, standing, flagged, shares, owner, tasksAt, aged, runsAt>> /\ req[r].pc = "forward"
      BY <2>15 DEF Forward
    <3>2. req[r].kind \in {"use", "run", "status"} /\ req[r].machine = Home(req[r])
      BY <2>0, <3>1 DEF RequestOK, RequestRecords
    <3>3. CASE Go(r, "sent")
      BY <2>0, <3>1, <3>2, <3>3, OnlyGoesOn DEF StepsOf
    <3>4. CASE Answered(r, "unavailable")
      BY <2>0, <3>1, <3>2, <3>4, AnsweredStep DEF Answered, Anywhere
    <3>5. CASE req' = [req EXCEPT ![r].pc = "settleForward", ![r].wait = {req[r].machine}] /\ req[r].machine \in Pending
      <4>1. {req[r].machine} \in SUBSET Computers
        BY <2>0, <3>5 DEF Pending, RouterTypeOK
      <4> QED
        BY <2>0, <3>1, <3>2, <3>5, <4>1, WaitStep DEF StepsOf
    <3> QED
      BY <2>15, <3>3, <3>4, <3>5 DEF Forward
  <2>16. ASSUME NEW r \in Requests, Answer(r) PROVE RouterInv'
    <3>1. UNCHANGED <<configured, standing, flagged, shares, owner, aged>> /\ req[r].pc = "sent"
      BY <2>16 DEF Answer
    <3>2. req[r].kind \in {"use", "run", "status"} /\ req[r].machine = Home(req[r])
      BY <2>0, <3>1 DEF RequestOK, RequestRecords
    <3>3. CASE UNCHANGED <<tasksAt, runsAt>>
      <4>1. PICK out \in {"answered", "unavailable"} : Answered(r, out)
        BY <2>16 DEF Answer
      <4> QED
        BY <2>0, <3>1, <3>2, <3>3, <4>1, AnsweredStep DEF Answered, Anywhere
    <3>4. ASSUME NEW t \in Runs, runsAt[t] = Nowhere, runsAt' = [runsAt EXCEPT ![t] = req[r].machine],
                 Remember(t, req[r].machine), Answered(r, "answered"), req[r].kind = "run"
          PROVE  RouterInv'
      <4>1. req[r].machine \in Computers
        BY <2>0, <3>2, <3>4 DEF Home, RouterTypeOK, RequestOK
      <4>2. PICK m \in Computers : m = req[r].machine
        BY <4>1
      <4>3. PICK q : q = Done(req[r], Nowhere, "answered")
        OBVIOUS
      <4>4. /\ q.pc = "done" /\ q.kind = "run" /\ q.folder = req[r].folder /\ q.found = NoOwners
        BY <3>4, <4>3 DEF Done
      <4>5. q \in RequestRecords
        <5>1. /\ req[r].kind \in {"none", "use", "run", "status", "list"} /\ req[r].folder \in SharedFolders \cup {Nowhere}
              /\ req[r].task \in Runs \cup {Nowhere} /\ req[r].machine \in Anywhere
          BY <2>0 DEF RequestRecords
        <5>2. NoOwners \in [SharedFolders -> Anywhere] /\ Nowhere \in Anywhere
          BY DEF NoOwners, Anywhere
        <5> QED
          BY <4>3, <5>1, <5>2 DEF Done, RequestRecords
      <4>6. RequestOK(q)'
        BY <2>0, <3>1, <3>4, <4>4 DEF RequestOK, NoOwners
      <4>7. req' \in [Requests -> RequestRecords] /\ req'[r] = q /\ \A s \in Requests \ {r} : req'[s] = req[s]
        BY <2>0, <3>4, <4>3, <4>5 DEF Answered
      <4>8. /\ runsAt' \in [Runs -> Anywhere] /\ runsAt'[t] = m /\ \A u \in Runs \ {t} : runsAt'[u] = runsAt[u]
        BY <2>0, <3>4, <4>2 DEF RouterTypeOK, Anywhere
      <4>9. /\ tasksAt' \in [Runs -> Anywhere] /\ tasksAt'[t] = m
            /\ \A u \in Runs \ {t} : tasksAt'[u] = IF u \in aged THEN Nowhere ELSE tasksAt[u]
        BY <2>0, <3>4, <4>2 DEF RouterTypeOK, Anywhere, Remember
      <4>10. RouterTypeOK'
        BY <2>0, <3>1, <4>7, <4>8, <4>9 DEF RouterTypeOK
      <4>11. ASSUME NEW s \in Requests \ {r} PROVE RequestOK(req[s])'
        BY <2>0, <3>1, <3>4, <4>7, <4>8 DEF RequestOK, Home
      <4>12. RequestOK(req[r])'
        BY <4>6, <4>7
      <4>13. \A u \in Runs : /\ tasksAt'[u] \in {Nowhere, runsAt'[u]}
                             /\ u \notin aged' => tasksAt'[u] = runsAt'[u]
        BY <3>1, <4>8, <4>9 DEF RouterInv
      <4> QED
        BY <3>1, <4>10, <4>11, <4>12, <4>13 DEF RouterInv
    <3> QED
      BY <2>16, <3>3, <3>4 DEF Answer
  <2>17. ASSUME NEW r \in Requests, ListStarts(r) PROVE RouterInv'
    <3>1. UNCHANGED <<configured, standing, flagged, shares, owner, tasksAt, aged, runsAt>> /\ req[r].pc = "stand"
      BY <2>17 DEF ListStarts
    <3>2. req[r].kind = "list"
      BY <2>0, <3>1 DEF RequestOK, RequestRecords
    <3>3. CASE standing \in Pending
      <4>1. req' = [req EXCEPT ![r].pc = "settleList", ![r].wait = {standing}] /\ {standing} \in SUBSET Computers
        BY <2>0, <2>17, <3>3 DEF ListStarts, Pending, RouterTypeOK
      <4> QED
        BY <2>0, <3>1, <3>2, <4>1, WaitStep DEF StepsOf
    <3>4. CASE standing \notin Pending
      BY <2>0, <2>17, <3>1, <3>2, <3>4, OnlyGoesOn DEF ListStarts, StepsOf
    <3> QED
      BY <3>3, <3>4
  <2>18. ASSUME NEW r \in Requests, Relist(r) PROVE RouterInv'
    <3>1. UNCHANGED <<configured, standing, flagged, shares, owner, tasksAt, aged, runsAt>> /\ req[r].pc = "relist"
      BY <2>18 DEF Relist
    <3>2. req[r].kind = "list"
      BY <2>0, <3>1 DEF RequestOK, RequestRecords
    <3> QED
      BY <2>0, <2>18, <3>1, <3>2, OnlyGoesOn DEF Relist, StepsOf
  <2>19. ASSUME NEW r \in Requests, Offer(r) PROVE RouterInv'
    <3>1. UNCHANGED <<configured, standing, flagged, shares, owner, tasksAt, aged, runsAt>> /\ req[r].pc = "offer"
      BY <2>19 DEF Offer
    <3>2. req[r].kind = "list"
      BY <2>0, <3>1 DEF RequestOK, RequestRecords
    <3>3. PICK flag \in Anywhere : req' = [req EXCEPT ![r] = Done(req[r], flag, "answered")]
      BY <2>0, <2>19 DEF Offer, Anywhere
    <3> QED
      BY <2>0, <3>1, <3>2, <3>3, AnsweredStep
  <2>20. CASE UNCHANGED routerVars
    BY <2>20 DEF routerVars, RouterInv, RouterTypeOK, RequestOK, Home
  <2> HIDE DEF RequestStages
  <2> QED
    BY <2>1, <2>2, <2>3, <2>4, <2>5, <2>6, <2>7, <2>8, <2>9, <2>10, <2>11, <2>12, <2>13, <2>14, <2>15, <2>16, <2>17, <2>18,
       <2>19, <2>20 DEF RouterNext
<1>3. RouterInv => TasksStayHome
  BY DEF RouterInv, RequestOK, Home, TasksStayHome
<1> QED
  BY <1>1, <1>2, <1>3, PTL DEF RouterSpec

-----------------------------------------------------------------------------
(* LspConn: the connection to a language server. *)

\* The types of the state.
ConnTypeOK ==
  /\ caller \in [Callers -> {"idle", "registered", "waiting", "leaving", "returned", "refused"}]
  /\ reply \in [Callers -> {"none", "answer", "failed"}]
  /\ awaited \in SUBSET Callers /\ releasing \in SUBSET Callers /\ asked \in SUBSET Callers
  /\ handing \in Callers \cup {NoCaller}
  /\ reader \in {"reading", "failing", "done"} /\ pipe \in BOOLEAN /\ ended \in BOOLEAN

\* A call that has registered its reply channel and still counts on it.
Expecting(k) == caller[k] \in {"registered", "waiting"}

\* While the reader reads, whoever expects an answer is pending; from fail on it is to
\* be released, is being released, or has its message.
NobodyIsForgotten ==
  /\ ended <=> reader # "reading"
  /\ reader = "reading" => \A k \in Callers : Expecting(k) => k \in awaited
  /\ reader # "reading" => \A k \in Callers : Expecting(k) => k \in releasing \/ handing = k \/ reply[k] # "none"
  /\ reader = "done" => releasing = {} /\ handing = NoCaller

\* A call is answered at most once and, by fail, told of the end at most once: a send
\* finds the channel full only when it is the second of the two.
OneMessageEach ==
  \A k \in Callers :
    /\ reply[k] = "answer" => caller[k] \in {"waiting", "leaving", "returned"}
    /\ k \in asked => caller[k] \in {"waiting", "leaving", "returned"}
    /\ handing = k /\ reader = "reading" => caller[k] \in {"waiting", "leaving", "returned"}
    /\ reader = "reading" => reply[k] # "failed"
    /\ reader = "reading" /\ (k \in asked \/ handing = k) => reply[k] = "none"
    /\ reader = "reading" /\ handing = k => k \notin asked
    /\ reader = "failing" /\ (k \in releasing \/ handing = k) => reply[k] # "failed"
    /\ reader = "failing" /\ handing = k => k \notin releasing

\* The inductive invariant of a server's connection.
ConnInv == ConnTypeOK /\ NobodyIsForgotten /\ OneMessageEach

\* A call that waits on a connection that has ended has its message or is on fail's list, and nobody is on that list
\* when the reader has left: whoever register let in before fail took the map is in the map that fail empties, and
\* whoever comes later is refused.  What can hold fail up is a call that was answered and has not taken the answer.
THEOREM NobodyWaitsForADeadServer == ConnSpec => []NobodyIsLeftWaiting
<1>1. ConnInit => ConnInv
  BY LspConnAssumption DEF ConnInit, ConnInv, ConnTypeOK, NobodyIsForgotten, OneMessageEach, Expecting
<1>2. ConnInv /\ [ConnNext]_connVars => ConnInv'
  <2> SUFFICES ASSUME ConnInv, [ConnNext]_connVars
               PROVE  ConnInv'
    OBVIOUS
  <2> USE LspConnAssumption DEF ConnInv, ConnTypeOK, NobodyIsForgotten, OneMessageEach, Expecting
  <2>1. ASSUME NEW k \in Callers, Call(k) PROVE ConnInv'
    BY <2>1 DEF Call, Register
  <2>2. ASSUME NEW k \in Callers, Write(k) PROVE ConnInv'
    BY <2>2 DEF Write
  <2>3. ASSUME NEW k \in Callers, Wait(k) PROVE ConnInv'
    BY <2>3 DEF Wait, Leaves, Takes
  <2>4. ASSUME NEW k \in Callers, Unregister(k) PROVE ConnInv'
    BY <2>4 DEF Unregister
  <2>5. ASSUME NEW k \in Callers, Deliver(k) PROVE ConnInv'
    BY <2>5 DEF Deliver
  <2>6. ASSUME NEW k \in Callers, Release(k) PROVE ConnInv'
    BY <2>6 DEF Release
  <2>7. CASE Hand
    BY <2>7 DEF Hand
  <2>8. CASE ServerEnds
    BY <2>8 DEF ServerEnds
  <2>9. CASE Fail
    BY <2>9 DEF Fail, TakePending
  <2>10. CASE ReaderEnds
    BY <2>10 DEF ReaderEnds
  <2>11. CASE Close
    BY <2>11 DEF Close
  <2>12. CASE UNCHANGED connVars
    BY <2>12 DEF connVars
  <2> QED
    BY <2>1, <2>2, <2>3, <2>4, <2>5, <2>6, <2>7, <2>8, <2>9, <2>10, <2>11, <2>12 DEF ConnNext
<1>3. ConnInv => NobodyIsLeftWaiting
  BY LspConnAssumption DEF ConnInv, ConnTypeOK, NobodyIsForgotten, OneMessageEach, Expecting, NobodyIsLeftWaiting
<1> QED
  BY <1>1, <1>2, <1>3, PTL DEF ConnSpec

-----------------------------------------------------------------------------
(* Lsp: the table of language servers. *)

\* The steps of a question.
QuestionStages == {"none", "confirm", "get", "start", "enter", "startFailed", "open", "send", "ask", "done"}

\* What can be asked about a file.
QuestionKinds == {"none", "symbols", "line", "symbol", "reach"}

\* How a question ends.
QuestionEnds == {"none", "refused", "cancelled", "closed", "failed", "answered"}

\* A question under way.
QuestionRecords == [pc : QuestionStages, kind : QuestionKinds, file : Sources \cup {"none"},
                    client : Clients \cup {NoClient}, read : Nat, out : QuestionEnds]

\* The types of the state.
LspTypeOK ==
  /\ client \in [Clients -> {"idle", "starting", "up", "stopping", "stopped"}]
  /\ serving \in Clients \cup {NoClient}
  /\ startingNow \in BOOLEAN
  /\ question \in [Questions -> QuestionRecords]
  /\ bytes \in [Sources -> Nat]

\* A question under way is about a file.
AboutAFile == \A q \in Questions : question[q].pc \notin {"none", "done"} => question[q].file \in Sources

\* From giving startingNow to taking it back.
StartingSteps == {"start", "enter", "startFailed"}

\* The start under way is the only one, and nothing serves the workspace meanwhile.
OneStart ==
  /\ \A q \in Questions : question[q].pc \in StartingSteps => startingNow /\ serving = NoClient /\ question[q].client \in Clients
  /\ \A p, q \in Questions : question[p].pc \in StartingSteps /\ question[q].pc \in StartingSteps => p = q

\* A client that is up is the one in the table, and the table is empty once Close began.
TableHoldsWhatIsUp ==
  /\ \A c \in Clients : client[c] = "up" => serving = c
  /\ shutdown # "no" => serving = NoClient

\* The inductive invariant of the supervisor's table.
LspInv == LspTypeOK /\ AboutAFile /\ OneStart /\ TableHoldsWhatIsUp

\* A question that goes on to another step.
LEMMA QuestionGoes ==
  ASSUME LspTypeOK, NEW q \in Questions, NEW pc \in QuestionStages, Step(q, pc)
  PROVE  /\ question' \in [Questions -> QuestionRecords] /\ question'[q].pc = pc /\ question'[q].client = question[q].client
         /\ question'[q].file = question[q].file
         /\ \A p \in Questions \ {q} : question'[p] = question[p]
BY DEF LspTypeOK, Step, QuestionRecords

\* A question that becomes another record.
LEMMA AboutGoes ==
  ASSUME LspTypeOK, NEW q \in Questions, NEW pc \in QuestionStages, NEW k \in QuestionKinds, NEW f \in Sources \cup {"none"}, NEW out \in QuestionEnds,
         question' = [question EXCEPT ![q] = About(pc, k, f, out)]
  PROVE  /\ question' \in [Questions -> QuestionRecords] /\ question'[q].pc = pc /\ question'[q].file = f
         /\ \A p \in Questions \ {q} : question'[p] = question[p]
<1>1. PICK a : a = About(pc, k, f, out)
  OBVIOUS
<1>2. a \in QuestionRecords /\ a.pc = pc /\ a.file = f
  BY <1>1 DEF About, QuestionRecords
<1> QED
  BY <1>1, <1>2 DEF LspTypeOK

\* A question that ends.
LEMMA EndsGoes ==
  ASSUME LspTypeOK, NEW q \in Questions, NEW out \in QuestionEnds, Ends(q, out)
  PROVE  /\ question' \in [Questions -> QuestionRecords] /\ question'[q].pc = "done"
         /\ \A p \in Questions \ {q} : question'[p] = question[p]
BY AboutGoes DEF Ends, QuestionStages, QuestionKinds

\* A question that is given a client is a question.
LEMMA ClientGiven ==
  ASSUME NEW x \in QuestionRecords, NEW pc \in QuestionStages, NEW c \in Clients, NEW r, r = [x EXCEPT !.pc = pc, !.client = c]
  PROVE  r \in QuestionRecords
<1>1. r = [pc |-> pc, kind |-> x.kind, file |-> x.file, client |-> c, read |-> x.read, out |-> x.out]
  BY DEF QuestionRecords
<1>2. x.kind \in QuestionKinds /\ x.file \in Sources \cup {"none"} /\ x.read \in Nat /\ x.out \in QuestionEnds
  BY DEF QuestionRecords
<1> QED
  BY <1>1, <1>2 DEF QuestionRecords

\* A question that goes on with a client.
LEMMA HandsOut ==
  ASSUME LspTypeOK, NEW q \in Questions, NEW pc \in QuestionStages, NEW c \in Clients,
         question' = [question EXCEPT ![q].pc = pc, ![q].client = c]
  PROVE  /\ question' \in [Questions -> QuestionRecords] /\ question'[q].pc = pc /\ question'[q].client = c
         /\ question'[q].file = question[q].file
         /\ \A p \in Questions \ {q} : question'[p] = question[p]
<1>1. question'[q] = [question[q] EXCEPT !.pc = pc, !.client = c] /\ question[q] \in QuestionRecords
  BY DEF LspTypeOK
<1>2. c \in Clients \cup {NoClient}
  OBVIOUS
<1>3. question'[q].pc = pc /\ question'[q].client = c /\ question'[q].file = question[q].file
  BY <1>1 DEF QuestionRecords
<1>4. question'[q] \in QuestionRecords
  BY <1>1, ClientGiven
<1>5. question' = [question EXCEPT ![q] = question'[q]]
  BY DEF LspTypeOK
<1> QED
  BY <1>3, <1>4, <1>5 DEF LspTypeOK

\* Dropping what serves the workspace leaves nothing up.
LEMMA DropEmptiesTable ==
  ASSUME LspInv, Drop
  PROVE  /\ client' \in [Clients -> {"idle", "starting", "up", "stopping", "stopped"}] /\ serving' = NoClient
         /\ \A c \in Clients : client'[c] # "up"
BY LspAssumption DEF LspInv, LspTypeOK, TableHoldsWhatIsUp, Drop

\* After Close no language server is up: the one that was being started outside the lock finds the supervisor
\* closed when it comes back to enter the table, and is stopped.
THEOREM CloseLeavesNothing == LspSpec => []NothingOutlivesClose
<1>1. LspInit => LspInv
  <2> SUFFICES ASSUME LspInit PROVE LspInv
    OBVIOUS
  <2>1. NoQuestion \in QuestionRecords /\ NoQuestion.pc = "none"
    BY DEF NoQuestion, About, QuestionRecords, QuestionStages, QuestionKinds, QuestionEnds
  <2> QED
    BY <2>1 DEF LspInit, LspInv, LspTypeOK, AboutAFile, OneStart, TableHoldsWhatIsUp, StartingSteps
<1>2. LspInv /\ [LspNext]_lspVars => LspInv'
  <2> SUFFICES ASSUME LspInv, [LspNext]_lspVars PROVE LspInv'
    OBVIOUS
  <2>0. LspTypeOK
    BY DEF LspInv
  <2> USE LspAssumption DEF LspInv, LspTypeOK, AboutAFile, OneStart, TableHoldsWhatIsUp, StartingSteps, QuestionStages, QuestionKinds, QuestionEnds
  <2>1. ASSUME NEW q \in Questions, AskAbout(q) PROVE LspInv'
    <3>1. PICK f \in Sources, k \in QuestionKinds, pc \in {"get", "confirm"} : question' = [question EXCEPT ![q] = About(pc, k, f, "none")]
      BY <2>1 DEF AskAbout
    <3>2. /\ question' \in [Questions -> QuestionRecords] /\ question'[q].pc = pc /\ question'[q].file = f
          /\ \A p \in Questions \ {q} : question'[p] = question[p]
      BY <2>0, <3>1, AboutGoes
    <3> QED
      BY <2>1, <3>2 DEF AskAbout
  <2>2. ASSUME NEW q \in Questions, Confirm(q) PROVE LspInv'
    <3>1. Step(q, "get") \/ Ends(q, "refused")
      BY <2>2 DEF Confirm, ConfirmNavigator
    <3>2. /\ question' \in [Questions -> QuestionRecords] /\ question'[q].pc \in {"get", "done"}
          /\ question'[q].pc # "done" => question'[q].file = question[q].file
          /\ \A p \in Questions \ {q} : question'[p] = question[p]
      BY <2>0, <3>1, QuestionGoes, EndsGoes
    <3> QED
      BY <2>2, <3>2 DEF Confirm
  <2>3. ASSUME NEW q \in Questions, Get(q) PROVE LspInv'
    <3>1. CASE shutdown # "no" \/ (serving = NoClient /\ startingNow)
      <4>1. (Ends(q, "closed") \/ Ends(q, "cancelled")) /\ UNCHANGED <<client, startingNow>>
        BY <2>3, <3>1 DEF Get, GetOrStart
      <4>2. /\ question' \in [Questions -> QuestionRecords] /\ question'[q].pc = "done"
            /\ \A p \in Questions \ {q} : question'[p] = question[p]
        BY <2>0, <4>1, EndsGoes
      <4> QED
        BY <2>3, <4>1, <4>2 DEF Get
    <3>2. CASE shutdown = "no" /\ serving # NoClient
      <4>1. PICK s \in Clients : s = serving
        BY <3>2
      <4>2. question' = [question EXCEPT ![q].pc = "open", ![q].client = s] /\ UNCHANGED <<client, startingNow>>
        BY <2>3, <3>2, <4>1 DEF Get, GetOrStart
      <4>3. /\ question' \in [Questions -> QuestionRecords] /\ question'[q].pc = "open" /\ question'[q].file = question[q].file
            /\ \A p \in Questions \ {q} : question'[p] = question[p]
        BY <2>0, <4>2, HandsOut
      <4> QED
        BY <2>3, <4>2, <4>3 DEF Get
    <3>3. CASE shutdown = "no" /\ serving = NoClient /\ ~startingNow
      <4>1. PICK c \in Clients : /\ client[c] = "idle"
                                 /\ client' = [client EXCEPT ![c] = "starting"]
                                 /\ startingNow' = TRUE
                                 /\ question' = [question EXCEPT ![q].pc = "start", ![q].client = c]
        BY <2>3, <3>3 DEF Get, GetOrStart
      <4>2. /\ question' \in [Questions -> QuestionRecords] /\ question'[q].pc = "start" /\ question'[q].client = c
            /\ question'[q].file = question[q].file
            /\ \A p \in Questions \ {q} : question'[p] = question[p]
        BY <2>0, <4>1, HandsOut
      <4>3. \A p \in Questions : question[p].pc \notin StartingSteps
        BY <3>3
      <4> QED
        BY <2>3, <3>3, <4>1, <4>2, <4>3 DEF Get
    <3> QED
      BY <3>1, <3>2, <3>3
  <2>4. ASSUME NEW q \in Questions, StartClient(q) PROVE LspInv'
    <3>1. Step(q, "enter") \/ Step(q, "startFailed")
      BY <2>4 DEF StartClient
    <3>2. /\ question' \in [Questions -> QuestionRecords] /\ question'[q].pc \in StartingSteps /\ question'[q].client = question[q].client
          /\ question'[q].file = question[q].file
          /\ \A p \in Questions \ {q} : question'[p] = question[p]
      BY <2>0, <3>1, QuestionGoes
    <3> QED
      BY <2>4, <3>2 DEF StartClient
  <2>5. ASSUME NEW q \in Questions, Enter(q) PROVE LspInv'
    <3>1. PICK c \in Clients : c = question[q].client
      BY <2>5 DEF Enter
    <3>2. /\ serving = NoClient /\ ~startingNow' /\ startingNow' \in BOOLEAN
          /\ UNCHANGED <<alive, allowed, shutdown, stops, bytes, holds>>
          /\ \A p \in Questions \ {q} : question[p].pc \notin StartingSteps
      BY <2>5 DEF Enter
    <3>3. CASE shutdown # "no"
      <4>1. client' = [client EXCEPT ![c] = "stopping"] /\ Ends(q, "closed") /\ UNCHANGED serving
        BY <2>5, <3>1, <3>3 DEF Enter, EnterTable
      <4>2. /\ question' \in [Questions -> QuestionRecords] /\ question'[q].pc = "done"
            /\ \A p \in Questions \ {q} : question'[p] = question[p]
        BY <2>0, <4>1, EndsGoes
      <4> QED
        BY <3>2, <4>1, <4>2
    <3>4. CASE shutdown = "no"
      <4>1. serving' = c /\ client' = [client EXCEPT ![c] = "up"] /\ Step(q, "open")
        BY <2>5, <3>1, <3>4 DEF Enter, EnterTable
      <4>2. /\ question' \in [Questions -> QuestionRecords] /\ question'[q].pc = "open" /\ question'[q].file = question[q].file
            /\ \A p \in Questions \ {q} : question'[p] = question[p]
        BY <2>0, <4>1, QuestionGoes
      <4>3. question[q].file \in Sources
        BY <2>5 DEF Enter
      <4>4. LspTypeOK' /\ AboutAFile'
        BY <3>2, <4>1, <4>2, <4>3
      <4>5. OneStart'
        BY <3>2, <4>2
      <4>6. TableHoldsWhatIsUp'
        BY <3>2, <3>4, <4>1
      <4> QED
        BY <4>4, <4>5, <4>6
    <3> QED
      BY <3>3, <3>4
  <2>6. ASSUME NEW q \in Questions, StartFailed(q) PROVE LspInv'
    <3>1. PICK c \in Clients : c = question[q].client
      BY <2>6 DEF StartFailed
    <3>2. /\ ~startingNow' /\ startingNow' \in BOOLEAN /\ client' = [client EXCEPT ![c] = "stopped"]
          /\ UNCHANGED <<alive, serving, allowed, shutdown, stops, bytes, holds>> /\ Ends(q, "failed")
          /\ \A p \in Questions \ {q} : question[p].pc \notin StartingSteps
      BY <2>6, <3>1 DEF StartFailed
    <3>3. /\ question' \in [Questions -> QuestionRecords] /\ question'[q].pc = "done"
          /\ \A p \in Questions \ {q} : question'[p] = question[p]
      BY <2>0, <3>2, EndsGoes
    <3> QED
      BY <3>2, <3>3
  <2>7. ASSUME NEW q \in Questions, DidOpen(q) PROVE LspInv'
    <3>1. PICK pc \in {"ask", "send"}, n \in Nat : question' = [question EXCEPT ![q].pc = pc, ![q].read = n]
      BY <2>7 DEF DidOpen
    <3>2. question'[q] = [question[q] EXCEPT !.pc = pc, !.read = n] /\ question[q] \in QuestionRecords
      BY <3>1
    <3>3. /\ question'[q] \in QuestionRecords /\ question'[q].pc = pc /\ question'[q].file = question[q].file
      BY <3>2 DEF QuestionRecords
    <3>4. question' = [question EXCEPT ![q] = question'[q]]
      BY <3>1
    <3>5. question' \in [Questions -> QuestionRecords] /\ \A p \in Questions \ {q} : question'[p] = question[p]
      BY <3>3, <3>4
    <3> QED
      BY <2>7, <3>3, <3>5 DEF DidOpen
  <2>8. ASSUME NEW q \in Questions, SendOpen(q) PROVE LspInv'
    <3>1. Step(q, "ask") \/ Ends(q, "failed")
      BY <2>8 DEF SendOpen
    <3>2. /\ question' \in [Questions -> QuestionRecords] /\ question'[q].pc \in {"ask", "done"}
          /\ question'[q].pc # "done" => question'[q].file = question[q].file
          /\ \A p \in Questions \ {q} : question'[p] = question[p]
      BY <2>0, <3>1, QuestionGoes, EndsGoes
    <3> QED
      BY <2>8, <3>2 DEF SendOpen
  <2>9. ASSUME NEW q \in Questions, PutQuestion(q) PROVE LspInv'
    <3>1. /\ Ends(q, "failed") \/ Ends(q, "answered")
          /\ Drop \/ UNCHANGED <<client, serving>>
      BY <2>9 DEF PutQuestion
    <3>2. /\ question' \in [Questions -> QuestionRecords] /\ question'[q].pc = "done"
          /\ \A p \in Questions \ {q} : question'[p] = question[p]
      BY <2>0, <3>1, EndsGoes
    <3>3. CASE UNCHANGED <<client, serving>>
      BY <2>9, <3>2, <3>3 DEF PutQuestion
    <3>4. CASE Drop
      BY <2>9, <3>2, <3>4, DropEmptiesTable DEF PutQuestion
    <3> QED
      BY <3>1, <3>3, <3>4
  <2>10. ASSUME NEW c \in Clients, StopClient(c) PROVE LspInv'
    BY <2>10 DEF StopClient
  <2>11. ASSUME NEW c \in Clients, Crash(c) PROVE LspInv'
    BY <2>11 DEF Crash
  <2>12. ASSUME NEW f \in Sources, Edit(f) PROVE LspInv'
    <3>1. bytes[f] + 1 \in Nat
      OBVIOUS
    <3> QED
      BY <2>12, <3>1 DEF Edit
  <2>13. CASE Reap
    BY <2>13, DropEmptiesTable DEF Reap
  <2>14. CASE CloseStarts
    BY <2>14, DropEmptiesTable DEF CloseStarts
  <2>15. CASE CloseEnds
    BY <2>15 DEF CloseEnds
  <2>16. CASE UNCHANGED lspVars
    BY <2>16 DEF lspVars
  <2> HIDE DEF LspInv
  <2> QED
    BY <2>1, <2>2, <2>3, <2>4, <2>5, <2>6, <2>7, <2>8, <2>9, <2>10, <2>11, <2>12, <2>13, <2>14, <2>15, <2>16 DEF LspNext
<1>3. LspInv => NothingOutlivesClose
  BY LspAssumption DEF LspInv, TableHoldsWhatIsUp, NothingOutlivesClose
<1> QED
  BY <1>1, <1>2, <1>3, PTL DEF LspSpec

=============================================================================
