----------------------------- MODULE LocalProofs -----------------------------
(***************************************************************************)
(* What is proved of the services on the Companion's own computer: the     *)
(* plan, notes, the settings file, the tunnel process, the sign-in,        *)
(* downloads, the current folder, the review desk and the instance lock.   *)
(* Each holds for any number of actors and, where something is counted,    *)
(* for any bound on it.                                                    *)
(***************************************************************************)
EXTENDS Memory, MemoryPlan, Settings, Connect, SignIn, Download, Workspaces, Desk, Shell,
        FiniteSetTheorems, WellFoundedInduction, TLAPS

-----------------------------------------------------------------------------
(* MemoryPlan: steps of the plan. *)

\* The types of the state.
PlanTypeOK ==
  /\ steps \in [StepIds -> StepStates \cup {"none"}]
  /\ lastStep \in 0..MaxSteps /\ planNo \in Nat
  /\ recalled \in [Movers -> [step : 0..MaxSteps, plan : Nat]]
  /\ editing \in [Editors -> [pc : {"idle", "write"}, step : 0..MaxSteps, plan : Nat,
                              asks : StepStates \cup {"none"}, carries : StepStates \cup {"none"}]]

\* An id belongs to one plan: only the newest is in the table, and what was read about
\* an id was read in the plan that the id is of.
AnIdIsOfOnePlan ==
  /\ planNo = lastStep
  /\ \A p \in StepIds : steps[p] # "none" => p = lastStep
  /\ \A c \in Movers : recalled[c].step = recalled[c].plan
  /\ \A e \in Editors : editing[e].step = editing[e].plan
  /\ \A e \in Editors : editing[e].pc = "write" => editing[e].step # 0 /\ editing[e].carries # "none"

\* The inductive invariant of the plan's table.
MemoryPlanInv == PlanTypeOK /\ AnIdIsOfOnePlan /\ StaleMovesFail

\* A step moved by an id that was read from an earlier plan moves nothing: ids are never handed out twice.
THEOREM NoMoveGoesAstray == PlanSpec => []StaleMovesFail
<1>1. PlanInit => MemoryPlanInv
  BY PlanAssumption DEF PlanInit, MemoryPlanInv, PlanTypeOK, AnIdIsOfOnePlan, StaleMovesFail, StepIds, StepStates, NothingRead, NoEdit
<1>2. MemoryPlanInv /\ [PlanNext]_planVars => MemoryPlanInv'
  <2> SUFFICES ASSUME MemoryPlanInv, [PlanNext]_planVars
               PROVE  MemoryPlanInv'
    OBVIOUS
  <2> USE PlanAssumption DEF MemoryPlanInv, PlanTypeOK, AnIdIsOfOnePlan, StaleMovesFail, StepIds, NothingRead, NoEdit
  <2>1. ASSUME NEW st \in StepStates, SaveMemoryPlan(st) PROVE MemoryPlanInv'
    BY <2>1 DEF SaveMemoryPlan, NewStep
  <2>2. ASSUME NEW c \in Movers, NEW st \in StepStates, PlanStep(c, st) PROVE MemoryPlanInv'
    <3>1. recalled[c].step \in StepIds
      BY <2>2 DEF PlanStep
    <3>2. steps[recalled[c].step] # "none" => recalled[c].plan = planNo
      BY <3>1
    <3>3. ~astray'
      <4>1. CASE steps[recalled[c].step] = "none"
        BY <2>2, <4>1 DEF PlanStep
      <4>2. CASE steps[recalled[c].step] # "none"
        BY <2>2, <3>2, <4>2 DEF PlanStep
      <4> QED
        BY <4>1, <4>2
    <3> QED
      BY <2>2, <3>1, <3>3 DEF PlanStep
  <2>3. ASSUME NEW c \in Movers, NEW p \in StepIds, MemoryRecall(c, p) PROVE MemoryPlanInv'
    BY <2>3 DEF MemoryRecall
  <2>4. ASSUME NEW e \in Editors, StepWritten(e) PROVE MemoryPlanInv'
    <3>1. editing[e].pc = "write" /\ editing[e].step \in StepIds
      BY <2>4 DEF StepWritten
    <3>2. steps[editing[e].step] # "none" => editing[e].plan = planNo
      BY <3>1
    <3>3. astray' = FALSE
      BY <2>4, <3>2 DEF StepWritten
    <3> QED
      BY <2>4, <3>1, <3>3 DEF StepWritten
  <2>5. ASSUME NEW e \in Editors, NEW p \in StepIds, NEW asks \in StepStates \cup {"none"}, StepRead(e, p, asks)
        PROVE  MemoryPlanInv'
    BY <2>5 DEF StepRead
  <2>6. ASSUME NEW h \in Rememberers, PageThenNote(h) \/ NoteRefs(h) PROVE MemoryPlanInv'
    BY <2>6 DEF PageThenNote, NoteRefs
  <2>7. CASE PageByHand
    BY <2>7 DEF PageByHand
  <2>8. CASE ForgetPlan
    BY <2>8 DEF ForgetPlan
  <2>9. CASE UNCHANGED planVars
    BY <2>9 DEF planVars
  <2> QED
    BY <2>1, <2>2, <2>3, <2>4, <2>5, <2>6, <2>7, <2>8, <2>9 DEF PlanNext
<1>3. MemoryPlanInv => StaleMovesFail
  BY DEF MemoryPlanInv
<1> QED
  BY <1>1, <1>2, <1>3, PTL DEF PlanSpec

-----------------------------------------------------------------------------
(* Settings: the settings file. *)

\* A settings document, reduced to what the next start looks at.
Document == [mode : {"", "direct", "relay"}, relay : BOOLEAN, addr : BOOLEAN, url : BOOLEAN, tunnel : BOOLEAN,
             rung : Rungs, boundary : BOOLEAN]

\* A document that is looser than the defaults only in what the user has said.
AsChosen(d) == (~d.boundary => chosen.off) /\ (d.rung = "open" => chosen.open)

\* The types of the state.
SettingsTypeOK ==
  /\ file \in [state : {"whole", "empty", "garbled"}, doc : Document]
  /\ saver \in [Writers -> [pc : {"idle", "load", "empty", "fill"}, op : CoreOps \cup CommandOps \cup {"rung", "none"},
                            asks : Rungs \cup {"none"}, doc : Document]]
  /\ chosen \in [off : BOOLEAN, open : BOOLEAN]
  /\ boundary \in BOOLEAN /\ rung \in Rungs

\* What is in the file, in the hands of a save between its load and its write, and in the running Core is
\* looser than the defaults only where the user has said so.
SettingsInv ==
  /\ SettingsTypeOK
  /\ AsChosen(file.doc) /\ \A s \in Writers : AsChosen(saver[s].doc)
  /\ \A s \in Writers : /\ saver[s].pc = "load" => saver[s].op \in CoreOps \cup CommandOps \cup {"rung"}
                        /\ saver[s].op = "rung" => saver[s].asks \in Rungs
                        /\ saver[s].asks = "open" => chosen.open
  /\ stage \in {"bounded", "up"} => (~boundary => chosen.off)
  /\ stage = "up" => (rung = "open" => chosen.open)

\* Without a file, the defaults are a document, and as tight as can be.
LEMMA DefaultsTight == Defaults \in Document /\ AsChosen(Defaults)
BY DEF Defaults, Document, Rungs, AsChosen

\* Every operation makes a document of a document, and leaves the boundary and the rung alone but for the
\* two that are about them.
LEMMA ResultKeeps ==
  ASSUME NEW op \in CoreOps \cup CommandOps \cup {"rung"}, NEW r \in Rungs \cup {"none"}, op = "rung" => r \in Rungs,
         NEW d \in Document, NEW e \in Result(op, r, d)
  PROVE  /\ e \in Document
         /\ op # "prefs" => e.boundary = d.boundary
         /\ IF op = "rung" THEN e.rung = r ELSE e.rung = d.rung
<1> USE DEF Document, Rungs
<1>1. CASE op = "direct"
  <2>1. e \in SwitchToDirect(d)
    BY <1>1 DEF Result
  <2>2. PICK t \in BOOLEAN : e = [d EXCEPT !.mode = "direct", !.addr = TRUE, !.url = FALSE, !.tunnel = t]
    BY <2>1 DEF SwitchToDirect
  <2> QED
    BY <2>2, <1>1
<1>2. CASE op = "relay"
  BY <1>2 DEF Result, SwitchToRelay
<1>3. CASE op = "pair"
  BY <1>3 DEF Result, SaveRelayURL
<1>4. CASE op = "listen"
  <2>1. e \in SaveDirect(d)
    BY <1>4 DEF Result
  <2>2. CASE \E u \in BOOLEAN : e = [d EXCEPT !.addr = TRUE, !.url = u, !.mode = "direct"]
    BY <2>2, <1>4
  <2>3. CASE e = [d EXCEPT !.addr = FALSE, !.url = FALSE, !.mode = IF d.relay THEN "relay" ELSE ""]
    BY <2>3, <1>4
  <2> QED
    BY <2>1, <2>2, <2>3 DEF SaveDirect
<1>5. CASE op = "tunnel"
  <2>1. e \in SaveTunnel(d)
    BY <1>5 DEF Result
  <2>2. PICK t \in BOOLEAN : e = [d EXCEPT !.tunnel = t]
    BY <2>1 DEF SaveTunnel
  <2> QED
    BY <2>2, <1>5
<1>6. CASE op = "url"
  <2>1. e \in SavePublicURL(d)
    BY <1>6 DEF Result
  <2>2. PICK u \in BOOLEAN : e = [d EXCEPT !.url = u]
    BY <2>1 DEF SavePublicURL
  <2> QED
    BY <2>2, <1>6
<1>7. CASE op = "rung"
  BY <1>7 DEF Result, SaveCommandRung
<1>8. CASE op = "prefs"
  <2>1. e \in SetPrefs(d)
    BY <1>8 DEF Result
  <2>2. PICK b \in BOOLEAN : e = [d EXCEPT !.boundary = b]
    BY <2>1 DEF SetPrefs
  <2> QED
    BY <2>2, <1>8
<1>9. CASE op = "own"
  BY <1>9 DEF Result, SaveOwnField
<1> QED
  BY <1>1, <1>2, <1>3, <1>4, <1>5, <1>6, <1>7, <1>8, <1>9 DEF CoreOps, CommandOps

\* However saves overlap, and wherever a start's reads fall between them, what protects this computer is
\* looser only where the user has said so.
THEOREM ProtectionIsKept == SettingsSpec => []NothingLoosensByItself
<1> USE DEF SettingsInv, SettingsTypeOK, AsChosen
<1>1. SettingsInit => SettingsInv
  <2>1. \A d \in Stored : d \in Document /\ d.boundary = TRUE /\ d.rung = "workspace"
    <3> DEFINE Tight(d) == d \in Document /\ d.boundary = TRUE /\ d.rung = "workspace"
    <3>1. Tight([Defaults EXCEPT !.relay = TRUE])
      BY DEF Defaults, Document, Rungs
    <3>2. Tight([Defaults EXCEPT !.addr = TRUE, !.url = TRUE])
      BY DEF Defaults, Document, Rungs
    <3>3. Tight([Defaults EXCEPT !.addr = TRUE, !.tunnel = TRUE])
      BY DEF Defaults, Document, Rungs
    <3>4. Tight(Defaults)
      BY DEF Defaults, Document, Rungs
    <3> HIDE DEF Tight
    <3>5. \A d \in Stored : Tight(d)
      BY <3>1, <3>2, <3>3, <3>4 DEF Stored
    <3> QED
      BY <3>5 DEF Tight
  <2> QED
    BY <2>1, DefaultsTight DEF SettingsInit, NoSave, Rungs
<1>2. SettingsInv /\ [SettingsNext]_settingsVars => SettingsInv'
  <2> SUFFICES ASSUME SettingsInv, [SettingsNext]_settingsVars
               PROVE  SettingsInv'
    OBVIOUS
  <2> USE DefaultsTight
  <2>1. ASSUME NEW s \in Savers, NEW r \in Rungs, SetRung(s, r) PROVE SettingsInv'
    BY <2>1 DEF SetRung, Begins, NoSave, Writers, Rungs
  <2>2. ASSUME NEW s \in Writers, NEW op \in CoreOps \cup CommandOps, SaveStarts(s, op) PROVE SettingsInv'
    <3>1. op \notin {"rung", "none"}
      BY DEF CoreOps, CommandOps
    <3> QED
      BY <2>2, <3>1 DEF SaveStarts, Begins, NoSave, Rungs
  <2>3. ASSUME NEW s \in Writers, LoadAndChange(s) PROVE SettingsInv'
    <3>1. CASE saver' = [saver EXCEPT ![s] = NoSave] /\ UNCHANGED <<boundary, chosen>>
      BY <2>3, <3>1 DEF LoadAndChange, NoSave
    <3>2. CASE /\ file.state = "whole"
               /\ \E d \in Result(saver[s].op, saver[s].asks, file.doc) :
                    /\ saver' = [saver EXCEPT ![s] = [@ EXCEPT !.pc = "empty", !.doc = d]]
                    /\ IF saver[s].op = "prefs"
                       THEN boundary' = d.boundary /\ chosen' = [chosen EXCEPT !.off = @ \/ ~d.boundary]
                       ELSE UNCHANGED <<boundary, chosen>>
      <4>1. PICK d \in Result(saver[s].op, saver[s].asks, file.doc) :
                 /\ saver' = [saver EXCEPT ![s] = [saver[s] EXCEPT !.pc = "empty", !.doc = d]]
                 /\ IF saver[s].op = "prefs"
                    THEN boundary' = d.boundary /\ chosen' = [chosen EXCEPT !.off = chosen.off \/ ~d.boundary]
                    ELSE UNCHANGED <<boundary, chosen>>
        BY <3>2
      <4>2. /\ d \in Document
            /\ saver[s].op # "prefs" => d.boundary = file.doc.boundary
            /\ IF saver[s].op = "rung" THEN d.rung = saver[s].asks ELSE d.rung = file.doc.rung
        <5>1. saver[s].op \in CoreOps \cup CommandOps \cup {"rung"} /\ saver[s].asks \in Rungs \cup {"none"}
              /\ (saver[s].op = "rung" => saver[s].asks \in Rungs) /\ file.doc \in Document
          BY <2>3 DEF LoadAndChange
        <5>2. d \in Result(saver[s].op, saver[s].asks, file.doc)
          OBVIOUS
        <5>3. PICK o, r, f : o = saver[s].op /\ r = saver[s].asks /\ f = file.doc
          OBVIOUS
        <5> HIDE DEF SettingsInv, SettingsTypeOK, AsChosen
        <5>4. /\ o \in CoreOps \cup CommandOps \cup {"rung"} /\ r \in Rungs \cup {"none"}
              /\ (o = "rung" => r \in Rungs) /\ f \in Document /\ d \in Result(o, r, f)
          BY ONLY <5>1, <5>2, <5>3
        <5>5. /\ d \in Document
              /\ o # "prefs" => d.boundary = f.boundary
              /\ IF o = "rung" THEN d.rung = r ELSE d.rung = f.rung
          BY ONLY <5>4, ResultKeeps
        <5> QED
          BY ONLY <5>3, <5>5
      <4>3. UNCHANGED <<file, saves, stage, rung>>
        BY <2>3 DEF LoadAndChange
      <4>4. /\ chosen' \in [off : BOOLEAN, open : BOOLEAN] /\ boundary' \in BOOLEAN
            /\ (chosen.off => chosen'.off) /\ chosen'.open = chosen.open
            /\ ~d.boundary => chosen'.off
            /\ stage \in {"bounded", "up"} => (~boundary' => chosen'.off)
        <5>1. d.boundary \in BOOLEAN
          BY <4>2 DEF Document
        <5> QED
          BY <4>1, <4>2, <5>1
      <4>5. d.rung = "open" => chosen'.open
        BY <4>2, <4>4
      <4>6. SettingsTypeOK'
        <5>1. saver' \in [Writers -> [pc : {"idle", "load", "empty", "fill"},
                                      op : CoreOps \cup CommandOps \cup {"rung", "none"},
                                      asks : Rungs \cup {"none"}, doc : Document]]
          <6>1. saver' = [saver EXCEPT ![s] = [saver[s] EXCEPT !.pc = "empty", !.doc = d]] /\ d \in Document
            BY <4>1, <4>2
          <6>2. [saver[s] EXCEPT !.pc = "empty", !.doc = d] \in
                  [pc : {"idle", "load", "empty", "fill"}, op : CoreOps \cup CommandOps \cup {"rung", "none"},
                   asks : Rungs \cup {"none"}, doc : Document]
            BY <6>1
          <6> QED
            BY <6>1, <6>2
        <5> QED
          BY <5>1, <4>3, <4>4
      <4>7. AsChosen(file.doc)' /\ \A o \in Writers : AsChosen(saver[o].doc)'
        <5>1. \A o \in Writers : saver'[o].doc = saver[o].doc \/ saver'[o].doc = d
          BY <4>1
        <5> QED
          BY <5>1, <4>3, <4>4, <4>5
      <4>8. \A o \in Writers : /\ saver'[o].pc # "load" \/ saver'[o].pc = saver[o].pc
                               /\ saver'[o].op = saver[o].op /\ saver'[o].asks = saver[o].asks
        BY <4>1
      <4> QED
        BY <4>6, <4>7, <4>8, <4>3, <4>4
    <3> QED
      BY <2>3, <3>1, <3>2 DEF LoadAndChange
  <2>4. ASSUME NEW s \in Writers, Empties(s) PROVE SettingsInv'
    BY <2>4 DEF Empties
  <2>5. ASSUME NEW s \in Writers, Fills(s) PROVE SettingsInv'
    <3>1. /\ chosen' \in [off : BOOLEAN, open : BOOLEAN]
          /\ chosen'.off = chosen.off /\ chosen'.open = chosen.open
      BY <2>5 DEF Fills
    <3>2. /\ file' = [state |-> "whole", doc |-> saver[s].doc] \/ file' = [file EXCEPT !.state = "garbled"]
          /\ saver' = [saver EXCEPT ![s] = NoSave] /\ UNCHANGED <<saves, stage, rung, boundary>>
      BY <2>5 DEF Fills
    <3> QED
      BY <3>1, <3>2 DEF NoSave
  <2>6. CASE StartParses
    BY <2>6 DEF StartParses
  <2>7. CASE StartBounds
    <3>1. file.doc.boundary \in BOOLEAN
      BY DEF Document
    <3> QED
      BY <2>7, <3>1 DEF StartBounds, ReadBoundaryEnabled
  <2>8. CASE StartReadsRung
    <3>1. file.doc.rung \in Rungs
      BY DEF Document
    <3> QED
      BY <2>8, <3>1 DEF StartReadsRung
  <2>9. CASE ServingEnds
    BY <2>9 DEF ServingEnds, NoSave
  <2>10. CASE UNCHANGED settingsVars
    BY <2>10 DEF settingsVars
  <2> QED
    BY <2>1, <2>2, <2>3, <2>4, <2>5, <2>6, <2>7, <2>8, <2>9, <2>10 DEF SettingsNext
<1>3. SettingsInv => NothingLoosensByItself
  BY DEF NothingLoosensByItself
<1> QED
  BY <1>1, <1>2, <1>3, PTL DEF SettingsSpec

-----------------------------------------------------------------------------
(* Connect: the tunnel process and the address it publishes. *)

\* A tunnel's manager.
Managers == [sup : {"none", "start", "run", "asked", "ended", "told", "failed", "done"},
             proc : {"none", "up", "asked", "dead"}, scan : {"idle", "reading", "calls"},
             run : Nat, url : Nat, held : BOOLEAN, cancelled : BOOLEAN]

\* The types of the state.
ConnectTypeOK ==
  /\ manager \in [Tunnels -> Managers]
  /\ tunnel \in Tunnels \cup {NoTunnel} /\ first \in Tunnels \cup {NoTunnel}
  /\ published \in [by : Tunnels \cup {NoTunnel}, run : Nat]
  /\ switch \in [Actors -> [pc : {"idle", "cancel", "wait", "tell", "stopped", "start", "keep"},
                            does : {"none", "apply", "stop"}, on : Tunnels \cup {NoTunnel}]]
  /\ core \in {"up", "stopping", "gone"}

\* A stop under way is the stop of a manager.
StopsSomething ==
  \A a \in Actors : switch[a].pc \in {"cancel", "wait", "tell", "keep"} => switch[a].on \in Tunnels

\* Output is read only while runOnce waits for it, and an address that was found in
\* it is the one of this run.
ScansItsOwnRun ==
  \A m \in Tunnels :
    /\ manager[m].scan # "idle" => manager[m].sup \in {"run", "asked"} /\ manager[m].run # 0
    /\ manager[m].scan = "calls" => manager[m].url = manager[m].run

\* As long as the Core is up, a manager is cancelled by a Stop, which then waits for it.
CancelledIsAwaited ==
  core = "up" => \A m \in Tunnels : manager[m].cancelled /\ manager[m].sup # "done" =>
                   \E a \in Actors : switch[a].on = m /\ switch[a].pc = "wait"

\* Whoever's address is published has not lost it unnoticed: the run that announced it
\* goes on, or somebody who is about to withdraw it knows.
WithdrawalIsDue ==
  core = "up" => \A m \in Tunnels : published.by = m =>
    /\ manager[m].run = published.run
    /\ \/ manager[m].sup \in {"run", "asked", "ended"} /\ manager[m].url # 0
       \/ manager[m].sup = "told"
       \/ /\ manager[m].sup = "done"
          /\ \E a \in Actors : /\ switch[a].on = m
                               /\ switch[a].pc = "tell" \/ (switch[a].pc = "wait" /\ manager[m].url # 0)

\* The inductive invariant of the published address.
PublishedInv ==
  /\ ConnectTypeOK
  /\ StopsSomething
  /\ ScansItsOwnRun
  /\ CancelledIsAwaited
  /\ WithdrawalIsDue
  /\ published.by = NoTunnel => published \in {Unpublished, Restored}

\* The steps of a switch or a stop.
ConnectStages == {"idle", "cancel", "wait", "tell", "stopped", "start", "keep"}

\* The supervisor's goroutine and the scanner of the tunnel's output keep the invariant.
LEMMA ConnectSteps ==
  ASSUME PublishedInv, NEW m \in Tunnels, Supervision(m)
  PROVE  PublishedInv'
<1> USE ConnectAssumption DEF PublishedInv, ConnectTypeOK, StopsSomething, ScansItsOwnRun, CancelledIsAwaited, WithdrawalIsDue, Supervises, Unpublished, Restored, Managers
<1>1. ASSUME RunStarts(m) PROVE PublishedInv'
  <2>1. CASE manager' = [manager EXCEPT ![m].sup = "ended"]
    BY <1>1, <2>1 DEF RunStarts
  <2>2. CASE manager' = [manager EXCEPT ![m].sup = "run", ![m].proc = "up", ![m].scan = "reading", ![m].run = @ + 1]
    <3>1. manager[m].run + 1 \in Nat /\ manager[m].run + 1 # 0
      OBVIOUS
    <3>2. manager' \in [Tunnels -> Managers]
      BY <2>2, <3>1
    <3>3. /\ manager'[m].sup = "run" /\ manager'[m].scan = "reading" /\ manager'[m].run # 0
          /\ manager'[m].url = manager[m].url /\ manager'[m].cancelled = manager[m].cancelled
          /\ \A n \in Tunnels \ {m} : manager'[n] = manager[n]
      BY <2>2, <3>1
    <3>4. manager[m].sup = "start" /\ UNCHANGED <<tunnel, first, published, switch, core>>
      BY <1>1 DEF RunStarts
    <3>5. core = "up" => published.by # m
      BY <3>4
    <3> QED
      BY <3>2, <3>3, <3>4, <3>5
  <2> QED
    BY <1>1, <2>1, <2>2 DEF RunStarts
<1>2. ASSUME ScanFinds(m) PROVE PublishedInv'
  BY <1>2 DEF ScanFinds
<1>3. ASSUME ScanTells(m) PROVE PublishedInv'
  BY <1>3 DEF ScanTells
<1>4. ASSUME ScanEnds(m) PROVE PublishedInv'
  BY <1>4 DEF ScanEnds
<1>5. ASSUME ProcessEnds(m) PROVE PublishedInv'
  BY <1>5 DEF ProcessEnds
<1>6. ASSUME Interrupts(m) PROVE PublishedInv'
  <2>0. manager[m].sup = "run" /\ UNCHANGED <<tunnel, first, published, switch, core>>
    BY <1>6 DEF Interrupts
  <2>1. CASE manager' = [manager EXCEPT ![m].sup = "asked", ![m].proc = "asked"]
    <3>1. manager' \in [Tunnels -> Managers]
      <4>1. manager \in [Tunnels -> Managers] /\ manager[m] \in Managers
        OBVIOUS
      <4> HIDE DEF PublishedInv
      <4>2. manager'[m] = [manager[m] EXCEPT !.sup = "asked", !.proc = "asked"]
        BY <2>1, <4>1
      <4>3. manager'[m] \in Managers
        BY <4>1, <4>2
      <4>4. DOMAIN manager' = Tunnels /\ \A n \in Tunnels \ {m} : manager'[n] = manager[n]
        BY <2>1, <4>1
      <4>5. manager' = [n \in Tunnels |-> manager'[n]]
        BY <2>1, <4>1
      <4> QED
        BY <4>1, <4>3, <4>4, <4>5
    <3>2. /\ manager'[m].sup = "asked" /\ manager'[m].scan = manager[m].scan /\ manager'[m].run = manager[m].run
          /\ manager'[m].url = manager[m].url /\ manager'[m].cancelled = manager[m].cancelled
          /\ \A n \in Tunnels \ {m} : manager'[n] = manager[n]
      BY <2>1
    <3> QED
      BY <2>0, <3>1, <3>2
  <2>2. CASE manager' = [manager EXCEPT ![m].sup = "asked"]
    BY <2>0, <2>2
  <2> QED
    BY <1>6, <2>1, <2>2 DEF Interrupts
<1>7. ASSUME RunReturns(m) PROVE PublishedInv'
  BY <1>7 DEF RunReturns, Exited
<1>8. ASSUME RunEnded(m) PROVE PublishedInv'
  <2>1. manager[m].sup = "ended" /\ core # "gone" /\ UNCHANGED <<tunnel, first, published, switch, core>>
    BY <1>8 DEF RunEnded
  <2>2. CASE manager[m].cancelled
    BY <1>8, <2>1, <2>2 DEF RunEnded
  <2>3. CASE ~manager[m].cancelled /\ manager[m].url = 0
    BY <1>8, <2>1, <2>3 DEF RunEnded, DropsAddress
  <2>4. CASE ~manager[m].cancelled /\ manager[m].url # 0
    BY <1>8, <2>1, <2>4 DEF RunEnded, DropsAddress
  <2> QED
    BY <2>2, <2>3, <2>4
<1>9. ASSUME SuperviseTells(m) PROVE PublishedInv'
  BY <1>9 DEF SuperviseTells
<1>10. ASSUME BacksOff(m) PROVE PublishedInv'
  <2>1. manager[m].sup = "failed" /\ UNCHANGED <<tunnel, first, published, switch, core>>
    BY <1>10 DEF BacksOff
  <2>2. CASE manager' = [manager EXCEPT ![m].sup = "done"]
    BY <2>1, <2>2
  <2>3. CASE manager' = [manager EXCEPT ![m].sup = "start"]
    BY <2>1, <2>3
  <2> QED
    BY <1>10, <2>2, <2>3 DEF BacksOff
<1> QED
  BY <1>1, <1>2, <1>3, <1>4, <1>5, <1>6, <1>7, <1>8, <1>9, <1>10 DEF Supervision

\* Stop, from a switch of providers or at the end of the Core, keeps the invariant.
LEMMA StopSteps ==
  ASSUME PublishedInv, NEW a \in Actors, Stop(a)
  PROVE  PublishedInv'
<1> DEFINE ST == [pc : ConnectStages, does : {"none", "apply", "stop"}, on : Tunnels \cup {NoTunnel}]
<1>t. manager \in [Tunnels -> Managers] /\ switch \in [Actors -> ST] /\ NoTunnel \notin Tunnels
  BY ConnectAssumption DEF PublishedInv, ConnectTypeOK, ConnectStages
<1>s. ASSUME NEW pc \in ConnectStages, switch' = [switch EXCEPT ![a].pc = pc]
      PROVE  /\ switch' \in [Actors -> ST] /\ switch'[a].pc = pc /\ switch'[a].on = switch[a].on
             /\ \A b \in Actors \ {a} : switch'[b] = switch[b]
  BY <1>s, <1>t
<1>1. ASSUME StopCancels(a) PROVE PublishedInv'
  <2>1. PICK m \in Tunnels : m = switch[a].on
    BY <1>1 DEF StopCancels, PublishedInv, StopsSomething, Stands
  <2>2. switch[a].pc = "cancel" /\ UNCHANGED <<tunnel, first, published, core>>
    BY <1>1 DEF StopCancels, Stands
  <2>3. PICK pc \in {"wait", "stopped"} : switch' = [switch EXCEPT ![a].pc = pc] /\ (manager[m].held => pc = "wait")
    BY <1>1, <2>1 DEF StopCancels
  <2>4. PICK c \in BOOLEAN : /\ manager' = [manager EXCEPT ![m].held = FALSE, ![m].cancelled = c]
                             /\ c => manager[m].cancelled \/ manager[m].held
    BY <1>1, <2>1 DEF StopCancels
  <2>5. /\ switch' \in [Actors -> ST] /\ switch'[a].pc = pc /\ switch'[a].on = m
        /\ \A b \in Actors \ {a} : switch'[b] = switch[b]
    BY <1>s, <2>1, <2>3 DEF ConnectStages
  <2>6. /\ manager' \in [Tunnels -> Managers]
        /\ \A n \in Tunnels : /\ manager'[n].sup = manager[n].sup /\ manager'[n].run = manager[n].run
                              /\ manager'[n].url = manager[n].url /\ manager'[n].scan = manager[n].scan
    <3>1. manager' \in [Tunnels -> Managers]
      <4>1. manager'[m] = [manager[m] EXCEPT !.held = FALSE, !.cancelled = c]
        BY <1>t, <2>4
      <4>2. manager[m] \in Managers
        BY <1>t
      <4>3. manager'[m] \in Managers
        BY <4>1, <4>2 DEF Managers
      <4>4. DOMAIN manager' = Tunnels /\ \A n \in Tunnels \ {m} : manager'[n] = manager[n]
        BY <1>t, <2>4
      <4>5. manager' = [n \in Tunnels |-> manager'[n]]
        BY <1>t, <2>4
      <4> QED
        BY <1>t, <4>3, <4>4, <4>5
    <3> QED
      BY <1>t, <2>4, <3>1 DEF Managers
  <2>7. \A n \in Tunnels : manager'[n].cancelled => manager[n].cancelled \/ (n = m /\ manager[m].held)
    BY <1>t, <2>4 DEF Managers
  <2>8. ConnectTypeOK'
    BY <2>2, <2>5, <2>6 DEF PublishedInv, ConnectTypeOK, ConnectStages
  <2>9. StopsSomething'
    BY <2>2, <2>3, <2>5 DEF PublishedInv, StopsSomething
  <2>10. ScansItsOwnRun'
    BY <2>6 DEF PublishedInv, ScansItsOwnRun
  <2>11. CancelledIsAwaited'
    BY <2>2, <2>3, <2>5, <2>6, <2>7 DEF PublishedInv, CancelledIsAwaited
  <2>12. WithdrawalIsDue'
    BY <2>2, <2>5, <2>6 DEF PublishedInv, WithdrawalIsDue
  <2> QED
    BY <2>2, <2>8, <2>9, <2>10, <2>11, <2>12 DEF PublishedInv, Unpublished, Restored
<1>2. ASSUME StopClears(a) PROVE PublishedInv'
  <2>1. PICK m \in Tunnels : m = switch[a].on
    BY <1>2 DEF StopClears, PublishedInv, StopsSomething, Stands
  <2>2. switch[a].pc = "wait" /\ manager[m].sup = "done" /\ UNCHANGED <<tunnel, first, published, core>>
    BY <1>2, <2>1 DEF StopClears, Stands
  <2>3. PICK pc \in {"stopped", "tell"} :
          switch' = [switch EXCEPT ![a].pc = pc] /\ (manager[m].url # 0 => pc = "tell")
    BY <1>2, <2>1 DEF StopClears
  <2>4. manager' = [manager EXCEPT ![m].url = 0]
    BY <1>2, <2>1 DEF StopClears
  <2>5. /\ switch' \in [Actors -> ST] /\ switch'[a].pc = pc /\ switch'[a].on = m
        /\ \A b \in Actors \ {a} : switch'[b] = switch[b]
    BY <1>s, <2>1, <2>3 DEF ConnectStages
  <2>6. /\ manager' \in [Tunnels -> Managers]
        /\ \A n \in Tunnels : /\ manager'[n].sup = manager[n].sup /\ manager'[n].run = manager[n].run
                              /\ manager'[n].scan = manager[n].scan
                              /\ n # m => manager'[n].url = manager[n].url
    BY <1>t, <2>4 DEF Managers
  <2>7. \A n \in Tunnels : manager'[n].cancelled => manager[n].cancelled
    BY <1>t, <2>4 DEF Managers
  <2>8. ConnectTypeOK'
    BY <2>2, <2>5, <2>6 DEF PublishedInv, ConnectTypeOK, ConnectStages
  <2>9. StopsSomething'
    BY <2>2, <2>3, <2>5 DEF PublishedInv, StopsSomething
  <2>10. ScansItsOwnRun'
    BY <2>2, <2>6 DEF PublishedInv, ScansItsOwnRun
  <2>11. CancelledIsAwaited'
    BY <2>1, <2>2, <2>5, <2>6, <2>7 DEF PublishedInv, CancelledIsAwaited
  <2>12. WithdrawalIsDue'
    BY <2>1, <2>2, <2>3, <2>5, <2>6 DEF PublishedInv, WithdrawalIsDue
  <2> QED
    BY <2>2, <2>8, <2>9, <2>10, <2>11, <2>12 DEF PublishedInv, Unpublished, Restored
<1>3. ASSUME StopTells(a) PROVE PublishedInv'
  BY <1>3, ConnectAssumption DEF StopTells, Stands, PublishedInv, ConnectTypeOK, StopsSomething, ScansItsOwnRun, CancelledIsAwaited, WithdrawalIsDue, Unpublished, Restored
<1> QED
  BY <1>1, <1>2, <1>3 DEF Stop

\* The address the Core announces is of the run that printed it, as long as that run lasts or somebody is on
\* the way to withdraw it: a line read from a dead run publishes nothing.
THEOREM PublishedAlive == ConnectSpec => []PublishedIsAlive
<1>1. ConnectInit => PublishedInv
  <2> SUFFICES ASSUME ConnectInit PROVE PublishedInv
    OBVIOUS
  <2>1. PICK m \in Tunnels \cup {NoTunnel} :
          /\ first = m /\ tunnel = m
          /\ manager = [n \in Tunnels |-> IF n = m THEN Started ELSE Unbuilt]
    BY DEF ConnectInit
  <2>2. /\ Started \in Managers /\ Started.scan = "idle" /\ ~Started.cancelled
        /\ Unbuilt \in Managers /\ Unbuilt.scan = "idle" /\ ~Unbuilt.cancelled
    BY DEF Started, Unbuilt, NewManager, Managers
  <2>3. /\ manager \in [Tunnels -> Managers]
        /\ \A n \in Tunnels : manager[n].scan = "idle" /\ ~manager[n].cancelled
    BY <2>1, <2>2
  <2>4. published \in {Unpublished, Restored} /\ switch = [a \in Actors |-> AtRest] /\ core = "up"
    BY DEF ConnectInit
  <2> QED
    BY <2>1, <2>3, <2>4, ConnectAssumption DEF PublishedInv, ConnectTypeOK, StopsSomething, ScansItsOwnRun, CancelledIsAwaited,
      WithdrawalIsDue, Unpublished, Restored, AtRest, At
<1>2. PublishedInv /\ [ConnectNext]_connectVars => PublishedInv'
  <2> SUFFICES ASSUME PublishedInv, [ConnectNext]_connectVars
               PROVE  PublishedInv'
    OBVIOUS
  <2> USE ConnectAssumption DEF PublishedInv, ConnectTypeOK, StopsSomething, ScansItsOwnRun, CancelledIsAwaited, WithdrawalIsDue, Unpublished, Restored, Goes, Stands
  <2>14. ASSUME NEW s \in Switches, NEW does \in {"apply", "stop"}, StopTakes(s, does) PROVE PublishedInv'
    BY <2>14 DEF StopTakes, Actors, At
  <2>15. ASSUME NEW s \in Switches, Unpublishes(s) PROVE PublishedInv'
    BY <2>15 DEF Unpublishes, Actors, AtRest, At
  <2>16. ASSUME NEW s \in Switches, StartTunnel(s) PROVE PublishedInv'
    <3>1. CASE Goes(s, AtRest) /\ UNCHANGED manager
      BY <2>16, <3>1 DEF StartTunnel, Actors, AtRest, At
    <3>2. ASSUME NEW m \in Tunnels, manager[m] = Unbuilt, Becomes(m, Started), Goes(s, At("keep", "none", m))
          PROVE  PublishedInv'
      <4>1. /\ manager[m].sup = "none" /\ manager[m].scan = "idle"
            /\ Started \in Managers /\ Started.sup = "start" /\ Started.scan = "idle" /\ ~Started.cancelled
        BY <3>2 DEF Unbuilt, Started, NewManager, Managers
      <4>2. /\ manager' \in [Tunnels -> Managers] /\ manager'[m] = Started
            /\ \A n \in Tunnels \ {m} : manager'[n] = manager[n]
        BY <3>2, <4>1 DEF Becomes
      <4>3. switch' = [switch EXCEPT ![s] = [pc |-> "keep", does |-> "none", on |-> m]]
        BY <3>2 DEF At
      <4>4. switch[s].pc = "start" /\ s \in Actors /\ UNCHANGED <<tunnel, first, published, core>>
        BY <2>16 DEF StartTunnel, Actors
      <4>5. switch'[s].pc = "keep" /\ switch'[s].on = m /\ \A b \in Actors \ {s} : switch'[b] = switch[b]
        BY <4>3, <4>4
      <4> HIDE DEF PublishedInv, ConnectTypeOK, StopsSomething, ScansItsOwnRun, CancelledIsAwaited, WithdrawalIsDue
      <4>6. ConnectTypeOK'
        BY <4>2, <4>3, <4>4 DEF PublishedInv, ConnectTypeOK
      <4>7. StopsSomething'
        BY <4>4, <4>5 DEF PublishedInv, StopsSomething
      <4>8. ScansItsOwnRun'
        BY <4>1, <4>2 DEF PublishedInv, ScansItsOwnRun
      <4>9. CancelledIsAwaited'
        BY <4>1, <4>2, <4>4, <4>5 DEF PublishedInv, CancelledIsAwaited
      <4>10. WithdrawalIsDue'
        BY <4>1, <4>2, <4>4, <4>5 DEF PublishedInv, WithdrawalIsDue
      <4> QED
        BY <4>4, <4>6, <4>7, <4>8, <4>9, <4>10 DEF PublishedInv
    <3> QED
      BY <2>16, <3>1, <3>2 DEF StartTunnel
  <2>17. ASSUME NEW s \in Switches, KeepTunnel(s) PROVE PublishedInv'
    BY <2>17 DEF KeepTunnel, Actors, AtRest, At
  <2>18. ASSUME NEW signal \in BOOLEAN, CoreStops(signal) PROVE PublishedInv'
    <3>1. core' = "stopping" /\ UNCHANGED <<tunnel, first, published>>
      BY <2>18 DEF CoreStops
    <3>2. ASSUME NEW m \in Tunnels
          PROVE  /\ manager'[m] \in Managers /\ manager'[m].scan = manager[m].scan /\ manager'[m].sup = manager[m].sup
                 /\ manager'[m].run = manager[m].run /\ manager'[m].url = manager[m].url
      <4>1. PICK c \in BOOLEAN : manager'[m] = [manager[m] EXCEPT !.cancelled = c]
        BY <2>18 DEF CoreStops
      <4> QED
        BY <4>1 DEF Managers
    <3>3. manager' \in [Tunnels -> Managers]
      <4>1. manager' = [m \in Tunnels |-> manager'[m]]
        BY <2>18 DEF CoreStops
      <4> QED
        BY <3>2, <4>1
    <3>4. PICK r \in [pc : {"cancel", "stopped"}, does : {"none", "stop"}, on : Tunnels \cup {NoTunnel}] :
            switch' = [switch EXCEPT ![Core] = r] /\ (r.pc = "cancel" => r.on \in Tunnels)
      <4> DEFINE q == IF first = NoTunnel THEN At("stopped", "none", NoTunnel) ELSE At("cancel", "stop", first)
      <4>1. /\ q \in [pc : {"cancel", "stopped"}, does : {"none", "stop"}, on : Tunnels \cup {NoTunnel}]
            /\ q.pc = "cancel" => q.on \in Tunnels
        BY DEF At
      <4>2. switch' = [switch EXCEPT ![Core] = q]
        BY <2>18 DEF CoreStops
      <4> QED
        BY <4>1, <4>2
    <3> QED
      BY <3>1, <3>2, <3>3, <3>4 DEF Actors
  <2>19. CASE CoreEnds
    BY <2>19 DEF CoreEnds
  <2>20. CASE UNCHANGED connectVars
    BY <2>20 DEF connectVars
  <2> HIDE DEF PublishedInv, ConnectTypeOK, StopsSomething, ScansItsOwnRun, CancelledIsAwaited, WithdrawalIsDue
  <2> QED
    BY ConnectSteps, StopSteps, <2>14, <2>15, <2>16, <2>17, <2>18, <2>19, <2>20 DEF ConnectNext
<1>3. PublishedInv => PublishedIsAlive
  BY DEF PublishedInv, ConnectTypeOK, WithdrawalIsDue, PublishedIsAlive, Unpublished, Restored
<1> QED
  BY <1>1, <1>2, <1>3, PTL DEF ConnectSpec

-----------------------------------------------------------------------------
(* SignIn: the sign-in panel. *)

\* The types of the state.
SignInTypeOK ==
  /\ login \in [Logins -> [pc : {"new", "running", "signed", "returned", "done"}, cancelled : BOOLEAN, ok : BOOLEAN]]
  /\ setup \in [phase : {"idle", "starting", "waiting", "ready", "failed"}, holder : Logins \cup {NoOne}]
  /\ cert \in Nat /\ certs \in Nat /\ signOut \in {"idle", "removed", "failed"}
  /\ zone \in [key : Nat, name : Nat, busy : BOOLEAN]
  /\ lookup \in SUBSET [key : Nat, read : Nat]

\* Certificates are numbered in the order they are written, only the last one can be
\* on disk, and a lookup reads the one it was started for or a later one.
LookupsReadForward ==
  /\ cert = 0 \/ cert = certs
  /\ \A k \in lookup : k.read # 0 => k.key <= k.read /\ k.read <= certs
  /\ zone.name # 0 => zone.key <= zone.name /\ zone.name <= certs

\* The inductive invariant of the sign-in panel.
SignInInv ==
  /\ SignInTypeOK
  /\ LookupsReadForward
  /\ setup.phase = "ready" => cert # 0 \/ signOut \in {"removed", "failed"}
  /\ zone.key <= certs /\ \A k \in lookup : k.key <= certs

\* The panel calls the sign-in finished only while there is a certificate or a sign-out
\* removed it and did not get to the end, and shows the zone of the
\* certificate it read: verdicts and lookups that come late carry the number of what they were started for.
THEOREM PanelTrue == SignInSpec => []PanelIsTrue
<1>1. SignInInit => SignInInv
  BY DEF SignInInit, SignInInv, SignInTypeOK, LookupsReadForward, NewLogin
<1>2. SignInInv /\ [SignInNext]_signInVars => SignInInv'
  <2> SUFFICES ASSUME SignInInv, [SignInNext]_signInVars
               PROVE  SignInInv'
    OBVIOUS
  <2> USE SignInAssumption DEF SignInInv, SignInTypeOK, LookupsReadForward, zoneVars
  <2>1. ASSUME NEW l \in Logins, StartSetup(l) PROVE SignInInv'
    BY <2>1 DEF StartSetup
  <2>2. ASSUME NEW l \in Logins, SetWaiting(l) PROVE SignInInv'
    BY <2>2 DEF SetWaiting
  <2>3. ASSUME NEW l \in Logins, LoginWrites(l) PROVE SignInInv'
    BY <2>3 DEF LoginWrites
  <2>4. ASSUME NEW l \in Logins, NEW ok \in BOOLEAN, LoginReturns(l, ok) PROVE SignInInv'
    BY <2>4 DEF LoginReturns
  <2>5. ASSUME NEW l \in Logins, SetupEnds(l) PROVE SignInInv'
    BY <2>5 DEF SetupEnds, Verdict
  <2>6. CASE CancelSetup
    BY <2>6 DEF CancelSetup
  <2>7. CASE SignOutRemoves
    BY <2>7 DEF SignOutRemoves
  <2>8. CASE SignOutFails \/ ForgetLogin
    BY <2>8 DEF SignOutFails, ForgetLogin
  <2>9. CASE AsksZone
    BY <2>9 DEF AsksZone
  <2>10. ASSUME NEW k \in lookup, LookupReads(k) PROVE SignInInv'
    BY <2>10 DEF LookupReads
  <2>11. ASSUME NEW k \in lookup, NEW ok \in BOOLEAN, LookupReturns(k, ok) PROVE SignInInv'
    BY <2>11 DEF LookupReturns, TakesAnswer
  <2>12. CASE UNCHANGED signInVars
    BY <2>12 DEF signInVars
  <2> QED
    BY <2>1, <2>2, <2>3, <2>4, <2>5, <2>6, <2>7, <2>8, <2>9, <2>10, <2>11, <2>12 DEF SignInNext
<1>3. SignInInv => PanelIsTrue
  BY DEF SignInInv, SignInTypeOK, LookupsReadForward, PanelIsTrue
<1> QED
  BY <1>1, <1>2, <1>3, PTL DEF SignInSpec

-----------------------------------------------------------------------------
(* Download: the tunnel program. *)

DownloadInv ==
  /\ fetch \in [Fetches -> [pc : {"new", "loading", "proven", "installed", "failed", "done"}, cancelled : BOOLEAN]]
  /\ download \in [phase : {"idle", "running", "failed", "ready"}, holder : Fetches \cup {NoFetch}]
  /\ \A f \in Fetches : fetch[f].pc = "new" => ~fetch[f].cancelled
  /\ CancelReachesWhatRuns

\* The panel shows a running download exactly while there is one that a cancel reaches, however many cancelled ones
\* end late beside it: whoever ends clears the cancel and takes the panel off "running" in one step.
THEOREM CancelReaches == DownloadSpec => []CancelReachesWhatRuns
<1>1. DownloadInit => DownloadInv
  BY DownloadAssumption DEF DownloadInit, DownloadInv, NewFetch, CancelReachesWhatRuns
<1>2. DownloadInv /\ [DownloadNext]_downloadVars => DownloadInv'
  <2> SUFFICES ASSUME DownloadInv, [DownloadNext]_downloadVars
               PROVE  DownloadInv'
    OBVIOUS
  <2> USE DownloadAssumption DEF DownloadInv, CancelReachesWhatRuns
  <2>1. ASSUME NEW f \in Fetches, StartDownload(f) PROVE DownloadInv'
    BY <2>1 DEF StartDownload
  <2>2. ASSUME NEW f \in Fetches, Downloaded(f) PROVE DownloadInv'
    BY <2>2 DEF Downloaded
  <2>3. ASSUME NEW f \in Fetches, FetchInstalls(f) PROVE DownloadInv'
    BY <2>3 DEF FetchInstalls
  <2>4. ASSUME NEW f \in Fetches, FetchFails(f) PROVE DownloadInv'
    BY <2>4 DEF FetchFails
  <2>5. ASSUME NEW f \in Fetches, DownloadEnds(f) PROVE DownloadInv'
    BY <2>5 DEF DownloadEnds
  <2>6. CASE CancelDownload
    BY <2>6 DEF CancelDownload
  <2>7. CASE ForgetDownload
    BY <2>7 DEF ForgetDownload
  <2>8. CASE UNCHANGED downloadVars
    BY <2>8 DEF downloadVars
  <2> QED
    BY <2>1, <2>2, <2>3, <2>4, <2>5, <2>6, <2>7, <2>8 DEF DownloadNext
<1>3. DownloadInv => CancelReachesWhatRuns
  BY DEF DownloadInv
<1> QED
  BY <1>1, <1>2, <1>3, PTL DEF DownloadSpec

-----------------------------------------------------------------------------
(* Workspaces: the current folder. *)

\* A row of the workspaces table, whichever folder it registers.
Registration == [status : {"none", "active", "paused", "revoked"}, network : {"allow", "deny"},
                 root : Folders \cup {NoWorkspace}]

\* A request of the manager: the operation, the id it is for and the row it is to leave.
Request == [pc : {"idle", "create", "update", "lock", "open", "fill", "rename"},
            op : Operations \cup {"none"}, id : Workspaces \cup {NoWorkspace}, rec : Registration]

\* The types of the state.
WorkspacesTypeOK ==
  /\ rows \in [Workspaces -> Registration]
  /\ state \in [id : Workspaces \cup {NoWorkspace}, whole : BOOLEAN]
  /\ temp \in [id : Workspaces \cup {NoWorkspace}, whole : BOOLEAN]
  /\ asking \in [Asking -> Request]

\* Between opening the temporary file and the rename.
Writing == {"open", "fill", "rename"}

\* Who writes the state file has the lock, and the temporary file is its own.
WriterHasLock ==
  \A a \in Asking :
    /\ asking[a].pc \in Writing => locked = a
    /\ asking[a].pc \in {"fill", "rename"} => temp.id = Selects(a)
    /\ asking[a].pc = "rename" => temp.whole

\* A request that has read a row writes a row.
ActsOnARow ==
  \A a \in Asking :
    /\ asking[a].pc = "create" => asking[a].rec.status # "none"
    /\ asking[a].pc \in {"update", "lock"} \cup Writing =>
         /\ asking[a].id \in Workspaces /\ rows[asking[a].id].status # "none"
         /\ asking[a].rec.status # "none"

\* The inductive invariant: a row that is there stays there.
SelectionInv ==
  /\ WorkspacesTypeOK
  /\ WriterHasLock
  /\ ActsOnARow
  /\ \A w \in Workspaces : rows[w] # NotRegistered => rows[w].status # "none"
  /\ state.whole
  /\ state.id # NoWorkspace => rows[state.id].status # "none"

\* An operation changes a registered row to a registered row.
LEMMA ChangedRow ==
  ASSUME NEW op \in Operations, NEW r \in Registration, r.status # "none", NEW s \in Changed(op, r)
  PROVE  s \in Registration /\ s.status # "none"
BY DEF Operations, Registration, Changed

\* A step of one request leaves the others as they are.
LEMMA OneRequest ==
  ASSUME WorkspacesTypeOK, NEW a \in Asking, NEW r \in Request, AskingGoes(a, r)
  PROVE  /\ asking' \in [Asking -> Request] /\ asking'[a] = r
         /\ \A b \in Asking : b # a => asking'[b] = asking[b]
BY DEF WorkspacesTypeOK, AskingGoes

\* A request that goes on keeps the rest of what it is.
LEMMA RequestGoesOn ==
  ASSUME WorkspacesTypeOK, NEW a \in Asking, NEW p \in {"lock", "open", "fill", "rename"},
         asking' = [asking EXCEPT ![a].pc = p]
  PROVE  /\ asking' \in [Asking -> Request]
         /\ asking'[a].pc = p /\ asking'[a].op = asking[a].op /\ asking'[a].id = asking[a].id
         /\ asking'[a].rec = asking[a].rec
         /\ \A b \in Asking : b # a => asking'[b] = asking[b]
BY DEF WorkspacesTypeOK, Request

\* A request that is not under way is a request.
LEMMA NotAskingType == NotAsking \in Request /\ NotAsking.pc = "idle"
BY DEF NotAsking, NotRegistered, Request, Registration, Operations

\* The file that names the current folder is whole and names a registered one (or none), whatever was
\* interrupted: the temporary file is written under the manager's lock and renamed when it is complete, and
\* no operation of the table takes a row away.
THEOREM SelectionSafe == WorkspacesSpec => []SelectionIsWhole
<1>1. WorkspacesInit => SelectionInv
  BY WorkspacesAssumption DEF WorkspacesInit, SelectionInv, WorkspacesTypeOK, WriterHasLock, ActsOnARow, Registration,
     NotRegistered, NotAsking, Writing, Operations, Request
<1>2. SelectionInv /\ [WorkspacesNext]_workspacesVars => SelectionInv'
  <2> SUFFICES ASSUME SelectionInv, [WorkspacesNext]_workspacesVars
               PROVE  SelectionInv'
    OBVIOUS
  <2> USE WorkspacesAssumption DEF SelectionInv, WorkspacesTypeOK, WriterHasLock, ActsOnARow, Writing, Selects, Nobody
  <2>1. ASSUME NEW a \in Asking, NEW f \in Folders, AddLists(a, f) PROVE SelectionInv'
    <3> DEFINE r == [NotAsking EXCEPT !.pc = "create", !.rec = [status |-> "active", network |-> "allow", root |-> f]]
    <3>1. r \in Request /\ r.pc = "create" /\ r.rec.status = "active"
      BY DEF NotAsking, NotRegistered, Request, Registration, Operations
    <3> HIDE DEF r
    <3>2. AskingGoes(a, r)
      BY <2>1 DEF AddLists, r
    <3> QED
      BY <2>1, <3>1, <3>2, OneRequest DEF AddLists
  <2>2. ASSUME NEW a \in Asking, NEW w \in Workspaces, CreateWorkspace(a, w) PROVE SelectionInv'
    <3>1. asking[a].rec \in Registration /\ asking[a].rec.status # "none"
      BY <2>2 DEF CreateWorkspace, Request
    <3> QED
      BY <2>2, <3>1, OneRequest, NotAskingType DEF CreateWorkspace
  <2>3. ASSUME NEW a \in Asking, NEW w \in Workspaces, NEW op \in Operations, GetWorkspace(a, op, w) PROVE SelectionInv'
    <3> DEFINE q(rec) == [pc |-> IF op = "current" THEN "lock" ELSE "update", op |-> op, id |-> w, rec |-> rec]
    <3> PICK rec \in Changed(op, rows[w]) : AskingGoes(a, q(rec))
      BY <2>3 DEF GetWorkspace
    <3>1. rec \in Registration /\ rec.status # "none"
      BY <2>3, ChangedRow DEF GetWorkspace
    <3>2. q(rec) \in Request /\ q(rec).pc \in {"lock", "update"} /\ q(rec).id = w /\ q(rec).rec = rec
      BY <3>1 DEF Request
    <3> HIDE DEF q
    <3> QED
      BY <2>3, <3>1, <3>2, OneRequest DEF GetWorkspace
  <2>4. ASSUME NEW a \in Asking, UpdateWorkspace(a) PROVE SelectionInv'
    <3>1. asking[a].rec \in Registration /\ asking[a].rec.status # "none"
      BY <2>4 DEF UpdateWorkspace, Request
    <3>2. CASE asking[a].op = "revoke"
      BY <2>4, <3>1, <3>2, RequestGoesOn DEF UpdateWorkspace
    <3>3. CASE asking[a].op # "revoke"
      BY <2>4, <3>1, <3>3, OneRequest, NotAskingType DEF UpdateWorkspace
    <3> QED
      BY <3>2, <3>3
  <2>5. ASSUME NEW a \in Asking, LockState(a) PROVE SelectionInv'
    <3>1. CASE asking[a].op = "revoke" /\ state.id # asking[a].id
      BY <2>5, <3>1, OneRequest, NotAskingType DEF LockState
    <3>2. CASE ~(asking[a].op = "revoke" /\ state.id # asking[a].id)
      BY <2>5, <3>2, RequestGoesOn DEF LockState
    <3> QED
      BY <3>1, <3>2
  <2>6. ASSUME NEW a \in Asking, WriteOpens(a) PROVE SelectionInv'
    <3>1. \A b \in Asking : asking[b].pc \in Writing => b = a
      BY <2>6 DEF WriteOpens
    <3>2. temp' = [id |-> Selects(a), whole |-> FALSE] /\ Selects(a) \in Workspaces \cup {NoWorkspace}
      BY <2>6 DEF WriteOpens, OpensTemp, Request
    <3>3. /\ asking' \in [Asking -> Request] /\ asking'[a].pc = "fill" /\ asking'[a].op = asking[a].op
          /\ asking'[a].id = asking[a].id /\ asking'[a].rec = asking[a].rec
          /\ \A b \in Asking : b # a => asking'[b] = asking[b]
      BY <2>6, RequestGoesOn DEF WriteOpens
    <3>4. /\ asking[a].pc \in Writing /\ UNCHANGED <<rows, state, locked>>
      BY <2>6 DEF WriteOpens, OpensTemp
    <3> QED
      BY <3>1, <3>2, <3>3, <3>4
  <2>7. ASSUME NEW a \in Asking, WriteFills(a) PROVE SelectionInv'
    <3>1. \A b \in Asking : asking[b].pc \in Writing => b = a
      BY <2>7 DEF WriteFills
    <3>2. temp' = [id |-> temp.id, whole |-> TRUE]
      BY <2>7 DEF WriteFills
    <3>3. /\ asking' \in [Asking -> Request] /\ asking'[a].pc = "rename" /\ asking'[a].op = asking[a].op
          /\ asking'[a].id = asking[a].id /\ asking'[a].rec = asking[a].rec
          /\ \A b \in Asking : b # a => asking'[b] = asking[b]
      BY <2>7, RequestGoesOn DEF WriteFills
    <3>4. /\ asking[a].pc \in Writing /\ UNCHANGED <<rows, state, locked>>
          /\ temp.id = Selects(a)
      BY <2>7 DEF WriteFills
    <3> QED
      BY <3>1, <3>2, <3>3, <3>4
  <2>8. ASSUME NEW a \in Asking, WriteRenames(a) PROVE SelectionInv'
    BY <2>8, OneRequest, NotAskingType DEF WriteRenames
  <2>9. CASE CoreCrashes
    BY <2>9, NotAskingType DEF CoreCrashes
  <2>10. CASE UNCHANGED workspacesVars
    BY <2>10 DEF workspacesVars
  <2> QED
    BY <2>1, <2>2, <2>3, <2>4, <2>5, <2>6, <2>7, <2>8, <2>9, <2>10 DEF WorkspacesNext
<1>3. SelectionInv => SelectionIsWhole
  BY DEF SelectionInv, SelectionIsWhole, WorkspacesTypeOK, NotRegistered
<1> QED
  BY <1>1, <1>2, <1>3, PTL DEF WorkspacesSpec

-----------------------------------------------------------------------------
(* Desk: the review desk. *)

\* The states of a change set that the desk tells apart.
DeskStatuses == {"none", "pending", "applied", "denied", "rolled_back"}

\* A row of a change set, its files gone to one of the places given.
SetRows(places) == [status : DeskStatuses, place : places, accepted : BOOLEAN]

\* The rows of the change sets, whatever the places their files went to.
RowsAreWhole == \E places : row \in [ChangeSets -> SetRows(places)]

\* What a step may do to the rows: keep them whole and leave the review of a set that
\* was rolled back as it was.
RowsStep ==
  /\ RowsAreWhole'
  /\ \A g \in ChangeSets : row[g].status = "rolled_back" => row'[g].accepted = row[g].accepted

\* Steps that leave the rows alone are fine.
LEMMA RowsKept == RowsAreWhole /\ UNCHANGED row => RowsStep
BY DEF RowsAreWhole, RowsStep

\* A statement that writes one row, with the columns of it that it does not name left alone.
LEMMA RowWritten ==
  ASSUME NEW places, NEW g \in ChangeSets, row \in [ChangeSets -> SetRows(places)],
         NEW st \in DeskStatuses, NEW pl \in places, NEW ac \in BOOLEAN,
         row[g].status = "rolled_back" => ac = row[g].accepted,
         row' = [row EXCEPT ![g] = row'[g]],
         row'[g] = [status |-> st, place |-> pl, accepted |-> ac]
  PROVE  RowsStep
<1>1. row'[g] \in SetRows(places) /\ row'[g].accepted = ac
  BY DEF SetRows
<1>2. row' \in [ChangeSets -> SetRows(places)]
  BY <1>1
<1>3. \A h \in ChangeSets : h # g => row'[h] = row[h]
  BY DEF SetRows
<1> QED
  BY <1>1, <1>2, <1>3 DEF RowsStep, RowsAreWhole

\* The columns of a row.
LEMMA RowFields ==
  ASSUME NEW places, NEW r \in SetRows(places)
  PROVE  r.status \in DeskStatuses /\ r.place \in places /\ r.accepted \in BOOLEAN
BY DEF SetRows

\* A change set that was rolled back keeps the review it had: the looks-right click that was checked before
\* the rollback and written after it changes no row, for AcceptChangeSet's statement looks again.
THEOREM UndoneStaysUnreviewed == DeskSpec => UndoneIsNeverAccepted
<1>1. DeskInit => RowsAreWhole
  <2>1. DeskInit => row \in [ChangeSets -> SetRows({Requested})]
    BY DEF DeskInit, SetRows, DeskStatuses
  <2> QED
    BY <2>1 DEF RowsAreWhole
<1>2. RowsAreWhole /\ [DeskNext]_deskVars => RowsStep
  <2> SUFFICES ASSUME RowsAreWhole, [DeskNext]_deskVars PROVE RowsStep
    OBVIOUS
  <2>0. PICK P0 : row \in [ChangeSets -> SetRows(P0)]
    BY DEF RowsAreWhole
  <2>1. ASSUME NEW v \in Saves, SaveClaims(v) PROVE RowsStep
    <3>1. PICK g, pl : g = save[v].set /\ pl = save[v].place
      OBVIOUS
    <3>2. row' = [row EXCEPT ![g].status = "pending", ![g].place = pl] /\ row[g].status # "rolled_back"
      BY <2>1, <3>1 DEF SaveClaims
    <3>3. CASE g \in ChangeSets
      <4>1. row'[g] = [row[g] EXCEPT !.status = "pending", !.place = pl] /\ row' = [row EXCEPT ![g] = row'[g]]
        BY <2>0, <3>2, <3>3
      <4>2. row'[g] = [status |-> "pending", place |-> pl, accepted |-> row[g].accepted] /\ row[g].accepted \in BOOLEAN
        <5>1. row[g] \in SetRows(P0)
          BY <2>0, <3>3
        <5> QED
          BY <4>1, <5>1 DEF SetRows
      <4>3. row \in [ChangeSets -> SetRows(P0 \cup {pl})]
        BY <2>0 DEF SetRows
      <4>4. PICK ac \in BOOLEAN, st \in DeskStatuses, places \in {P0 \cup {pl}} : ac = row[g].accepted /\ st = "pending" /\ places = P0 \cup {pl}
        BY <4>2 DEF DeskStatuses
      <4>5. pl \in places /\ row \in [ChangeSets -> SetRows(places)]
        BY <4>3, <4>4
      <4>6. row'[g] = [status |-> st, place |-> pl, accepted |-> ac]
        BY <4>2, <4>4
      <4>7. row' = [row EXCEPT ![g] = row'[g]] /\ (row[g].status = "rolled_back" => ac = row[g].accepted)
        BY <4>1, <4>4
      <4> QED
        BY <3>3, <4>5, <4>6, <4>7, RowWritten
    <3>4. CASE g \notin ChangeSets
      <4>1. UNCHANGED row
        BY <2>0, <3>2, <3>4
      <4> QED
        BY <4>1, RowsKept
    <3> QED
      BY <3>3, <3>4
  <2>2. ASSUME NEW g, NEW st \in DeskStatuses, row' = [row EXCEPT ![g].status = st] PROVE RowsStep
    <3>3. CASE g \in ChangeSets
      <4>1. row'[g] = [row[g] EXCEPT !.status = st] /\ row' = [row EXCEPT ![g] = row'[g]]
        BY <2>0, <2>2, <3>3
      <4>2. /\ row'[g] = [status |-> st, place |-> row[g].place, accepted |-> row[g].accepted]
            /\ row[g].accepted \in BOOLEAN /\ row[g].place \in P0
        <5>1. row[g] \in SetRows(P0)
          BY <2>0, <3>3
        <5> QED
          BY <4>1, <5>1 DEF SetRows
      <4> QED
        BY <2>0, <3>3, <4>1, <4>2, RowWritten
    <3>4. CASE g \notin ChangeSets
      <4>1. UNCHANGED row
        BY <2>0, <2>2, <3>4
      <4> QED
        BY <4>1, RowsKept
    <3> QED
      BY <3>3, <3>4
  <2>3. ASSUME NEW c \in Clicks, AcceptUpdates(c) PROVE RowsStep
    <3>1. PICK g : g = accepting[c].set
      OBVIOUS
    <3>2. row' = [row EXCEPT ![g].accepted = (row[g].accepted \/ (row[g].status = "applied" /\ ~row[g].accepted))]
      BY <2>3, <3>1 DEF AcceptUpdates, StillAcceptable
    <3>3. CASE g \in ChangeSets
      <4>0. row[g].status \in DeskStatuses /\ row[g].place \in P0 /\ row[g].accepted \in BOOLEAN
        BY <2>0, <3>3, RowFields
      <4>1. PICK ac \in BOOLEAN : /\ ac = (row[g].accepted \/ (row[g].status = "applied" /\ ~row[g].accepted))
                                  /\ row' = [row EXCEPT ![g].accepted = ac]
        BY <3>2
      <4>2. row[g].status = "rolled_back" => ac = row[g].accepted
        BY <4>0, <4>1
      <4>3. row'[g] = [row[g] EXCEPT !.accepted = ac] /\ row' = [row EXCEPT ![g] = row'[g]]
        BY <2>0, <3>3, <4>1
      <4>4. row'[g] = [status |-> row[g].status, place |-> row[g].place, accepted |-> ac]
        <5>1. row[g] \in SetRows(P0)
          BY <2>0, <3>3
        <5> QED
          BY <4>3, <5>1 DEF SetRows
      <4> QED
        BY <2>0, <3>3, <4>0, <4>2, <4>3, <4>4, RowWritten
    <3>4. CASE g \notin ChangeSets
      <4>1. UNCHANGED row
        BY <2>0, <3>2, <3>4
      <4> QED
        BY <4>1, RowsKept
    <3> QED
      BY <3>3, <3>4
  <2>4. ASSUME NEW u \in Undos, UndoEnds(u) PROVE RowsStep
    <3>1. UNCHANGED row \/ row' = [row EXCEPT ![undo[u].set].status = "rolled_back"]
      BY <2>4 DEF UndoEnds
    <3> QED
      BY <2>2, <3>1, RowsKept DEF DeskStatuses
  <2>5. ASSUME NEW v \in Saves, NEW st \in {"applied", "denied", "pending"}, SaveAnswered(v, st) PROVE RowsStep
    <3>1. row' = [row EXCEPT ![save[v].set].status = st]
      BY <2>5 DEF SaveAnswered
    <3> QED
      BY <2>2, <3>1 DEF DeskStatuses
  <2>6. CASE UNCHANGED deskVars
    BY <2>6, RowsKept DEF deskVars
  <2>7. CASE PageLoads \/ \E o \in Orders : PageSaves(o)
    BY <2>7, RowsKept DEF PageLoads, PageSaves
  <2>8. ASSUME NEW v \in Saves, \/ SaveRefused(v) \/ SaveReplayed(v) \/ CreditLoads(v) \/ CreditSaves(v)
                                \/ \E g \in ChangeSets : SaveArrives(v, g)
        PROVE  RowsStep
    BY <2>8, RowsKept DEF SaveRefused, SaveReplayed, CreditLoads, CreditSaves, SaveArrives
  <2>9. ASSUME NEW c \in Clicks, AcceptAudits(c) \/ \E g \in ChangeSets : AcceptReads(c, g) PROVE RowsStep
    BY <2>9, RowsKept DEF AcceptAudits, AcceptReads
  <2>10. ASSUME NEW u \in Undos, UndoClaims(u) \/ UndoTicks(u) \/ UndoReturns(u) \/ \E g \in ChangeSets : UndoArrives(u, g)
         PROVE  RowsStep
    BY <2>10, RowsKept DEF UndoClaims, UndoTicks, UndoReturns, UndoArrives
  <2>11. CASE \E g \in ChangeSets, yes \in BOOLEAN : PromptAnswered(g, yes)
    BY <2>11, RowsKept DEF PromptAnswered
  <2> QED
    BY <2>1, <2>3, <2>4, <2>5, <2>6, <2>7, <2>8, <2>9, <2>10, <2>11 DEF DeskNext
<1>3. RowsStep => RowsAreWhole' /\ \A g \in ChangeSets : row[g].status = "rolled_back" => row'[g].accepted = row[g].accepted
  BY DEF RowsStep
<1> QED
  BY <1>1, <1>2, <1>3, PTL DEF DeskSpec, UndoneIsNeverAccepted

-----------------------------------------------------------------------------
(* Shell: two Cores and one data directory. *)

\* Between taking the lock and giving it back.
Holding == {"locked", "opened", "navigating", "working", "published", "serving", "leaving"}

\* A Core that has anything open is between the two, and then the lock is its own.
LockCoversTheData ==
  /\ process \in [Cores -> Holding \cup {"none", "starts", "left", "ends", "gone"}]
  /\ DOMAIN toClose = Cores /\ toClose = [c \in Cores |-> toClose[c]]
  /\ \A c \in Cores : process[c] \in Holding => lock = c
  /\ \A c \in Cores : toClose[c] # <<>> => process[c] \in Holding \ {"locked"}

\* Two Cores never have the database of one data directory open: the instance lock is taken before anything
\* is opened and given back after everything is closed.
THEOREM OneOwner == ShellSpec => []OneCoreOwnsTheData
<1>1. ShellInit => LockCoversTheData
  BY DEF ShellInit, LockCoversTheData, Holding
<1>2. LockCoversTheData /\ [ShellNext]_shellVars => LockCoversTheData'
  <2> SUFFICES ASSUME LockCoversTheData, [ShellNext]_shellVars
               PROVE  LockCoversTheData'
    OBVIOUS
  <2> USE ShellAssumption DEF LockCoversTheData, Holding, Moves, Opens, Fails
  <2>1. ASSUME NEW c \in Cores, acquireInstanceLock(c) PROVE LockCoversTheData'
    BY <2>1 DEF acquireInstanceLock
  <2>2. ASSUME NEW c \in Cores, OpenStore(c) PROVE LockCoversTheData'
    BY <2>2 DEF OpenStore
  <2>3. ASSUME NEW c \in Cores, StartNavigators(c) PROVE LockCoversTheData'
    BY <2>3 DEF StartNavigators
  <2>4. ASSUME NEW c \in Cores, StartTasks(c) PROVE LockCoversTheData'
    BY <2>4 DEF StartTasks
  <2>5. ASSUME NEW c \in Cores, GoPublic(c) PROVE LockCoversTheData'
    BY <2>5 DEF GoPublic
  <2>6. ASSUME NEW c \in Cores, StartControl(c) PROVE LockCoversTheData'
    BY <2>6 DEF StartControl
  <2>7. ASSUME NEW c \in Cores, Signal(c) \/ Shutdown(c) PROVE LockCoversTheData'
    BY <2>7 DEF Signal, Shutdown
  <2>8. ASSUME NEW c \in Cores, RunEnds(c) PROVE LockCoversTheData'
    BY <2>8 DEF RunEnds
  <2>9. ASSUME NEW c \in Cores, CloseLast(c) PROVE LockCoversTheData'
    BY <2>9 DEF CloseLast
  <2>10. ASSUME NEW c \in Cores, release(c) PROVE LockCoversTheData'
    BY <2>10 DEF release
  <2>11. ASSUME NEW c \in Cores, Unwind(c) PROVE LockCoversTheData'
    BY <2>11 DEF Unwind
  <2>12. ASSUME NEW c \in Cores, Exit(c) PROVE LockCoversTheData'
    BY <2>12 DEF Exit
  <2>13. ASSUME NEW w \in Windows, Press(w) \/ readControl(w) \/ coreReachable(w) PROVE LockCoversTheData'
    BY <2>13 DEF Press, readControl, coreReachable
  <2>14. ASSUME NEW w \in Windows, StartCore(w) PROVE LockCoversTheData'
    BY <2>14 DEF StartCore
  <2>15. CASE UNCHANGED shellVars
    BY <2>15 DEF shellVars
  <2> QED
    BY <2>1, <2>2, <2>3, <2>4, <2>5, <2>6, <2>7, <2>8, <2>9, <2>10, <2>11, <2>12, <2>13, <2>14, <2>15
    DEF ShellNext, Process
<1>3. LockCoversTheData => OneCoreOwnsTheData
  <2> SUFFICES ASSUME LockCoversTheData PROVE OneCoreOwnsTheData
    OBVIOUS
  <2>1. {c \in Cores : toClose[c] # <<>>} \subseteq {lock}
    BY DEF LockCoversTheData
  <2>2. IsFiniteSet({lock}) /\ Cardinality({lock}) = 1
    BY FS_Singleton
  <2>3. Cardinality({c \in Cores : toClose[c] # <<>>}) <= Cardinality({lock})
    BY <2>1, <2>2, FS_Subset
  <2> QED
    BY <2>2, <2>3 DEF OneCoreOwnsTheData
<1> QED
  BY <1>1, <1>2, <1>3, PTL DEF ShellSpec

-----------------------------------------------------------------------------
(* Memory: paged reads. *)

\* A paged read under way: how far it has come, what it has seen and what was there when it began.
ReadingRecords == [pc : {"idle", "live", "archived", "done"}, kind : {"read", "list", "export"}, before : 0..MaxNotes,
                   seen : SUBSET NoteIds, owed : SUBSET NoteIds]

\* The types of the state that a read sees.
MemoryTypeOK ==
  /\ trail \in [NoteIds -> {"none", "live", "archived"}] /\ lastNote \in 0..MaxNotes
  /\ reading \in [Readers -> ReadingRecords]

\* An id beyond the last one has no note, and nobody was promised one.
IdsAreNew ==
  /\ \A n \in NoteIds : n > lastNote => trail[n] = "none"
  /\ \A r \in Readers : \A n \in reading[r].owed : n <= lastNote

\* What a read owes, it has seen or has still below its cursor; an export that has come to
\* the archived notes has seen all that are still live.
ReadFits(q) ==
  /\ q.pc = "live" => \A n \in q.owed : trail[n] = "live" /\ q.before # 0 /\ n >= q.before => n \in q.seen
  /\ q.pc = "archived" =>
       /\ q.kind = "export"
       /\ \A n \in q.owed : trail[n] = "live" \/ (trail[n] = "archived" /\ q.before # 0 /\ n >= q.before) => n \in q.seen
  /\ q.pc = "done" =>
       \A n \in q.owed : trail[n] = "live" \/ (q.kind = "export" /\ trail[n] = "archived") => n \in q.seen

\* The inductive invariant of paged reads.
MemoryInv == MemoryTypeOK /\ IdsAreNew /\ \A r \in Readers : ReadFits(reading[r])

\* A note that was there goes, is archived if it was live, or stays as it is; it never comes back.
NotesOnlyAge ==
  \A n \in NoteIds : n <= lastNote =>
    trail'[n] = trail[n] \/ trail'[n] = "none" \/ (trail[n] = "live" /\ trail'[n] = "archived")

\* Notes have an oldest one and a newest one.
LEMMA NewestNote ==
  ASSUME NEW S \in SUBSET NoteIds, S # {}
  PROVE  /\ Min(S) \in S /\ \A n \in S : Min(S) <= n
         /\ \E m \in S : From(S, m) = {m} /\ Cardinality(From(S, m)) = 1
<1>1. ASSUME NEW T \in SUBSET Nat, T # {} PROVE \E x \in T : \A y \in T : x <= y
  <2>1. PICK x \in T : \A y \in T : ~(<<y, x>> \in OpToRel(<, Nat))
    BY <1>1, NatLessThanWellFounded, WFMin
  <2>2. ASSUME NEW y \in T, y < x PROVE FALSE
    <3>1. <<y, x>> \in Nat \X Nat /\ <<y, x>>[1] < <<y, x>>[2]
      BY <2>2
    <3>2. <<y, x>> \in OpToRel(<, Nat)
      BY <3>1 DEF OpToRel
    <3> QED
      BY <2>1, <3>2
  <2> QED
    BY <2>2
<1>2. NoteIds \subseteq Nat /\ MaxNotes \in Nat /\ \A n \in NoteIds : n <= MaxNotes
  BY MemoryAssumption DEF NoteIds
<1>3. \A n \in S : n \in Nat /\ n <= MaxNotes
  BY <1>2
<1>4. \E x \in S : \A y \in S : x <= y
  BY <1>1, <1>3
<1>5. Min(S) \in S /\ \A n \in S : Min(S) <= n
  BY <1>4 DEF Min
<1>6. PICK T : T = {MaxNotes - n : n \in S}
  OBVIOUS
<1>7. T \in SUBSET Nat /\ T # {}
  <2>1. \A n \in S : MaxNotes - n \in Nat /\ MaxNotes - n \in T
    BY <1>2, <1>3, <1>6
  <2>2. \A x \in T : x \in Nat
    BY <1>6, <2>1
  <2> QED
    BY <2>1, <2>2
<1>8. PICK x \in T : \A y \in T : x <= y
  BY <1>1, <1>7
<1>9. PICK m \in S : x = MaxNotes - m
  BY <1>6
<1>10. \A n \in S : n <= m
  BY <1>2, <1>3, <1>6, <1>8, <1>9
<1>11. From(S, m) = {m}
  <2>1. \A n \in S : n >= m <=> n = m
    BY <1>10, <1>3
  <2> QED
    BY <2>1 DEF From
<1>12. Cardinality({m}) = 1
  BY FS_Singleton
<1> QED
  BY <1>5, <1>11, <1>12

\* A page is the newest of the notes below the cursor, and takes at least one if there is any.
LEMMA PageFact ==
  ASSUME NEW where, NEW before, NEW fetched,
         fetched = Listed(where, before, PageSize) \/ (where = "live" /\ fetched = ToolPage(before))
  PROVE  /\ fetched \subseteq Older(where, before) /\ (Older(where, before) # {} => fetched # {})
         /\ \A n \in fetched, m \in Older(where, before) : m >= n => m \in fetched
<1> PICK all : all = Older(where, before)
  OBVIOUS
<1>1. all \in SUBSET NoteIds
  BY DEF Older, NotesIn
<1>2. NoteIds \subseteq Nat /\ IsFiniteSet(NoteIds)
  <2>1. 1 \in Int /\ MaxNotes \in Int
    BY MemoryAssumption
  <2>2. IsFiniteSet(1..MaxNotes)
    BY <2>1, FS_Interval
  <2> QED
    BY <2>2, MemoryAssumption DEF NoteIds
<1> PICK list : list = Listed(where, before, PageSize)
  OBVIOUS
<1>3. list = {n \in all : Cardinality(From(all, n)) <= PageSize}
  BY DEF Listed
<1>4. ASSUME NEW n \in list, NEW m \in all, m >= n PROVE m \in list
  <2>1. From(all, m) \subseteq From(all, n) /\ From(all, n) \subseteq NoteIds
    <3>1. \A x \in all : x \in Nat
      BY <1>1, <1>2
    <3>2. n \in all
      BY <1>3, <1>4
    <3>3. \A x \in all : x >= m => x >= n
      BY <1>4, <3>1, <3>2
    <3> QED
      BY <1>1, <3>3 DEF From
  <2>2. IsFiniteSet(From(all, n))
    BY <1>2, <2>1, FS_Subset
  <2>3. Cardinality(From(all, m)) <= Cardinality(From(all, n)) /\ Cardinality(From(all, m)) \in Nat /\ Cardinality(From(all, n)) \in Nat
    BY <2>1, <2>2, FS_Subset, FS_CardinalityType
  <2> QED
    BY <1>3, <2>3, MemoryAssumption
<1>5. all # {} => list # {}
  BY <1>1, <1>3, NewestNote, MemoryAssumption
<1>6. CASE fetched = list
  BY <1>3, <1>4, <1>5, <1>6
<1>7. CASE where = "live" /\ fetched = ToolPage(before)
  <2>1. PICK Takes : Takes = {n \in list : Cardinality(From(list, n)) = 1 \/ Bytes(From(list, n)) <= Budget}
    OBVIOUS
  <2>2. fetched = {n \in list : \A m \in From(list, n) : m \in Takes}
    BY <1>7, <2>1 DEF ToolPage, From
  <2>3. list \in SUBSET NoteIds
    BY <1>1, <1>3
  <2>4. ASSUME list # {} PROVE fetched # {}
    <3>1. PICK m \in list : From(list, m) = {m} /\ Cardinality(From(list, m)) = 1
      BY <2>3, <2>4, NewestNote
    <3> QED
      BY <2>1, <2>2, <3>1
  <2>5. ASSUME NEW n \in fetched, NEW m \in all, m >= n PROVE m \in fetched
    <3>1. m \in list /\ n \in list
      BY <1>4, <2>2, <2>5
    <3>2. From(list, m) \subseteq From(list, n)
      <4>1. \A x \in list : x \in Nat
        BY <1>2, <2>3
      <4>2. \A x \in list : x >= m => x >= n
        BY <2>5, <3>1, <4>1
      <4> QED
        BY <4>2 DEF From
    <3> QED
      BY <2>2, <3>1, <3>2
  <2> QED
    BY <1>3, <1>5, <2>2, <2>4, <2>5
<1> QED
  BY <1>6, <1>7

\* The cursor after a page: none when nothing is left, and otherwise everything from it on was on the page.
LEMMA CursorFact ==
  ASSUME NEW where, NEW before, NEW fetched, NEW next,
         fetched = Listed(where, before, PageSize) \/ (where = "live" /\ fetched = ToolPage(before)),
         next = Cursor(fetched, where, before)
  PROVE  /\ next \in 0..MaxNotes /\ fetched \subseteq NoteIds
         /\ \A n \in NoteIds : trail[n] = where /\ (before = 0 \/ n < before) /\ (next = 0 \/ n >= next) => n \in fetched
<1>1. /\ fetched \subseteq Older(where, before) /\ (Older(where, before) # {} => fetched # {})
      /\ \A n \in fetched, m \in Older(where, before) : m >= n => m \in fetched
  BY PageFact
<1>2. Older(where, before) \subseteq NoteIds /\ NoteIds \subseteq Nat \ {0} /\ \A n \in NoteIds : n <= MaxNotes
  BY MemoryAssumption DEF Older, NotesIn, NoteIds
<1>3. CASE fetched = {} \/ Older(where, before) \ fetched = {}
  <2>1. next = 0 /\ Older(where, before) = fetched
    BY <1>1, <1>3 DEF Cursor
  <2> QED
    BY <1>2, <2>1, MemoryAssumption DEF Older, NotesIn
<1>4. CASE fetched # {} /\ Older(where, before) \ fetched # {}
  <2>1. next = Min(fetched)
    BY <1>4 DEF Cursor
  <2>2. next \in fetched
    BY <1>1, <1>2, <1>4, <2>1, NewestNote
  <2> QED
    BY <1>1, <1>2, <2>2, MemoryAssumption DEF Older, NotesIn
<1> QED
  BY <1>3, <1>4

\* A read keeps fitting while the notes it owes only age.
LEMMA ReadKeeps ==
  ASSUME NEW q \in ReadingRecords, ReadFits(q), NotesOnlyAge, \A n \in q.owed : n <= lastNote
  PROVE  ReadFits(q)'
BY DEF ReadFits, NotesOnlyAge, ReadingRecords

\* A step that leaves the reads alone, hands out new ids only and lets notes only age.
LEMMA AgingFits ==
  ASSUME MemoryInv, NotesOnlyAge, reading' = reading, lastNote' \in 0..MaxNotes, lastNote' >= lastNote,
         trail' \in [NoteIds -> {"none", "live", "archived"}],
         \A n \in NoteIds : n > lastNote' => trail'[n] = "none"
  PROVE  MemoryInv'
<1>1. MemoryTypeOK'
  BY DEF MemoryInv, MemoryTypeOK
<1>2. IdsAreNew'
  <2>1. lastNote \in Int /\ lastNote' \in Int /\ \A r \in Readers : reading[r].owed \subseteq Int
    BY MemoryAssumption DEF MemoryInv, MemoryTypeOK, ReadingRecords, NoteIds
  <2> QED
    BY <2>1 DEF MemoryInv, IdsAreNew
<1>3. ASSUME NEW r \in Readers PROVE ReadFits(reading[r])'
  <2>1. PICK q : q = reading[r]
    OBVIOUS
  <2>2. q \in ReadingRecords /\ ReadFits(q) /\ \A n \in q.owed : n <= lastNote
    BY <2>1 DEF MemoryInv, MemoryTypeOK, IdsAreNew
  <2>3. ReadFits(q)'
    BY <2>2, ReadKeeps
  <2> QED
    BY <2>1, <2>3
<1> QED
  BY <1>1, <1>2, <1>3 DEF MemoryInv

\* A step of one read.
LEMMA ReadMoves ==
  ASSUME MemoryInv, NEW r \in Readers, NEW q \in ReadingRecords, reading' = [reading EXCEPT ![r] = q],
         UNCHANGED <<trail, lastNote>>, ReadFits(q), \A n \in q.owed : n <= lastNote
  PROVE  MemoryInv'
<1>1. ASSUME NEW s \in Readers PROVE reading'[s] \in ReadingRecords /\ ReadFits(reading'[s]) /\ \A n \in reading'[s].owed : n <= lastNote
  <2>1. reading'[s] = IF s = r THEN q ELSE reading[s]
    BY DEF MemoryInv, MemoryTypeOK
  <2> QED
    BY <2>1 DEF MemoryInv, MemoryTypeOK, IdsAreNew
<1>2. reading' \in [Readers -> ReadingRecords]
  BY <1>1 DEF MemoryInv, MemoryTypeOK
<1>3. \A s \in Readers : ReadFits(reading[s])'
  BY <1>1 DEF ReadFits
<1> QED
  BY <1>1, <1>2, <1>3 DEF MemoryInv, MemoryTypeOK, IdsAreNew

\* A page is read: what was owed between the old cursor and the new one was on it.
LEMMA PageReadFits ==
  ASSUME MemoryInv, NEW r \in Readers, PageRead(r)
  PROVE  MemoryInv'
<1>1. PICK now : now = reading[r]
  OBVIOUS
<1>2. now \in ReadingRecords /\ ReadFits(now) /\ \A n \in now.owed : n <= lastNote
  BY <1>1 DEF MemoryInv, MemoryTypeOK, IdsAreNew
<1>3. now.pc \in {"live", "archived"}
  BY <1>1 DEF PageRead
<1>4. PICK where : where = IF now.kind = "export" THEN ExportOrder(now.pc) ELSE now.pc
  OBVIOUS
<1>5. where = now.pc
  BY <1>3, <1>4 DEF ExportOrder
<1>6. PICK fetched : fetched = IF now.kind = "read" THEN ToolPage(now.before) ELSE Listed(where, now.before, PageSize)
  OBVIOUS
<1>7. now.kind = "read" => where = "live"
  BY <1>2, <1>3, <1>5 DEF ReadFits
<1>8. PICK next : next = Cursor(fetched, where, now.before)
  OBVIOUS
<1>9. /\ next \in 0..MaxNotes /\ fetched \subseteq NoteIds
      /\ \A n \in NoteIds : trail[n] = where /\ (now.before = 0 \/ n < now.before) /\ (next = 0 \/ n >= next) => n \in fetched
  BY <1>6, <1>7, <1>8, CursorFact
<1>10. PICK pc : pc = IF next # 0 THEN now.pc ELSE IF now.kind = "export" /\ now.pc = "live" THEN "archived" ELSE "done"
  OBVIOUS
<1>11. PICK q : q = [now EXCEPT !.seen = now.seen \cup fetched, !.before = next, !.pc = pc]
  OBVIOUS
<1>12. reading' = [reading EXCEPT ![r] = q]
  BY <1>1, <1>4, <1>6, <1>8, <1>10, <1>11 DEF PageRead
<1>13. q.pc = pc /\ q.kind = now.kind /\ q.before = next /\ q.seen = now.seen \cup fetched /\ q.owed = now.owed
  BY <1>2, <1>11 DEF ReadingRecords
<1>14. q \in ReadingRecords
  BY <1>2, <1>3, <1>9, <1>10, <1>11 DEF ReadingRecords
<1>15. /\ now.owed \subseteq NoteIds /\ NoteIds \subseteq Int /\ now.before \in Int /\ next \in Int
  BY <1>2, <1>9, MemoryAssumption DEF ReadingRecords, NoteIds
<1>16. \A n \in now.owed : trail[n] = now.pc /\ (next = 0 \/ n >= next) => n \in now.seen \cup fetched
  <2> SUFFICES ASSUME NEW n \in now.owed, trail[n] = now.pc, next = 0 \/ n >= next PROVE n \in now.seen \cup fetched
    OBVIOUS
  <2>1. CASE now.before # 0 /\ n >= now.before
    BY <1>2, <1>3, <2>1 DEF ReadFits
  <2>2. CASE now.before = 0 \/ n < now.before
    BY <1>5, <1>9, <1>15, <2>2
  <2>3. n \in Int /\ now.before \in Int
    BY <1>15
  <2> QED
    BY <2>1, <2>2, <2>3
<1>17. now.pc = "archived" => now.kind = "export" /\ \A n \in now.owed : trail[n] = "live" => n \in now.seen
  BY <1>2 DEF ReadFits
<1>18. ReadFits(q)
  BY <1>3, <1>10, <1>13, <1>16, <1>17 DEF ReadFits
<1>19. UNCHANGED <<trail, lastNote>> /\ \A n \in q.owed : n <= lastNote
  BY <1>2, <1>13 DEF PageRead
<1> QED
  BY <1>12, <1>14, <1>18, <1>19, ReadMoves

\* A read begins with an empty hand, or ends.
LEMMA ReadTurnsFits ==
  ASSUME MemoryInv, NEW r \in Readers, ReadEnds(r) \/ \E kind \in {"read", "list", "export"} : ReadStarts(r, kind)
  PROVE  MemoryInv'
<1>1. CASE ReadEnds(r)
  <2>1. PICK q : q = NoReading
    OBVIOUS
  <2>2. q \in ReadingRecords /\ ReadFits(q) /\ q.owed = {}
    BY <2>1, MemoryAssumption DEF NoReading, ReadingRecords, ReadFits
  <2> QED
    BY <1>1, <2>1, <2>2, ReadMoves DEF ReadEnds
<1>2. ASSUME NEW kind \in {"read", "list", "export"}, ReadStarts(r, kind) PROVE MemoryInv'
  <2>1. PICK owed : owed = IF kind = "export" THEN NotesIn("live") \cup NotesIn("archived") ELSE NotesIn("live")
    OBVIOUS
  <2>2. owed \subseteq NoteIds /\ \A n \in owed : trail[n] # "none"
    BY <2>1 DEF NotesIn
  <2>3. \A n \in owed : n <= lastNote
    BY <2>2, MemoryAssumption DEF MemoryInv, IdsAreNew, MemoryTypeOK, NoteIds
  <2>4. PICK q : q = [pc |-> "live", kind |-> kind, before |-> 0, seen |-> {}, owed |-> owed]
    OBVIOUS
  <2>5. q \in ReadingRecords /\ ReadFits(q) /\ q.owed = owed
    BY <2>2, <2>4, MemoryAssumption DEF ReadingRecords, ReadFits
  <2>6. reading' = [reading EXCEPT ![r] = q] /\ UNCHANGED <<trail, lastNote>>
    BY <1>2, <2>1, <2>4 DEF ReadStarts
  <2> QED
    BY <2>3, <2>5, <2>6, ReadMoves
<1> QED
  BY <1>1, <1>2

\* A new note: its id is beyond all that were handed out.
LEMMA AddFits ==
  ASSUME MemoryInv, NEW bytes, AddMemoryNote(bytes), reading' = reading
  PROVE  MemoryInv'
<1>1. lastNote \in Int /\ MaxNotes \in Int /\ lastNote + 1 \in NoteIds /\ NoteIds \subseteq Int
  BY MemoryAssumption DEF AddMemoryNote, MemoryInv, MemoryTypeOK, NoteIds
<1>2. trail' = [trail EXCEPT ![lastNote + 1] = "live"] /\ lastNote' = lastNote + 1
  BY DEF AddMemoryNote, NextId
<1>3. NotesOnlyAge
  BY <1>1, <1>2 DEF NotesOnlyAge, MemoryInv, MemoryTypeOK
<1>4. lastNote' \in 0..MaxNotes /\ lastNote' >= lastNote
  BY <1>1, <1>2, MemoryAssumption DEF MemoryInv, MemoryTypeOK, NoteIds
<1>5. trail' \in [NoteIds -> {"none", "live", "archived"}] /\ \A n \in NoteIds : n > lastNote' => trail'[n] = "none"
  BY <1>1, <1>2 DEF MemoryInv, MemoryTypeOK, IdsAreNew
<1> QED
  BY <1>3, <1>4, <1>5, AgingFits

\* The person deletes, and a compaction moves on: no note becomes newer.
LEMMA DeleteFits ==
  ASSUME MemoryInv, UNCHANGED <<lastNote, reading>>,
         trail' \in [NoteIds -> {"none", "live", "archived"}],
         \A n \in NoteIds : trail'[n] = trail[n] \/ trail'[n] = "none" \/ (trail[n] = "live" /\ trail'[n] = "archived")
  PROVE  MemoryInv'
<1>1. NotesOnlyAge
  BY DEF NotesOnlyAge
<1>2. lastNote' \in 0..MaxNotes /\ lastNote' >= lastNote
  BY MemoryAssumption DEF MemoryInv, MemoryTypeOK
<1>3. \A n \in NoteIds : n > lastNote' => trail'[n] = "none"
  BY DEF MemoryInv, IdsAreNew
<1> QED
  BY <1>1, <1>2, <1>3, AgingFits

\* A read that follows its cursor to the end, and an export, miss no note that was there when they began and still is,
\* for any pages, budgets, readers and compactions (memoryRead, handleMemoryExport).
THEOREM PagingIsWhole == MemorySpec => []PagingMissesNothing
<1>1. MemoryInit => MemoryInv
  BY MemoryAssumption DEF MemoryInit, MemoryInv, MemoryTypeOK, IdsAreNew, ReadFits, NoReading, ReadingRecords, NoteIds
<1>2. MemoryInv /\ [MemoryNext]_memoryVars => MemoryInv'
  <2> SUFFICES ASSUME MemoryInv, [MemoryNext]_memoryVars PROVE MemoryInv'
    OBVIOUS
  <2>1. trail \in [NoteIds -> {"none", "live", "archived"}]
    BY DEF MemoryInv, MemoryTypeOK
  <2>2. ASSUME UNCHANGED <<trail, lastNote, reading>> PROVE MemoryInv'
    BY <2>1, <2>2, DeleteFits
  <2>3. CASE MemoryNote
    BY <2>3, AddFits DEF MemoryNote
  <2>4. CASE DeleteMemory
    BY <2>4, DeleteFits DEF DeleteMemory
  <2>5. ASSUME NEW n \in NoteIds, DeleteMemoryNote(n) PROVE MemoryInv'
    BY <2>1, <2>5, DeleteFits DEF DeleteMemoryNote
  <2>6. ASSUME NEW k \in Compactors, CompactOffer(k) \/ CompactChecks(k) \/ CompactDies(k) PROVE MemoryInv'
    BY <2>2, <2>6 DEF CompactOffer, CompactChecks, CompactDies
  <2>7. ASSUME NEW k \in Compactors, CompactAdds(k) PROVE MemoryInv'
    BY <2>7, AddFits DEF CompactAdds
  <2>8. ASSUME NEW k \in Compactors, ArchiveMemoryNotes(k) PROVE MemoryInv'
    <3>1. /\ trail' \in [NoteIds -> {"none", "live", "archived"}] /\ UNCHANGED <<lastNote, reading>>
          /\ \A n \in NoteIds : trail'[n] = trail[n] \/ (trail[n] = "live" /\ trail'[n] = "archived")
      BY <2>1, <2>8 DEF ArchiveMemoryNotes
    <3> QED
      BY <3>1, DeleteFits
  <2>9. CASE UNCHANGED memoryVars
    BY <2>2, <2>9 DEF memoryVars
  <2> QED
    BY <2>3, <2>4, <2>5, <2>6, <2>7, <2>8, <2>9, PageReadFits, ReadTurnsFits DEF MemoryNext
<1>3. MemoryInv => PagingMissesNothing
  <2> SUFFICES ASSUME MemoryInv, NEW r \in Readers, reading[r].pc = "done" PROVE
        reading[r].owed \cap (IF reading[r].kind = "export" THEN NotesIn("live") \cup NotesIn("archived") ELSE NotesIn("live"))
          \subseteq reading[r].seen
    BY DEF PagingMissesNothing
  <2> QED
    BY DEF MemoryInv, ReadFits, NotesIn
<1> QED
  BY <1>1, <1>2, <1>3, PTL DEF MemorySpec

=============================================================================
