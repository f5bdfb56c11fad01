------------------------------ MODULE Settings ------------------------------
(***************************************************************************)
(* The settings file (app/settings.go, prefs.go, rules.go), everyone who   *)
(* saves into it, and what a start of the Core makes of it (app/config.go, *)
(* app.go).                                                                *)
(*                                                                         *)
(* Every save loads the whole document, changes its own fields and writes  *)
(* the whole document back, under no lock; os.WriteFile empties the file   *)
(* first and fills it then.  The commands are processes of their own: they *)
(* save whether the Core is up or not.  Of an address only counts that     *)
(* there is one.                                                           *)
(***************************************************************************)
EXTENDS Naturals

CONSTANTS
  Savers,     \* requests to the running Core that save
  Commands,   \* pair, direct and share: saves of other processes
  MaxSaves    \* bound: how many saves are begun

ASSUME SettingsAssumption == MaxSaves \in Nat

VARIABLES
  file,       \* the document, or what is left of it: [state, doc]
  saver,      \* the saves under way
  saves,      \* how many were begun
  stage,      \* the Core: "down", "parsed", "bounded" or "up"
  rung,       \* Gate.rung of the running Core
  boundary,   \* the read boundary of the running Core
  chosen      \* history: whether the user has asked for [off] the boundary and for the
              \* [open] rung, at any time

settingsVars == <<file, saver, saves, stage, rung, boundary, chosen>>

Writers == Savers \cup Commands

Rungs == {"strict", "workspace", "open"}

Defaults == [mode |-> "", relay |-> FALSE, addr |-> FALSE, url |-> FALSE, tunnel |-> FALSE,
             rung |-> "workspace", boundary |-> TRUE]

\* Nothing stored yet, or a file from before the connect screen: no mode, and one
\* of the two ways to be reached at most.
Stored == {Defaults, [Defaults EXCEPT !.relay = TRUE],
           [Defaults EXCEPT !.addr = TRUE, !.url = TRUE], [Defaults EXCEPT !.addr = TRUE, !.tunnel = TRUE]}

NoSave == [pc |-> "idle", op |-> "none", asks |-> "none", doc |-> Defaults]

SettingsInit ==
  /\ \E d \in Stored : file = [state |-> "whole", doc |-> d]
  /\ saver = [s \in Writers |-> NoSave] /\ saves = 0
  /\ stage = "down" /\ rung = "workspace" /\ boundary = TRUE
  /\ chosen = [off |-> FALSE, open |-> FALSE]

----------------------------------------------------------------------------
(* What each save changes; an operation without a result refuses.          *)

SwitchToDirect(d) == {[d EXCEPT !.mode = "direct", !.addr = TRUE, !.url = FALSE, !.tunnel = t] : t \in BOOLEAN}

SwitchToRelay(d) == IF d.relay THEN {[d EXCEPT !.mode = "relay"]} ELSE {}

SaveRelayURL(d) == {[d EXCEPT !.relay = TRUE, !.mode = "relay"]}

\* An empty address turns direct mode off.
SaveDirect(d) ==
  {[d EXCEPT !.addr = TRUE, !.url = u, !.mode = "direct"] : u \in BOOLEAN}
    \cup {[d EXCEPT !.addr = FALSE, !.url = FALSE, !.mode = IF d.relay THEN "relay" ELSE ""]}

SaveTunnel(d) == {[d EXCEPT !.tunnel = t] : t \in BOOLEAN}

\* A tunnel that publishes an address has it stored, one that withdraws it cleared.
SavePublicURL(d) == {[d EXCEPT !.url = u] : u \in BOOLEAN}

SaveCommandRung(d, r) == {[d EXCEPT !.rung = r]}

\* SetPrefs, for the preference that matters: the read boundary.
SetPrefs(d) == {[d EXCEPT !.boundary = b] : b \in BOOLEAN}

\* What nothing here looks at and its owner saves whole: the machines and the selected
\* one, the route rules, the snapshot grants, the approval mode.
SaveOwnField(d) == {d}

Result(op, r, d) ==
  CASE op = "direct" -> SwitchToDirect(d)
    [] op = "relay" -> SwitchToRelay(d)
    [] op = "pair" -> SaveRelayURL(d)
    [] op = "listen" -> SaveDirect(d)
    [] op = "tunnel" -> SaveTunnel(d)
    [] op = "url" -> SavePublicURL(d)
    [] op = "rung" -> SaveCommandRung(d, r)
    [] op = "prefs" -> SetPrefs(d)
    [] op = "own" -> SaveOwnField(d)

\* What the Core is asked to save, and what the commands save.
CoreOps == {"direct", "relay", "tunnel", "url", "prefs", "own"}
CommandOps == {"pair", "listen", "direct"}

----------------------------------------------------------------------------
(* A save.                                                                 *)

Begins(s, op, r) ==
  /\ saver[s].pc = "idle" /\ saves < MaxSaves /\ saves' = saves + 1
  /\ saver' = [saver EXCEPT ![s] = [NoSave EXCEPT !.pc = "load", !.op = op, !.asks = r]]
  /\ chosen' = [chosen EXCEPT !.open = @ \/ r = "open"]

\* SetRung changes the running rung before it saves.
SetRung(s, r) ==
  /\ stage = "up" /\ rung' = r
  /\ Begins(s, "rung", r)
  /\ UNCHANGED <<file, stage, boundary>>

SaveStarts(s, op) ==
  /\ \/ s \in Savers /\ stage = "up" /\ op \in CoreOps
     \/ s \in Commands /\ op \in CommandOps
  /\ Begins(s, op, "none")
  /\ UNCHANGED <<file, stage, rung, boundary>>

\* loadSettings and the change.  What cannot be read is an error and is left as it
\* is.  SetPrefs applies the boundary to the running Core before it is saved.
LoadAndChange(s) ==
  /\ saver[s].pc = "load"
  /\ LET out == IF file.state = "whole" THEN Result(saver[s].op, saver[s].asks, file.doc) ELSE {} IN
     \/ out = {} /\ saver' = [saver EXCEPT ![s] = NoSave] /\ UNCHANGED <<boundary, chosen>>
     \/ \E d \in out :
          /\ saver' = [saver EXCEPT ![s] = [@ EXCEPT !.pc = "empty", !.doc = d]]
          /\ IF saver[s].op = "prefs"
             THEN boundary' = d.boundary /\ chosen' = [chosen EXCEPT !.off = @ \/ ~d.boundary]
             ELSE UNCHANGED <<boundary, chosen>>
  /\ UNCHANGED <<file, saves, stage, rung>>

\* saveSettings: the file is opened empty ...
Empties(s) ==
  /\ saver[s].pc = "empty"
  /\ saver' = [saver EXCEPT ![s].pc = "fill"]
  /\ file' = [file EXCEPT !.state = "empty"]
  /\ UNCHANGED <<saves, stage, rung, boundary, chosen>>

\* ... and written from its start: over what another save has put there since, whose
\* tail may stick out.
Fills(s) ==
  /\ saver[s].pc = "fill"
  /\ \/ file' = [state |-> "whole", doc |-> saver[s].doc]
     \/ file.state # "empty" /\ file' = [file EXCEPT !.state = "garbled"]
  /\ saver' = [saver EXCEPT ![s] = NoSave]
  /\ UNCHANGED <<saves, stage, rung, boundary, chosen>>

----------------------------------------------------------------------------
(* A start reads the file several times.                                   *)

\* ParseArgs without flags: the stored mode says which way is live; without one
\* whatever there is.
Chosen(d) ==
  [relay |-> d.relay /\ d.mode # "direct",
   addr |-> (d.mode = "direct") \/ (d.mode = "" /\ d.addr),
   url |-> d.url /\ ((d.mode = "direct") \/ (d.mode = "" /\ d.addr)),
   tunnel |-> d.tunnel /\ ((d.mode = "direct") \/ (d.mode = "" /\ d.addr))]

\* Its checks.
ParseArgs(c) == ~(c.relay /\ c.addr) /\ (c.url => c.addr) /\ (c.tunnel => c.addr)

\* What cannot be read refuses the start: it stays "down".
StartParses ==
  /\ stage = "down" /\ file.state = "whole" /\ ParseArgs(Chosen(file.doc))
  /\ stage' = "parsed"
  /\ UNCHANGED <<file, saver, saves, rung, boundary, chosen>>

\* A boundary that is on only when the file says so.
BoundaryNeedsAFile == file.state = "whole" /\ file.doc.boundary

\* What cannot be read leaves the boundary on.
ReadBoundaryEnabled == file.state = "whole" => file.doc.boundary

StartBounds ==
  /\ stage = "parsed" /\ stage' = "bounded"
  /\ boundary' = ReadBoundaryEnabled
  /\ UNCHANGED <<file, saver, saves, rung, chosen>>

\* LoadCommandRung, and the reads beside it: what cannot be read ends the start.
StartReadsRung ==
  /\ stage = "bounded"
  /\ IF file.state = "whole" THEN rung' = file.doc.rung /\ stage' = "up" ELSE UNCHANGED rung /\ stage' = "down"
  /\ UNCHANGED <<file, saver, saves, boundary, chosen>>

\* The Core ends, by a signal or a crash, whatever its requests were saving.
ServingEnds ==
  /\ stage # "down" /\ stage' = "down"
  /\ saver' = [s \in Writers |-> IF s \in Commands THEN saver[s] ELSE NoSave]
  /\ UNCHANGED <<file, saves, rung, boundary, chosen>>

SettingsNext ==
  \/ \E s \in Savers, r \in Rungs : SetRung(s, r)
  \/ \E s \in Writers : \/ \E op \in CoreOps \cup CommandOps : SaveStarts(s, op)
                        \/ LoadAndChange(s) \/ Empties(s) \/ Fills(s)
  \/ StartParses \/ StartBounds \/ StartReadsRung \/ ServingEnds

SettingsSpec == SettingsInit /\ [][SettingsNext]_settingsVars

----------------------------------------------------------------------------
\* "An unreadable settings file leaves it on: the safe reading of 'we could not tell' is
\* the one that keeps the boundary": however saves overlap, tear the file or write old
\* values back, and wherever a start's several reads fall between them, a Core that
\* runs has its read boundary off, or its commands on the open rung, only if the user
\* has asked for that at some time.
NothingLoosensByItself ==
  stage \in {"bounded", "up"} =>
    /\ ~boundary => chosen.off
    /\ stage = "up" /\ rung = "open" => chosen.open
=============================================================================
