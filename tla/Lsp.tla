-------------------------------- MODULE Lsp ---------------------------------
(***************************************************************************)
(* The language servers (lsp/supervisor.go, client.go, navigate.go,        *)
(* reach.go) and the tool that asks them (mcpserver/navigate.go), for one  *)
(* workspace and one server of the registry: its table entry, the client   *)
(* processes started for it, and the questions asked through them.         *)
(*                                                                         *)
(* The supervisor's mutex is held for a moment at a time; starting,        *)
(* asking and stopping happen outside it.                                  *)
(***************************************************************************)
EXTENDS Naturals, FiniteSets

CONSTANTS
  Questions,   \* code_navigate calls and the write prompt's impact questions
  Clients,     \* client objects, each started once
  Sources,     \* files the server handles
  MaxEdits,    \* how often a file is written by the change-set engine
  NoClient

ASSUME LspAssumption == NoClient \notin Clients /\ MaxEdits \in Nat

VARIABLES
  client,      \* the clients: idle, starting, up, stopping, stopped
  alive,       \* clients whose process is running
  serving,     \* supervisor.clients for the key, or NoClient
  startingNow, \* supervisor.starting has the key
  allowed,     \* supervisor.approved
  shutdown,    \* no, closing, closed
  stops,       \* the client Close is stopping
  bytes,        \* the revision of each file on disk
  holds,       \* the revision of each file each server was handed (0: not open)
  question     \* the questions under way

lspVars == <<client, alive, serving, startingNow, allowed, shutdown, stops, bytes, holds, question>>

About(pc, kind, file, out) ==
  [pc |-> pc, kind |-> kind, file |-> file, client |-> NoClient, read |-> 0, out |-> out]
NoQuestion == About("none", "none", "none", "none")

LspInit ==
  /\ client = [c \in Clients |-> "idle"] /\ alive = {}
  /\ serving = NoClient /\ startingNow = FALSE /\ allowed = FALSE /\ shutdown = "no" /\ stops = NoClient
  /\ bytes = [f \in Sources |-> 1]
  /\ holds = [c \in Clients |-> [f \in Sources |-> 0]]
  /\ question = [q \in Questions |-> NoQuestion]

Step(q, pc) == question' = [question EXCEPT ![q].pc = pc]
Ends(q, out) == question' = [question EXCEPT ![q] = About("done", "none", "none", out)]

----------------------------------------------------------------------------
(* Asking.                                                                 *)

\* codeNavigate: what a file holds, or a place in it named by line or by symbol;
\* and Reach, which the write prompt asks and which goes ahead only when a server
\* is already there.
AskAbout(q) ==
  /\ question[q].pc \in {"none", "done"} /\ shutdown # "closed"
  /\ \E f \in Sources, k \in {"symbols", "line", "symbol", "reach"} :
       /\ k = "reach" => serving # NoClient
       /\ question' = [question EXCEPT ![q] = About(IF k = "reach" THEN "get" ELSE "confirm", k, f, "none")]
  /\ UNCHANGED <<client, alive, serving, startingNow, allowed, shutdown, stops, bytes, holds>>

\* confirmNavigator: asked once per workspace; a server that is up was asked about.
\* A prompt that is pending or refused ends the call.
ConfirmNavigator(q) ==
  \/ (allowed \/ serving # NoClient) /\ Step(q, "get") /\ UNCHANGED allowed
  \/ ~allowed /\ serving = NoClient /\ allowed' = TRUE /\ Step(q, "get")
  \/ ~allowed /\ serving = NoClient /\ Ends(q, "refused") /\ UNCHANGED allowed

Confirm(q) ==
  /\ question[q].pc = "confirm"
  /\ ConfirmNavigator(q)
  /\ UNCHANGED <<client, alive, serving, startingNow, shutdown, stops, bytes, holds>>

\* get, under the lock: the server that is up; else whoever is first starts one
\* and the others wait for that start to end, or for their own context.
GetOrStart(q) ==
  IF serving # NoClient
  THEN question' = [question EXCEPT ![q].pc = "open", ![q].client = serving] /\ UNCHANGED <<client, startingNow>>
  ELSE IF startingNow THEN Ends(q, "cancelled") /\ UNCHANGED <<client, startingNow>>
  ELSE \E c \in Clients :
         /\ client[c] = "idle"
         /\ client' = [client EXCEPT ![c] = "starting"]
         /\ startingNow' = TRUE
         /\ question' = [question EXCEPT ![q].pc = "start", ![q].client = c]

Get(q) ==
  /\ question[q].pc = "get"
  /\ IF shutdown # "no" THEN Ends(q, "closed") /\ UNCHANGED <<client, startingNow>> ELSE GetOrStart(q)
  /\ UNCHANGED <<alive, serving, allowed, shutdown, stops, bytes, holds>>

\* client.start: the process is up and the handshake done, or it failed and what
\* had been started is stopped.
StartClient(q) ==
  /\ question[q].pc = "start"
  /\ \/ alive' = alive \cup {question[q].client} /\ Step(q, "enter")
     \/ UNCHANGED alive /\ Step(q, "startFailed")
  /\ UNCHANGED <<client, serving, startingNow, allowed, shutdown, stops, bytes, holds>>

\* A get that enters its client without looking at closed again.
EnterAnyway(q, c) ==
  /\ serving' = c /\ client' = [client EXCEPT ![c] = "up"] /\ Step(q, "open")

\* After the start, under the lock again: a supervisor that was closed meanwhile
\* takes no client; this one is stopped and the caller told so.
EnterTable(q, c) ==
  IF shutdown # "no"
  THEN client' = [client EXCEPT ![c] = "stopping"] /\ Ends(q, "closed") /\ UNCHANGED serving
  ELSE serving' = c /\ client' = [client EXCEPT ![c] = "up"] /\ Step(q, "open")

Enter(q) ==
  /\ question[q].pc = "enter"
  /\ startingNow' = FALSE
  /\ EnterTable(q, question[q].client)
  /\ UNCHANGED <<alive, allowed, shutdown, stops, bytes, holds>>

StartFailed(q) ==
  /\ question[q].pc = "startFailed"
  /\ startingNow' = FALSE
  /\ client' = [client EXCEPT ![question[q].client] = "stopped"]
  /\ Ends(q, "failed")
  /\ UNCHANGED <<alive, serving, allowed, shutdown, stops, bytes, holds>>

\* didOpen: a file is handed over once.
DidOpen(q) ==
  /\ question[q].pc = "open"
  /\ question' = [question EXCEPT ![q].pc = IF holds[question[q].client][question[q].file] # 0 THEN "ask" ELSE "send",
                                  ![q].read = bytes[question[q].file]]
  /\ UNCHANGED <<client, alive, serving, startingNow, allowed, shutdown, stops, bytes, holds>>

\* drop: whatever the table holds is taken out of it and stopped.
Drop ==
  /\ serving' = NoClient
  /\ client' = IF serving = NoClient THEN client ELSE [client EXCEPT ![serving] = "stopping"]

\* The notification that carries the bytes.  A broken pipe is an error that does
\* not say the server stopped, so recover lets the client be.
SendOpen(q) ==
  /\ question[q].pc = "send"
  /\ LET c == question[q].client IN
     IF c \in alive
     THEN /\ holds' = [holds EXCEPT ![c][question[q].file] = question[q].read]
          /\ Step(q, "ask")
     ELSE Ends(q, "failed") /\ UNCHANGED holds
  /\ UNCHANGED <<client, alive, serving, startingNow, allowed, shutdown, stops, bytes>>

\* The question itself.  Of a dead server conn says it stopped; recover drops it,
\* except where the symbol is looked up first (position), whose error is returned
\* as it is.
PutQuestion(q) ==
  /\ question[q].pc = "ask"
  /\ LET c == question[q].client IN
     IF c \in alive THEN Ends(q, "answered") /\ UNCHANGED <<client, serving>>
     ELSE IF question[q].kind = "symbol" THEN Ends(q, "failed") /\ UNCHANGED <<client, serving>>
     ELSE Drop /\ Ends(q, "failed")
  /\ UNCHANGED <<alive, startingNow, allowed, shutdown, stops, bytes, holds>>

----------------------------------------------------------------------------
(* Around the questions.                                                   *)

\* reap: a server nobody used for the idle time is taken out and stopped.
Reap ==
  /\ shutdown = "no" /\ serving # NoClient
  /\ Drop
  /\ UNCHANGED <<alive, startingNow, allowed, shutdown, stops, bytes, holds, question>>

\* client.stop: shutdown, exit, and the process group when that was not enough.
StopClient(c) ==
  /\ client[c] = "stopping"
  /\ client' = [client EXCEPT ![c] = "stopped"] /\ alive' = alive \ {c}
  /\ UNCHANGED <<serving, startingNow, allowed, shutdown, stops, bytes, holds, question>>

\* The server crashes.
Crash(c) ==
  /\ c \in alive /\ client[c] \in {"starting", "up"}
  /\ alive' = alive \ {c}
  /\ UNCHANGED <<client, serving, startingNow, allowed, shutdown, stops, bytes, holds, question>>

\* A change set is applied.
Edit(f) ==
  /\ bytes[f] <= MaxEdits
  /\ bytes' = [bytes EXCEPT ![f] = @ + 1]
  /\ UNCHANGED <<client, alive, serving, startingNow, allowed, shutdown, stops, holds, question>>

\* Close: from here on nothing is taken in; what the table held is stopped, and
\* waited for.
CloseStarts ==
  /\ shutdown = "no" /\ shutdown' = "closing"
  /\ stops' = serving
  /\ Drop
  /\ UNCHANGED <<alive, startingNow, allowed, bytes, holds, question>>

CloseEnds ==
  /\ shutdown = "closing" /\ shutdown' = "closed"
  /\ stops # NoClient => client[stops] = "stopped"
  /\ UNCHANGED <<client, alive, serving, startingNow, allowed, stops, bytes, holds, question>>

LspNext ==
  \/ \E q \in Questions : \/ AskAbout(q) \/ Confirm(q) \/ Get(q) \/ StartClient(q) \/ Enter(q)
                          \/ StartFailed(q) \/ DidOpen(q) \/ SendOpen(q) \/ PutQuestion(q)
  \/ \E c \in Clients : StopClient(c) \/ Crash(c)
  \/ \E f \in Sources : Edit(f)
  \/ Reap \/ CloseStarts \/ CloseEnds

LspSpec == LspInit /\ [][LspNext]_lspVars

----------------------------------------------------------------------------
\* Close is the shutdown path: once it has returned nothing is in the table and
\* no client is up that nobody will stop, whichever start was under way.
NothingOutlivesClose ==
  shutdown = "closed" => serving = NoClient /\ \A c \in Clients : client[c] # "up"

=============================================================================
