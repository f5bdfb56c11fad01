------------------------------ MODULE Approval ------------------------------
(***************************************************************************)
(* The local approval authority: companion/internal/approval.              *)
(*                                                                         *)
(* Callers are goroutines inside Service.Approve, one per tool call of an  *)
(* AI platform; surfaces are goroutines inside Service.Resolve (desktop,   *)
(* terminal, paired devices).  Every critical section of Service.mu and of *)
(* Pending.mu is one step, so that a caller may run between any two of     *)
(* them.  A prompt is a *Pending object: callers keep a pointer to it      *)
(* after it has left both maps, which is why prompts have an identity of   *)
(* their own beside their key.                                             *)
(***************************************************************************)
EXTENDS Naturals, FiniteSets

CONSTANTS
  Callers,        \* goroutines that may be inside Approve
  Surfaces,       \* goroutines that may be inside Resolve
  Requests,       \* the approval requests the tools can make
  MaxPrompts      \* bound: how many *Pending objects are alive at a time

None == 0
PromptIds == 1 .. MaxPrompts
Modes == {"safe", "balanced", "open"}
OpTypes == {"create", "update", "move", "delete", "read"}
OpPreviews == [type : OpTypes, sensitive : BOOLEAN]

\* A request as autoApproved and attach look at it.
RequestShape ==
  /\ \A r \in Requests :
       /\ {"key", "provider", "mustAsk", "command", "ops"} \subseteq DOMAIN r
       /\ r.mustAsk \in BOOLEAN
       /\ r.command \in BOOLEAN
       /\ r.ops \subseteq OpPreviews
  /\ Requests # {}

ASSUME RequestsAssumption == RequestShape
ASSUME MaxPromptsAssumption == MaxPrompts \in Nat \ {0}

Keys == {r.key : r \in Requests}

VARIABLES
  mode,       \* Service.mode
  pending,    \* Service.pending: key -> prompt
  decided,    \* Service.decided: key -> prompt, answers nobody collected
  prompt,     \* the *Pending objects
  call,       \* the callers
  surf        \* the surfaces

vars == <<mode, pending, decided, prompt, call, surf>>

AnyRequest == CHOOSE r \in Requests : TRUE

PromptStates == {"unused", "open", "approved", "denied"}
Answers == {"approved", "denied"}

Prompt == [state : PromptStates, req : Requests, fresh : BOOLEAN]
Call == [pc : {"idle", "waiting"}, req : Requests,
         p : PromptIds \cup {None}]
Surf == [pc : {"idle", "looked", "resolved", "published"},
         p : PromptIds \cup {None}, answer : Answers]

TypeOK ==
  /\ mode \in Modes
  /\ pending \in [Keys -> PromptIds \cup {None}]
  /\ decided \in [Keys -> PromptIds \cup {None}]
  /\ prompt \in [PromptIds -> Prompt]
  /\ call \in [Callers -> Call]
  /\ surf \in [Surfaces -> Surf]

UnusedPrompt == [state |-> "unused", req |-> AnyRequest, fresh |-> FALSE]
IdleCall == [pc |-> "idle", req |-> AnyRequest, p |-> None]
IdleSurf == [pc |-> "idle", p |-> None, answer |-> "denied"]

Init ==
  /\ mode \in Modes
  /\ pending = [k \in Keys |-> None]
  /\ decided = [k \in Keys |-> None]
  /\ prompt = [p \in PromptIds |-> UnusedPrompt]
  /\ call = [c \in Callers |-> IdleCall]
  /\ surf = [s \in Surfaces |-> IdleSurf]

-----------------------------------------------------------------------------
IsDecided(p) == prompt[p].state \in Answers
KeyOf(p) == prompt[p].req.key

SetMode(m, confirm) ==
  /\ m = "open" => confirm
  /\ mode' = m
  /\ UNCHANGED <<pending, decided, prompt, call, surf>>

\* The policy table: what may pass without anyone being asked.
AutoApproved(req) ==
  /\ ~req.mustAsk
  /\ mode \in {"balanced", "open"}
  /\ req.ops # {}
  /\ ~req.command
  /\ \A op \in req.ops :
       /\ ~op.sensitive
       /\ \/ op.type = "create"
          \/ op.type \in {"update", "move"} /\ mode = "open"

\* Approve returns; what it returns is the tool's business (Consent).
Return(c) == call' = [call EXCEPT ![c] = IdleCall]

WaitOn(c, req, p) ==
  call' = [call EXCEPT ![c] = [pc |-> "waiting", req |-> req, p |-> p]]

PolicyApproves(c, req) ==
  /\ call[c].pc = "idle"
  /\ AutoApproved(req)
  /\ UNCHANGED vars

\* attach, first case: a retry shares the prompt already on screen.
SharePending(c, req) ==
  /\ pending[req.key] # None
  /\ WaitOn(c, req, pending[req.key])
  /\ UNCHANGED <<pending, decided, prompt>>

\* Mutant: the backstop on the platform is missing.
ReplayableToAnyone(req) ==
  decided[req.key] # None /\ prompt[decided[req.key]].fresh

Replayable(req) ==
  /\ decided[req.key] # None
  /\ prompt[decided[req.key]].fresh
  /\ prompt[decided[req.key]].req.provider = req.provider

\* attach, second case: an answer nobody collected, fresh and for this
\* platform, is handed over and leaves the map.
ReplayDecided(c, req) ==
  /\ pending[req.key] = None
  /\ Replayable(req)
  /\ WaitOn(c, req, decided[req.key])
  /\ decided' = [decided EXCEPT ![req.key] = None]
  /\ UNCHANGED <<pending, prompt>>

\* Nothing points at the object any more: the allocator may use it again.
Garbage(p) ==
  /\ \A k \in Keys : pending[k] # p /\ decided[k] # p
  /\ \A c \in Callers : call[c].p # p
  /\ \A s \in Surfaces : surf[s].p # p

\* attach, third case: a new prompt; a stale answer under the key is swept,
\* another platform's fresh one is left where it is.
RaisePrompt(c, req) ==
  LET p == CHOOSE q \in PromptIds : Garbage(q)
      stale == decided[req.key] # None /\ ~prompt[decided[req.key]].fresh
  IN /\ pending[req.key] = None
     /\ ~Replayable(req)
     /\ \E q \in PromptIds : Garbage(q)
     /\ prompt' = [prompt EXCEPT ![p] = [state |-> "open", req |-> req, fresh |-> FALSE]]
     /\ pending' = [pending EXCEPT ![req.key] = p]
     /\ decided' = IF stale THEN [decided EXCEPT ![req.key] = None] ELSE decided
     /\ WaitOn(c, req, p)

Attach(c, req) ==
  /\ call[c].pc = "idle"
  /\ ~AutoApproved(req)
  /\ \/ SharePending(c, req)
     \/ ReplayDecided(c, req)
     \/ RaisePrompt(c, req)
  /\ UNCHANGED <<mode, surf>>

\* The select took p.done: remove(key) clears both maps under the key,
\* whatever they hold by now, and the decision is returned.
Collect(c) ==
  LET p == call[c].p
      k == call[c].req.key
  IN /\ call[c].pc = "waiting"
     /\ IsDecided(p)
     /\ pending' = [pending EXCEPT ![k] = None]
     /\ decided' = [decided EXCEPT ![k] = None]
     /\ Return(c)
     /\ UNCHANGED <<mode, prompt, surf>>

\* The select took the budget timer or ctx.Done, either of which may win even
\* when the decision is there; nothing is removed.
GiveUp(c) ==
  /\ call[c].pc = "waiting"
  /\ Return(c)
  /\ UNCHANGED <<mode, pending, decided, prompt, surf>>

-----------------------------------------------------------------------------
(* Resolve, in its three critical sections and the hook.                   *)

ResolveLookup(s, k, answer) ==
  /\ surf[s].pc = "idle"
  /\ pending[k] # None
  /\ surf' = [surf EXCEPT ![s] = [pc |-> "looked", p |-> pending[k], answer |-> answer]]
  /\ UNCHANGED <<mode, pending, decided, prompt, call>>

SurfaceDone(s) == surf' = [surf EXCEPT ![s] = IdleSurf]

\* Mutant: a second answer overwrites the first.
ResolveAlwaysWins(s) ==
  /\ surf[s].pc = "looked"
  /\ prompt' = [prompt EXCEPT ![surf[s].p].state = surf[s].answer, ![surf[s].p].fresh = TRUE]
  /\ surf' = [surf EXCEPT ![s].pc = "resolved"]
  /\ UNCHANGED <<mode, pending, decided, call>>

\* Pending.resolve: the first answer stands and wakes every waiter.
ResolveWins(s) ==
  LET p == surf[s].p
  IN /\ surf[s].pc = "looked"
     /\ ~IsDecided(p)
     /\ prompt' = [prompt EXCEPT ![p].state = surf[s].answer, ![p].fresh = TRUE]
     /\ surf' = [surf EXCEPT ![s].pc = "resolved"]
     /\ UNCHANGED <<mode, pending, decided, call>>

ResolveLoses(s) ==
  /\ surf[s].pc = "looked"
  /\ IsDecided(surf[s].p)
  /\ SurfaceDone(s)
  /\ UNCHANGED <<mode, pending, decided, prompt, call>>

\* decided with every stale entry dropped.
Swept(d) == [k \in Keys |-> IF d[k] # None /\ ~prompt[d[k]].fresh THEN None ELSE d[k]]

\* The prompt leaves the list and its answer waits for a retry.
ResolvePublish(s) ==
  LET p == surf[s].p
      k == KeyOf(p)
  IN /\ surf[s].pc = "resolved"
     /\ pending' = [pending EXCEPT ![k] = None]
     /\ decided' = Swept([decided EXCEPT ![k] = p])
     /\ surf' = [surf EXCEPT ![s].pc = "published"]
     /\ UNCHANGED <<mode, prompt, call>>

\* The OnDecision hook, which changes nothing in this package.
OnDecision(s) ==
  /\ surf[s].pc = "published"
  /\ SurfaceDone(s)
  /\ UNCHANGED <<mode, pending, decided, prompt, call>>

\* decisionTTL passes.  It is fifteen minutes, so it never passes between two
\* critical sections of the Resolve that took the decision.
Expire(p) ==
  /\ IsDecided(p)
  /\ prompt[p].fresh
  /\ \A s \in Surfaces : surf[s].p = p => surf[s].pc # "resolved"
  /\ prompt' = [prompt EXCEPT ![p].fresh = FALSE]
  /\ UNCHANGED <<mode, pending, decided, call, surf>>

-----------------------------------------------------------------------------
CallerNext ==
  \E c \in Callers :
    \/ \E req \in Requests : PolicyApproves(c, req) \/ Attach(c, req)
    \/ GiveUp(c)

SurfaceNext ==
  \E s \in Surfaces :
    \/ \E k \in Keys, answer \in Answers : ResolveLookup(s, k, answer)
    \/ ResolveWins(s)
    \/ ResolveLoses(s)
    \/ ResolvePublish(s)
    \/ OnDecision(s)

ServiceNext ==
  \/ CallerNext
  \/ SurfaceNext
  \/ \E m \in Modes, confirm \in BOOLEAN : SetMode(m, confirm)
  \/ \E p \in PromptIds : Expire(p)

Next == ServiceNext \/ \E c \in Callers : Collect(c)

Spec == Init /\ [][Next]_vars

-----------------------------------------------------------------------------
(* Properties.                                                             *)

\* "A decision the user already made must never keep the gate shut"
\* (Resolve): an answered prompt is on the pending list only while the
\* Resolve that answered it is on its way to its second critical section.
AnsweredLeavesTheList ==
  \A k \in Keys :
    pending[k] # None /\ IsDecided(pending[k]) =>
      \E s \in Surfaces : surf[s].pc = "resolved" /\ surf[s].p = pending[k]

\* Two surfaces may have looked the same prompt up; only one of them gets to
\* publish an answer for it, and it publishes the answer the waiters read
\* (Pending.resolve).
OneSurfaceAnswers ==
  \A s \in Surfaces : surf[s].pc \in {"resolved", "published"} =>
    /\ prompt[surf[s].p].state = surf[s].answer
    /\ \A t \in Surfaces \ {s} :
         surf[t].pc \in {"resolved", "published"} => surf[t].p # surf[s].p

\* An answer kept for a retry is always a real one, filed under its own key:
\* a caller that attach hands it to never waits and never reads an answer to
\* another question (attach, Resolve).
KeptAnswersAreAnswers ==
  \A k \in Keys : decided[k] # None => IsDecided(decided[k]) /\ KeyOf(decided[k]) = k

\* attach: "a decision is replayed to the platform it was made for and to no
\* other", and "a stale approval can never authorise a later write".  A caller
\* that starts waiting on a prompt that has left the list was given a fresh
\* answer made for its own platform.
Arrives(c) == call[c].pc = "idle" /\ call'[c].pc = "waiting"

ReplayIsFreshAndOwn ==
  [][\A c \in Callers :
       LET p == call'[c].p
       IN Arrives(c) /\ prompt'[p].state \in Answers /\ pending[call'[c].req.key] # p =>
            prompt'[p].fresh /\ prompt'[p].req.provider = call'[c].req.provider]_vars
=============================================================================
