------------------------------- MODULE Consent ------------------------------
(***************************************************************************)
(* What may run without asking, and what a yes leaves behind.              *)
(*                                                                         *)
(* Composes the approval service (Approval) with the command gate          *)
(* (companion/internal/cmdgate), the tools that consult it (run_command,   *)
(* mcp_gateway, code_task, page_snapshot in companion/internal/mcpserver), *)
(* the standing grants each kind of yes leaves (store command_grants,      *)
(* cmdgate.Delegations, pagesnap.Grants), the OnDecision hook that records *)
(* them (app/grants.go), the desktop's revocations and a restart.          *)
(***************************************************************************)
EXTENDS Approval

CONSTANTS
  Workspaces,
  Platforms,      \* values of the provider field
  Jobs,           \* what a tool call may ask for
  Installations   \* the sets of jobs a Companion may offer: code_task needs
                  \* an agent, page_snapshot a browser, mcp_gateway a provider

VARIABLES
  offered,        \* what this installation offers, settled at start-up
  rung,           \* Gate.rung
  grants,         \* command_grants: workspace -> rung of the grant, or "none"
  agents,         \* Delegations: workspace -> "none", "live" or "expired"
  snaps,          \* pagesnap.Grants: the workspaces granted
  tool,           \* the tool call around each caller
  yes             \* history: per workspace and kind, the user's last word

consentVars == <<offered, rung, grants, agents, snaps, tool, yes>>
allVars == <<vars, consentVars>>

Rungs == {"strict", "workspace", "open"}
Verdicts == {"allow", "confirm", "disclose", "block"}
Kinds == {"command", "proxy", "agent", "snapshot"}

\* A job is a command with the rule table's verdict on it, a proxied call of a
\* provider with its trust, a delegation or a page snapshot.  The rule table
\* sees commands only, so nothing else is blocked.
JobShape ==
  \A j \in Jobs :
    /\ DOMAIN j = {"kind", "verdict", "trust", "ws"}
    /\ j.kind \in Kinds
    /\ j.verdict \in Verdicts
    /\ j.trust \in {"ask", "workspace"}
    /\ j.ws \in Workspaces
    /\ j.verdict = "block" => j.kind = "command"

\* The approval request a tool builds for a job: a grant prompt is keyed by
\* the workspace alone, a delegation or an ordinary prompt by the platform too.
RequestFor(j, who, grant) ==
  [key |-> CASE grant /\ j.kind \in {"command", "proxy"} -> <<"cmd-grant", j.ws>>
             [] grant /\ j.kind = "snapshot" -> <<"snap-grant", j.ws>>
             [] OTHER -> <<j.kind, who, j>>,
   provider |-> who, mustAsk |-> FALSE, command |-> TRUE, ops |-> {},
   kind |-> j.kind, grant |-> grant, ws |-> j.ws]

AllRequests ==
  {RequestFor(j, who, g) : j \in {i \in Jobs : i.verdict # "block"}, who \in Platforms,
                           g \in BOOLEAN}

ASSUME JobsAssumption ==
  /\ JobShape /\ Jobs # {} /\ Platforms # {}
  /\ Installations \subseteq SUBSET Jobs /\ Requests = AllRequests

AnyJob == CHOOSE j \in Jobs : TRUE

Tool == [pc : {"idle", "lookup", "ask", "asked", "granting", "ran"},
         job : Jobs, who : Platforms, grant : BOOLEAN]
IdleTool == [pc |-> "idle", job |-> AnyJob, who |-> CHOOSE w \in Platforms : TRUE,
             grant |-> FALSE]

ConsentTypeOK ==
  /\ TypeOK
  /\ offered \in Installations
  /\ rung \in Rungs
  /\ grants \in [Workspaces -> Rungs \cup {"none"}]
  /\ agents \in [Workspaces -> {"none", "live", "expired"}]
  /\ snaps \in SUBSET Workspaces
  /\ tool \in [Callers -> Tool]
  /\ yes \in [Workspaces \X Kinds -> {"never", "given", "revoked"}]

ConsentInit ==
  /\ Init /\ mode = "safe"
  /\ offered \in Installations
  /\ rung \in Rungs
  /\ grants = [w \in Workspaces |-> "none"]
  /\ agents = [w \in Workspaces |-> "none"]
  /\ snaps = {}
  /\ tool = [c \in Callers |-> IdleTool]
  /\ yes = [g \in Workspaces \X Kinds |-> "never"]

-----------------------------------------------------------------------------
(* The gate.                                                               *)

\* SetRung; the settings file it also writes is not kept here: a restart may
\* come up with any rung.
SetRung(r, confirm) ==
  /\ r = "open" => confirm
  /\ rung' = r
  /\ UNCHANGED <<vars, offered, grants, agents, snaps, tool, yes>>

\* Decide up to the grant lookup, for a verdict v.
Refused(v) == v = "block"
AsksAnyway(v) ==
  \/ v = "disclose"
  \/ v = "confirm" /\ rung # "open"
  \/ v = "allow" /\ rung = "strict"
\* A rung that waives disclosure too.
AllowedEvenDisclosure(v) == v # "block" /\ rung = "open"

AllowedOutright(v) == v \notin {"block", "disclose"} /\ rung = "open"
NeedsLookup(v) == v = "allow" /\ rung = "workspace"

Granted(w) == grants[w] = "workspace"

\* Grant authorizes the workspace at the rung of the moment.
Grant(w) == grants' = [grants EXCEPT ![w] = rung]

SetTool(c, pc, j, who, g) ==
  tool' = [tool EXCEPT ![c] = [pc |-> pc, job |-> j, who |-> who, grant |-> g]]
ToolAt(c, pc) == tool' = [tool EXCEPT ![c].pc = pc]
ToolEnds(c) == tool' = [tool EXCEPT ![c] = IdleTool]

-----------------------------------------------------------------------------
(* The tools: what each does before its first wait.                        *)

\* run_command, and a proxied call of a provider trusted like ordinary work
\* (which the gate sees as an allowed command).
Gated(j) == j.kind = "command" \/ (j.kind = "proxy" /\ j.trust = "workspace")
VerdictOf(j) == IF j.kind = "proxy" THEN "allow" ELSE j.verdict

GateDecides(c, j, who) ==
  LET v == VerdictOf(j)
  IN /\ Gated(j)
     /\ \/ Refused(v) /\ ToolEnds(c)
        \/ AllowedOutright(v) /\ SetTool(c, "ran", j, who, FALSE)
        \/ AsksAnyway(v) /\ SetTool(c, "ask", j, who, FALSE)
        \/ NeedsLookup(v) /\ SetTool(c, "lookup", j, who, FALSE)

\* The grant lookup of Decide; the rung was read before.  A lookup that fails
\* ends the call.
GateLooksUp(c) ==
  /\ tool[c].pc = "lookup"
  /\ \/ Granted(tool[c].job.ws) /\ ToolAt(c, "ran")
     \/ ~Granted(tool[c].job.ws) /\ SetTool(c, "ask", tool[c].job, tool[c].who, TRUE)
     \/ ToolEnds(c)
  /\ UNCHANGED <<vars, offered, rung, grants, agents, snaps, yes>>

\* A provider at trust "ask" goes to the approver directly.
ProxyAsks(c, j, who) ==
  /\ j.kind = "proxy" /\ j.trust = "ask"
  /\ SetTool(c, "ask", j, who, FALSE)

\* confirmDelegation: a live yes skips the question, on every rung.
DelegationDecides(c, j, who) ==
  /\ j.kind = "agent"
  /\ IF agents[j.ws] = "live"
     THEN SetTool(c, "ran", j, who, FALSE)
     ELSE SetTool(c, "ask", j, who, TRUE)

\* confirmSnapshot: the strict rung asks every time.
SnapshotDecides(c, j, who) ==
  LET every == rung = "strict"
  IN /\ j.kind = "snapshot"
     /\ IF ~every /\ j.ws \in snaps
        THEN SetTool(c, "ran", j, who, FALSE)
        ELSE SetTool(c, "ask", j, who, ~every)

ToolCall(c, j, who) ==
  /\ tool[c].pc = "idle"
  /\ \/ GateDecides(c, j, who)
     \/ ProxyAsks(c, j, who)
     \/ DelegationDecides(c, j, who)
     \/ SnapshotDecides(c, j, who)
  /\ UNCHANGED <<vars, offered, rung, grants, agents, snaps, yes>>

\* The tool calls Approve; a request with a command in it is never approved
\* by policy, so it attaches to a prompt.
ToolAsks(c) ==
  /\ tool[c].pc = "ask"
  /\ Attach(c, RequestFor(tool[c].job, tool[c].who, tool[c].grant))
  /\ ToolAt(c, "asked")
  /\ UNCHANGED <<offered, rung, grants, agents, snaps, yes>>

\* Mutant: a no to a grant prompt is taken for a yes.
ToolHearsOnlyYes(c) ==
  /\ tool[c].pc = "asked"
  /\ Collect(c)
  /\ ToolAt(c, IF tool[c].grant THEN "granting" ELSE "ran")
  /\ UNCHANGED <<offered, rung, grants, agents, snaps, yes>>

\* The answer arrives while the call is still there.
ToolHears(c) ==
  /\ tool[c].pc = "asked"
  /\ Collect(c)
  /\ IF prompt[call[c].p].state = "denied" THEN ToolEnds(c)
     ELSE ToolAt(c, IF tool[c].grant THEN "granting" ELSE "ran")
  /\ UNCHANGED <<offered, rung, grants, agents, snaps, yes>>

\* pending_approval: the platform is told to call again.
ToolGivesUp(c) ==
  /\ tool[c].pc = "asked"
  /\ GiveUp(c)
  /\ ToolEnds(c)
  /\ UNCHANGED <<offered, rung, grants, agents, snaps, yes>>

\* The standing grant a yes of this kind writes down.
WriteGrant(kind, w) ==
  CASE kind \in {"command", "proxy"} -> Grant(w) /\ UNCHANGED <<agents, snaps>>
    [] kind = "agent" -> agents' = [agents EXCEPT ![w] = "live"] /\ UNCHANGED <<grants, snaps>>
    [] kind = "snapshot" -> snaps' = snaps \cup {w} /\ UNCHANGED <<grants, agents>>

\* The tool repeats the grant after the answer.  A grant that cannot be
\* stored ends the call with an error.
ToolGrants(c) ==
  /\ tool[c].pc = "granting"
  /\ \/ WriteGrant(tool[c].job.kind, tool[c].job.ws) /\ ToolAt(c, "ran")
     \/ /\ tool[c].job.kind # "agent"
        /\ UNCHANGED <<grants, agents, snaps>> /\ ToolEnds(c)
  /\ UNCHANGED <<vars, offered, rung, yes>>

\* The command, the proxied call, the agent or the snapshot has run.
ToolReturns(c) ==
  /\ tool[c].pc = "ran"
  /\ ToolEnds(c)
  /\ UNCHANGED <<vars, offered, rung, grants, agents, snaps, yes>>

-----------------------------------------------------------------------------
(* The surfaces, with the hook that writes the grant on the answer itself. *)

SurfaceAnswers(s) ==
  /\ ResolveWins(s)
  /\ LET r == prompt[surf[s].p].req
     IN yes' = IF r.grant /\ surf[s].answer = "approved"
               THEN [yes EXCEPT ![<<r.ws, r.kind>>] = "given"] ELSE yes
  /\ UNCHANGED <<offered, rung, grants, agents, snaps, tool>>

SurfaceMoves(s) ==
  /\ \/ \E k \in Keys, answer \in Answers : ResolveLookup(s, k, answer)
     \/ ResolveLoses(s)
     \/ ResolvePublish(s)
  /\ UNCHANGED consentVars

\* Mutant: only the call that asked records the grant.
GrantRecorderMissing(s) == OnDecision(s) /\ UNCHANGED consentVars

\* grantRecorder: a proxy prompt is none of the kinds it knows.  A grant it
\* cannot store is only logged; that is left out.
GrantRecorder(s) ==
  /\ OnDecision(s)
  /\ LET r == prompt[surf[s].p].req
     IN IF surf[s].answer = "approved" /\ r.grant /\ r.kind # "proxy"
        THEN WriteGrant(r.kind, r.ws)
        ELSE UNCHANGED <<grants, agents, snaps>>
  /\ UNCHANGED <<offered, rung, tool, yes>>

-----------------------------------------------------------------------------
(* The desktop withdraws a grant; time and restarts.                       *)

Withdrawn(w, kinds) ==
  yes' = [g \in DOMAIN yes |->
            IF g[1] = w /\ g[2] \in kinds /\ yes[g] = "given" THEN "revoked" ELSE yes[g]]

Revoke(w) ==
  /\ grants[w] # "none"
  /\ grants' = [grants EXCEPT ![w] = "none"]
  /\ Withdrawn(w, {"command", "proxy"})
  /\ UNCHANGED <<vars, offered, rung, agents, snaps, tool>>

RevokeDelegation(w) ==
  /\ agents[w] # "none"
  /\ agents' = [agents EXCEPT ![w] = "none"]
  /\ Withdrawn(w, {"agent"})
  /\ UNCHANGED <<vars, offered, rung, grants, snaps, tool>>

RevokeSnapshot(w) ==
  /\ w \in snaps
  /\ snaps' = snaps \ {w}
  /\ Withdrawn(w, {"snapshot"})
  /\ UNCHANGED <<vars, offered, rung, grants, agents, tool>>

\* DelegationTTL passes.
DelegationExpires(w) ==
  /\ agents[w] = "live"
  /\ agents' = [agents EXCEPT ![w] = "expired"]
  /\ UNCHANGED <<vars, offered, rung, grants, snaps, tool, yes>>

\* The standing grant a yes of this kind should have left.
Standing(w, kind) ==
  CASE kind \in {"command", "proxy"} -> grants[w] # "none"
    [] kind = "agent" -> agents[w] # "none"
    [] kind = "snapshot" -> w \in snaps

\* The process is killed and started again: prompts, answers, delegations and
\* calls are memory; command grants and snapshot grants are not.  A
\* yes that was not written down yet is lost with them.
Restart ==
  /\ prompt' = [p \in PromptIds |-> UnusedPrompt]
  /\ pending' = [k \in Keys |-> None]
  /\ decided' = [k \in Keys |-> None]
  /\ call' = [c \in Callers |-> IdleCall]
  /\ surf' = [s \in Surfaces |-> IdleSurf]
  /\ rung' \in Rungs
  /\ agents' = [w \in Workspaces |-> "none"]
  /\ tool' = [c \in Callers |-> IdleTool]
  /\ yes' = [g \in DOMAIN yes |->
               IF yes[g] = "given" /\ (g[2] = "agent" \/ ~Standing(g[1], g[2]))
               THEN "never" ELSE yes[g]]
  /\ UNCHANGED <<mode, offered, grants, snaps>>

ConsentNext ==
  \/ \E c \in Callers :
       \/ \E j \in offered, who \in Platforms : ToolCall(c, j, who)
       \/ GateLooksUp(c)
       \/ ToolAsks(c)
       \/ ToolHears(c)
       \/ ToolGivesUp(c)
       \/ ToolGrants(c)
       \/ ToolReturns(c)
  \/ \E s \in Surfaces : SurfaceAnswers(s) \/ SurfaceMoves(s) \/ GrantRecorder(s)
  \/ \E w \in Workspaces :
       Revoke(w) \/ RevokeDelegation(w) \/ RevokeSnapshot(w) \/ DelegationExpires(w)
  \/ \E r \in Rungs, confirm \in BOOLEAN : SetRung(r, confirm)
  \/ \E p \in PromptIds : Expire(p) /\ UNCHANGED consentVars
  \/ Restart

ConsentSpec == ConsentInit /\ [][ConsentNext]_allVars

-----------------------------------------------------------------------------
(* Properties.                                                             *)

\* confirmCommand: a grant is "recorded after the answer, never before".  No
\* standing grant of any kind exists in a workspace whose user never said yes
\* to one, whatever was asked, answered no, given up on or restarted.
GrantNeedsYes ==
  \A w \in Workspaces :
    /\ Standing(w, "command") =>
         yes[<<w, "command">>] # "never" \/ yes[<<w, "proxy">>] # "never"
    /\ \A kind \in {"agent", "snapshot"} :
         Standing(w, kind) => yes[<<w, kind>>] # "never"

\* Decide and confirmProxy: disclosure, and a provider at trust "ask", are
\* asked about on every rung, and no grant covers them.  Such a job runs only
\* on a yes to a prompt about this very job from this very platform
\* (commandKey: "the user approves a caller, not a string").
AlwaysAsked(j) ==
  \/ j.kind = "command" /\ j.verdict = "disclose"
  \/ j.kind = "proxy" /\ j.trust = "ask"

DisclosureNeedsItsOwnYes ==
  [][\A c \in Callers :
       tool[c].pc # "ran" /\ tool'[c].pc = "ran" /\ AlwaysAsked(tool'[c].job) =>
         /\ call[c].pc = "waiting"
         /\ prompt[call[c].p].state = "approved"
         /\ KeyOf(call[c].p) = RequestFor(tool'[c].job, tool'[c].who, FALSE).key]_allVars

\* "The rung controls whether the user is asked, never whether the checks
\* run" (cmdgate): what the rule table blocks never reaches the approver and
\* never runs, on any rung, under any grant.
BlockedNeverGetsThrough ==
  \A c \in Callers : tool[c].job.kind = "command" /\ tool[c].job.verdict = "block" =>
    tool[c].pc = "idle"

\* grantRecorder: a yes that carries a grant is written down even when the
\* call that asked is gone.  Once the surface that heard it is done, the grant
\* stands until it is withdrawn.  It has no case for a proxied call, whose yes is
\* kept by that call alone and is not claimed here.
Remembered(w, kind) ==
  yes[<<w, kind>>] = "given" =>
    \/ Standing(w, kind)
    \/ \E s \in Surfaces : surf[s].pc \in {"resolved", "published"}

YesIsRemembered ==
  \A w \in Workspaces, kind \in {"command", "agent", "snapshot"} : Remembered(w, kind)

\* Gate.Revoke "takes effect on the next command: nothing caches the answer";
\* handleDelegationRevoke says the same of delegations.  After a withdrawal
\* there is no standing grant until the user says yes again.
RevokeSticks ==
  \A w \in Workspaces :
    /\ Standing(w, "command") =>
         yes[<<w, "command">>] # "revoked" \/ yes[<<w, "proxy">>] = "given"
    /\ \A kind \in {"agent", "snapshot"} :
         Standing(w, kind) => yes[<<w, kind>>] # "revoked"
=============================================================================
