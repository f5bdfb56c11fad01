---- MODULE ConsentProofs ----
(***************************************************************************)
(* Consent on top of Approval, proved for any workspaces, platforms, jobs, *)
(* installations, callers and surfaces: no standing grant without a yes,   *)
(* no yes lost with the call that asked, nothing blocked gets through, and *)
(* what discloses is asked for every time.                                 *)
(*                                                                         *)
(* The invariant is that of the approval service (IInv) and, for a tool    *)
(* call, what its job must be to have come so far (ToolFits) and that it   *)
(* waits on a prompt filed under its own key (AsksItsOwn); for a prompt,   *)
(* that an approved grant is a yes (PromptFits); and for a yes, that it is *)
(* on record or that a surface still has to tell the hook (Owed).          *)
(***************************************************************************)
EXTENDS Consent, ApprovalProofs, Sequences

\* The user said yes to a standing grant that covers work of this kind.
SaidYes(w, kind) ==
  IF kind \in {"command", "proxy"}
  THEN yes[<<w, "command">>] # "never" \/ yes[<<w, "proxy">>] # "never"
  ELSE yes[<<w, kind>>] # "never"

\* A tool call, as far as it has come.
ToolFits(c) ==
  /\ tool[c].pc # "idle" => tool[c].job.verdict # "block"
  /\ tool[c].pc \in {"ask", "asked"} =>
       /\ tool[c].job.kind = "agent" => tool[c].grant
       /\ AlwaysAsked(tool[c].job) => ~tool[c].grant
  /\ tool[c].pc \in {"lookup", "granting"} => ~AlwaysAsked(tool[c].job)
  /\ tool[c].pc = "granting" => SaidYes(tool[c].job.ws, tool[c].job.kind)

\* A tool call that waits does so on a prompt filed under its own request's key.
AsksItsOwn(c) ==
  tool[c].pc = "asked" =>
    /\ call[c].pc = "waiting" /\ prompt[call[c].p].state # "unused"
    /\ KeyOf(call[c].p) = RequestFor(tool[c].job, tool[c].who, tool[c].grant).key

\* A prompt: a delegation is always a grant, and an approved grant is a yes.
PromptFits(p) ==
  prompt[p].state # "unused" =>
    /\ prompt[p].req.kind = "agent" => prompt[p].req.grant
    /\ prompt[p].state = "approved" /\ prompt[p].req.grant => yes[<<prompt[p].req.ws, prompt[p].req.kind>>] # "never"

\* Surface s has heard a yes to a grant of this kind and has not told the hook yet.
Owes(s, w, kind) ==
  /\ surf[s].pc \in {"resolved", "published"} /\ surf[s].answer = "approved"
  /\ prompt[surf[s].p].req.grant /\ prompt[surf[s].p].req.ws = w /\ prompt[surf[s].p].req.kind = kind

\* A yes stands, or is about to be written down.
Owed(w, kind) ==
  yes[<<w, kind>>] = "given" => Standing(w, kind) \/ \E s \in Surfaces : Owes(s, w, kind)

\* The inductive invariant of consent.
ConsentInv ==
  /\ IInv /\ ConsentTypeOK
  /\ \A c \in Callers : ToolFits(c) /\ AsksItsOwn(c)
  /\ \A p \in PromptIds : PromptFits(p)
  /\ GrantNeedsYes
  /\ \A w \in Workspaces, kind \in {"command", "agent", "snapshot"} : Owed(w, kind)

\* What a job is.
LEMMA JobFacts ==
  \A j \in Jobs : /\ j.kind \in Kinds /\ j.ws \in Workspaces /\ j.verdict \in Verdicts /\ j.trust \in {"ask", "workspace"}
                  /\ j.verdict = "block" => j.kind = "command"
BY JobsAssumption DEF JobShape

\* Every request is one a tool builds for a job.
LEMMA RequestFacts ==
  ASSUME NEW r \in Requests
  PROVE  /\ r.ws \in Workspaces /\ r.kind \in Kinds /\ r.grant \in BOOLEAN
         /\ \E j \in Jobs, who \in Platforms : r = RequestFor(j, who, r.grant)
<1>1. PICK j \in Jobs, who \in Platforms, g \in BOOLEAN : r = RequestFor(j, who, g)
  BY JobsAssumption DEF AllRequests
<1>2. r.ws = j.ws /\ r.kind = j.kind /\ r.grant = g
  BY <1>1 DEF RequestFor
<1> QED
  BY <1>1, <1>2, JobFacts

\* What a tool asks is a request of the approval service.
LEMMA AskedIsRequest ==
  ASSUME NEW j \in Jobs, j.verdict # "block", NEW who \in Platforms, NEW g \in BOOLEAN
  PROVE  RequestFor(j, who, g) \in Requests
BY JobsAssumption DEF AllRequests

\* Two keys of different length differ.
LEMMA KeysDiffer ==
  \A a, b, x, y, z : <<a, b>> # <<x, y, z>>
<1> SUFFICES ASSUME NEW a, NEW b, NEW x, NEW y, NEW z, <<a, b>> = <<x, y, z>> PROVE FALSE
  OBVIOUS
<1>1. Len(<<a, b>>) = 2 /\ Len(<<x, y, z>>) = 3
  OBVIOUS
<1> QED
  BY <1>1

\* A prompt filed under the key of a grant question is a question for that grant.
LEMMA KeyDecides ==
  ASSUME NEW r \in Requests, r.kind = "agent" => r.grant, NEW j \in Jobs, NEW who \in Platforms,
         r.key = RequestFor(j, who, TRUE).key
  PROVE  r.grant /\ r.ws = j.ws /\ (r.kind = j.kind \/ {r.kind, j.kind} \subseteq {"command", "proxy"})
<1>1. PICK i \in Jobs, u \in Platforms, g \in BOOLEAN : r = RequestFor(i, u, g)
  BY RequestFacts
<1>2. /\ r.grant = g /\ r.ws = i.ws /\ r.kind = i.kind /\ i.kind \in Kinds /\ j.kind \in Kinds
      /\ r.key = (CASE g /\ i.kind \in {"command", "proxy"} -> <<"cmd-grant", i.ws>>
                    [] g /\ i.kind = "snapshot" -> <<"snap-grant", i.ws>>
                    [] OTHER -> <<i.kind, u, i>>)
  BY <1>1, JobFacts DEF RequestFor
<1>3. RequestFor(j, who, TRUE).key = (CASE j.kind \in {"command", "proxy"} -> <<"cmd-grant", j.ws>>
                                        [] j.kind = "snapshot" -> <<"snap-grant", j.ws>>
                                        [] OTHER -> <<j.kind, who, j>>)
  BY DEF RequestFor
<1>4. CASE j.kind \in {"command", "proxy"}
  <2>1. r.key = <<"cmd-grant", j.ws>>
    BY <1>3, <1>4
  <2>2. CASE g /\ i.kind \in {"command", "proxy"}
    BY <1>2, <1>4, <2>1, <2>2
  <2>3. CASE g /\ i.kind = "snapshot"
    BY <1>2, <2>1, <2>3
  <2>4. CASE ~(g /\ i.kind \in {"command", "proxy"}) /\ ~(g /\ i.kind = "snapshot")
    BY <1>2, <2>1, <2>4, KeysDiffer
  <2> QED
    BY <2>2, <2>3, <2>4
<1>5. CASE j.kind = "snapshot"
  <2>1. r.key = <<"snap-grant", j.ws>>
    BY <1>3, <1>5
  <2>2. CASE g /\ i.kind \in {"command", "proxy"}
    BY <1>2, <2>1, <2>2
  <2>3. CASE g /\ i.kind = "snapshot"
    BY <1>2, <1>5, <2>1, <2>3
  <2>4. CASE ~(g /\ i.kind \in {"command", "proxy"}) /\ ~(g /\ i.kind = "snapshot")
    BY <1>2, <2>1, <2>4, KeysDiffer
  <2> QED
    BY <2>2, <2>3, <2>4
<1>6. CASE j.kind = "agent"
  <2>1. r.key = <<"agent", who, j>>
    BY <1>3, <1>6
  <2>2. CASE g /\ i.kind \in {"command", "proxy"}
    BY <1>2, <2>1, <2>2, KeysDiffer
  <2>3. CASE g /\ i.kind = "snapshot"
    BY <1>2, <2>1, <2>3, KeysDiffer
  <2>4. CASE ~(g /\ i.kind \in {"command", "proxy"}) /\ ~(g /\ i.kind = "snapshot")
    <3>1. <<i.kind, u, i>> = <<"agent", who, j>>
      BY <1>2, <2>1, <2>4
    <3>2. i.kind = "agent" /\ i = j
      BY <3>1
    <3> QED
      BY <1>2, <3>2
  <2> QED
    BY <2>2, <2>3, <2>4
<1> QED
  BY <1>2, <1>4, <1>5, <1>6 DEF Kinds

\* What attach leaves: the caller waits on a prompt under its key, and only garbage is written over.
LEMMA AttachFact ==
  ASSUME IInv, NEW c \in Callers, NEW req \in Requests, Attach(c, req)
  PROVE  /\ IInv' /\ UNCHANGED surf
         /\ \A d \in Callers \ {c} : call'[d] = call[d]
         /\ \A p \in PromptIds : \/ prompt'[p] = prompt[p]
                                 \/ Garbage(p) /\ prompt'[p] = [state |-> "open", req |-> req, fresh |-> FALSE]
         /\ call'[c].pc = "waiting" /\ prompt'[call'[c].p].state # "unused" /\ prompt'[call'[c].p].req.key = req.key
<1>1. IInv'
  BY AttachIInv
<1>2. TypeOK /\ req.key \in Keys /\ UNCHANGED surf
  BY KeyFacts DEF IInv, Attach
<1>3. CASE SharePending(c, req)
  <2>1. pending[req.key] # None /\ UNCHANGED prompt /\ call' = [call EXCEPT ![c] = [pc |-> "waiting", req |-> req, p |-> pending[req.key]]]
    BY <1>3 DEF SharePending, WaitOn
  <2>2. prompt[pending[req.key]].req.key = req.key /\ prompt[pending[req.key]].state # "unused"
    BY <1>2, <2>1 DEF IInv, PointersInUse, KeyOf
  <2> QED
    BY <1>1, <1>2, <2>1, <2>2 DEF TypeOK
<1>4. CASE ReplayDecided(c, req)
  <2>1. decided[req.key] # None /\ UNCHANGED prompt /\ call' = [call EXCEPT ![c] = [pc |-> "waiting", req |-> req, p |-> decided[req.key]]]
    BY <1>4 DEF ReplayDecided, Replayable, WaitOn
  <2>2. prompt[decided[req.key]].req.key = req.key /\ prompt[decided[req.key]].state # "unused"
    BY <1>2, <2>1 DEF IInv, KeptAnswersAreAnswers, IsDecided, KeyOf, Answers
  <2> QED
    BY <1>1, <1>2, <2>1, <2>2 DEF TypeOK
<1>5. CASE RaisePrompt(c, req)
  <2>1. PICK p \in PromptIds : /\ Garbage(p) /\ prompt' = [prompt EXCEPT ![p] = [state |-> "open", req |-> req, fresh |-> FALSE]]
                               /\ call' = [call EXCEPT ![c] = [pc |-> "waiting", req |-> req, p |-> p]]
    BY <1>5 DEF RaisePrompt, WaitOn
  <2> QED
    BY <1>1, <1>2, <2>1 DEF TypeOK
<1> QED
  BY <1>3, <1>4, <1>5 DEF Attach

\* An idle tool call is a tool call.
LEMMA IdleToolFact == IdleTool \in Tool /\ IdleTool.pc = "idle"
<1>1. AnyJob \in Jobs /\ (CHOOSE w \in Platforms : TRUE) \in Platforms
  BY JobsAssumption DEF AnyJob
<1> QED
  BY <1>1 DEF IdleTool, Tool

\* A yes is not taken back to never.
YesStays == \A g \in Workspaces \X Kinds : yes[g] # "never" => yes'[g] # "never"

\* A tool call that does not move, on a prompt that stays what it is.
LEMMA ToolRests ==
  ASSUME ConsentInv, NEW d \in Callers, tool'[d] = tool[d], call'[d] = call[d], YesStays,
         tool[d].pc = "asked" => prompt'[call[d].p].req = prompt[call[d].p].req /\ prompt'[call[d].p].state # "unused"
  PROVE  ToolFits(d)' /\ AsksItsOwn(d)'
<1>1. ToolFits(d) /\ AsksItsOwn(d) /\ tool[d] \in Tool
  BY DEF ConsentInv, ConsentTypeOK
<1>2. tool[d].job.kind \in Kinds /\ tool[d].job.ws \in Workspaces
  BY <1>1, JobFacts DEF Tool
<1>3. SaidYes(tool[d].job.ws, tool[d].job.kind) => SaidYes(tool[d].job.ws, tool[d].job.kind)'
  BY <1>2 DEF SaidYes, YesStays, Kinds
<1>4. ToolFits(d)'
  BY <1>1, <1>3 DEF ToolFits
<1>5. AsksItsOwn(d)'
  BY <1>1 DEF AsksItsOwn, KeyOf
<1> QED
  BY <1>4, <1>5

\* A yes that stood or was owed still stands or is still owed.
LEMMA StillOwed ==
  ASSUME NEW w \in Workspaces, NEW kind \in {"command", "agent", "snapshot"}, Owed(w, kind),
         yes'[<<w, kind>>] = "given" => yes[<<w, kind>>] = "given", Standing(w, kind) => Standing(w, kind)',
         \A s \in Surfaces : Owes(s, w, kind) => Owes(s, w, kind)' \/ Standing(w, kind)'
  PROVE  Owed(w, kind)'
BY DEF Owed

\* Nothing that a grant depends on moves.
LEMMA StandingRests ==
  ASSUME UNCHANGED <<grants, agents, snaps, yes>>, ConsentInv
  PROVE  GrantNeedsYes' /\ YesStays /\ \A w \in Workspaces, kind \in Kinds : Standing(w, kind)' = Standing(w, kind)
BY DEF ConsentInv, GrantNeedsYes, Standing, YesStays

\* A tool call that moves on its own, without the approver.
LEMMA ToolAlone ==
  ASSUME ConsentInv, NEW c \in Callers, NEW t \in Tool, tool' = [tool EXCEPT ![c] = t], t.pc # "asked", ToolFits(c)',
         UNCHANGED <<vars, offered, rung, grants, agents, snaps, yes>>
  PROVE  ConsentInv'
<1>1. UNCHANGED <<mode, pending, decided, prompt, call, surf>>
  BY DEF vars
<1>2. IInv' /\ TypeOK'
  BY <1>1, QuietIInv DEF ConsentInv, IInv, TypeOK
<1>3. ConsentTypeOK /\ ConsentTypeOK'
  BY <1>2 DEF ConsentInv, ConsentTypeOK
<1>4. GrantNeedsYes' /\ YesStays /\ \A w \in Workspaces, kind \in Kinds : Standing(w, kind)' = Standing(w, kind)
  BY StandingRests
<1>5. ASSUME NEW d \in Callers PROVE ToolFits(d)' /\ AsksItsOwn(d)'
  <2>1. CASE d = c
    BY <1>3, <2>1 DEF AsksItsOwn, ConsentTypeOK
  <2>2. CASE d # c
    <3>1. AsksItsOwn(d)
      BY DEF ConsentInv
    <3>2. tool'[d] = tool[d]
      BY <1>3, <2>2 DEF ConsentTypeOK
    <3> QED
      BY <1>1, <1>4, <3>1, <3>2, ToolRests DEF AsksItsOwn
  <2> QED
    BY <2>1, <2>2
<1>6. \A p \in PromptIds : PromptFits(p)'
  BY <1>1 DEF ConsentInv, PromptFits
<1>7. ASSUME NEW w \in Workspaces, NEW kind \in {"command", "agent", "snapshot"} PROVE Owed(w, kind)'
  <2>1. Owed(w, kind) /\ Standing(w, kind)' = Standing(w, kind)
    BY <1>4 DEF ConsentInv, Kinds
  <2>2. \A s \in Surfaces : Owes(s, w, kind) => Owes(s, w, kind)'
    BY <1>1 DEF Owes
  <2> QED
    BY <2>1, <2>2, StillOwed
<1> QED
  BY <1>2, <1>3, <1>4, <1>5, <1>6, <1>7 DEF ConsentInv

\* What the tools do before and after the question.
LEMMA ToolCallFits ==
  ASSUME ConsentInv, NEW c \in Callers, NEW j \in Jobs, NEW who \in Platforms, ToolCall(c, j, who)
  PROVE  ConsentInv'
<1>1. UNCHANGED <<vars, offered, rung, grants, agents, snaps, yes>> /\ tool \in [Callers -> Tool]
  BY DEF ToolCall, ConsentInv, ConsentTypeOK
<1>2. j.kind \in Kinds /\ j.verdict \in Verdicts /\ j.trust \in {"ask", "workspace"} /\ (j.verdict = "block" => j.kind = "command")
  BY JobFacts
<1>3. CASE ToolEnds(c)
  <2>1. tool' = [tool EXCEPT ![c] = IdleTool]
    BY <1>3 DEF ToolEnds
  <2>2. ToolFits(c)'
    BY <1>1, <2>1, IdleToolFact DEF ToolFits
  <2> QED
    BY <1>1, <2>1, <2>2, IdleToolFact, ToolAlone
<1>4. ASSUME NEW pc \in {"lookup", "ask", "ran"}, NEW g \in BOOLEAN, SetTool(c, pc, j, who, g), j.verdict # "block",
             pc = "ask" => (j.kind = "agent" => g) /\ (AlwaysAsked(j) => ~g), pc = "lookup" => ~AlwaysAsked(j)
      PROVE  ConsentInv'
  <2>1. PICK t \in Tool : t = [pc |-> pc, job |-> j, who |-> who, grant |-> g]
    BY DEF Tool
  <2>2. tool' = [tool EXCEPT ![c] = t] /\ tool'[c] = t
    BY <1>1, <1>4, <2>1 DEF SetTool
  <2>3. ToolFits(c)'
    BY <1>4, <2>1, <2>2 DEF ToolFits
  <2> QED
    BY <1>1, <2>1, <2>2, <2>3, ToolAlone
<1>5. CASE GateDecides(c, j, who)
  <2>1. Gated(j)
    BY <1>5 DEF GateDecides
  <2>2. j.kind # "agent" /\ (AlwaysAsked(j) <=> VerdictOf(j) = "disclose") /\ (j.verdict = "block" => VerdictOf(j) = "block")
    BY <1>2, <2>1 DEF Gated, AlwaysAsked, VerdictOf, Kinds
  <2>3. CASE AllowedOutright(VerdictOf(j)) /\ SetTool(c, "ran", j, who, FALSE)
    BY <1>4, <2>2, <2>3 DEF AllowedOutright
  <2>4. CASE AsksAnyway(VerdictOf(j)) /\ SetTool(c, "ask", j, who, FALSE)
    BY <1>4, <2>2, <2>4 DEF AsksAnyway
  <2>5. CASE NeedsLookup(VerdictOf(j)) /\ SetTool(c, "lookup", j, who, FALSE)
    BY <1>4, <2>2, <2>5 DEF NeedsLookup
  <2> QED
    BY <1>3, <1>5, <2>3, <2>4, <2>5 DEF GateDecides
<1>6. CASE ProxyAsks(c, j, who)
  BY <1>2, <1>4, <1>6 DEF ProxyAsks
<1>7. CASE DelegationDecides(c, j, who)
  BY <1>2, <1>4, <1>7 DEF DelegationDecides, AlwaysAsked
<1>8. CASE SnapshotDecides(c, j, who)
  <2>1. j.kind = "snapshot" /\ ~AlwaysAsked(j) /\ j.verdict # "block"
    BY <1>2, <1>8 DEF SnapshotDecides, AlwaysAsked
  <2>2. SetTool(c, "ran", j, who, FALSE) \/ SetTool(c, "ask", j, who, TRUE) \/ SetTool(c, "ask", j, who, FALSE)
    BY <1>8 DEF SnapshotDecides
  <2> QED
    BY <1>4, <2>1, <2>2
<1> QED
  BY <1>5, <1>6, <1>7, <1>8 DEF ToolCall

\* The lookup of a grant, and the end of a call.
LEMMA ToolStepFits ==
  ASSUME ConsentInv, NEW c \in Callers, GateLooksUp(c) \/ ToolReturns(c)
  PROVE  ConsentInv'
<1>1. /\ UNCHANGED <<vars, offered, rung, grants, agents, snaps, yes>> /\ tool \in [Callers -> Tool] /\ tool[c] \in Tool
      /\ tool[c].pc \in {"lookup", "ran"} /\ ToolFits(c)
  BY DEF GateLooksUp, ToolReturns, ConsentInv, ConsentTypeOK
<1>2. CASE ToolEnds(c)
  <2>1. tool' = [tool EXCEPT ![c] = IdleTool]
    BY <1>2 DEF ToolEnds
  <2>2. ToolFits(c)'
    BY <1>1, <2>1, IdleToolFact DEF ToolFits
  <2> QED
    BY <1>1, <2>1, <2>2, IdleToolFact, ToolAlone
<1>3. CASE GateLooksUp(c) /\ ToolAt(c, "ran")
  <2>1. PICK t : t = [tool[c] EXCEPT !.pc = "ran"]
    OBVIOUS
  <2>2. t \in Tool /\ t.pc = "ran" /\ t.job = tool[c].job
    BY <1>1, <2>1 DEF Tool
  <2>3. tool' = [tool EXCEPT ![c] = t] /\ tool'[c] = t
    BY <1>1, <1>3, <2>1 DEF ToolAt
  <2>4. ToolFits(c)'
    BY <1>1, <2>2, <2>3 DEF ToolFits
  <2> QED
    BY <1>1, <2>2, <2>3, <2>4, ToolAlone
<1>4. CASE GateLooksUp(c) /\ SetTool(c, "ask", tool[c].job, tool[c].who, TRUE)
  <2>1. PICK t : t = [pc |-> "ask", job |-> tool[c].job, who |-> tool[c].who, grant |-> TRUE]
    OBVIOUS
  <2>2. t \in Tool /\ t.pc = "ask" /\ t.job = tool[c].job /\ t.grant = TRUE /\ tool[c].pc = "lookup"
    BY <1>1, <1>4, <2>1 DEF Tool, GateLooksUp
  <2>3. tool' = [tool EXCEPT ![c] = t] /\ tool'[c] = t
    BY <1>1, <1>4, <2>1 DEF SetTool
  <2>4. ToolFits(c)'
    BY <1>1, <2>2, <2>3 DEF ToolFits
  <2> QED
    BY <1>1, <2>2, <2>3, <2>4, ToolAlone
<1> QED
  BY <1>2, <1>3, <1>4 DEF GateLooksUp, ToolReturns

\* Prompts somebody points at stay what they are, but for being answered or growing old.
PromptsStay ==
  \A p \in PromptIds : ~Garbage(p) =>
    prompt'[p].req = prompt[p].req /\ (prompt[p].state # "unused" => prompt'[p].state # "unused")

\* Everybody but caller c, in a step that writes down no grant and hears no answer.
LEMMA CallerAlone ==
  ASSUME ConsentInv, NEW c \in Callers, IInv', ConsentTypeOK', UNCHANGED <<grants, agents, snaps, yes, surf>>,
         \A d \in Callers \ {c} : tool'[d] = tool[d] /\ call'[d] = call[d],
         ToolFits(c)', AsksItsOwn(c)', PromptsStay, \A p \in PromptIds : PromptFits(p)'
  PROVE  ConsentInv'
<1>1. GrantNeedsYes' /\ YesStays /\ \A w \in Workspaces, kind \in Kinds : Standing(w, kind)' = Standing(w, kind)
  BY StandingRests
<1>2. ASSUME NEW d \in Callers PROVE ToolFits(d)' /\ AsksItsOwn(d)'
  <2>1. CASE d # c
    <3>1. AsksItsOwn(d) /\ PointersInUse
      BY DEF ConsentInv, IInv
    <3>2. tool[d].pc = "asked" => call[d].p \in PromptIds /\ ~Garbage(call[d].p)
      BY <3>1 DEF AsksItsOwn, PointersInUse, Garbage
    <3>3. tool[d].pc = "asked" => prompt'[call[d].p].req = prompt[call[d].p].req /\ prompt'[call[d].p].state # "unused"
      BY <3>1, <3>2 DEF PromptsStay, AsksItsOwn
    <3>4. tool'[d] = tool[d] /\ call'[d] = call[d]
      BY <2>1
    <3> QED
      BY <1>1, <3>3, <3>4, ToolRests
  <2> QED
    BY <2>1
<1>3. ASSUME NEW w \in Workspaces, NEW kind \in {"command", "agent", "snapshot"} PROVE Owed(w, kind)'
  <2>1. Owed(w, kind) /\ Standing(w, kind)' = Standing(w, kind)
    BY <1>1 DEF ConsentInv, Kinds
  <2>2. \A s \in Surfaces : Owes(s, w, kind) => Owes(s, w, kind)'
    <3> SUFFICES ASSUME NEW s \in Surfaces, Owes(s, w, kind) PROVE Owes(s, w, kind)'
      OBVIOUS
    <3>1. surf[s].p \in PromptIds /\ ~Garbage(surf[s].p)
      BY DEF Owes, ConsentInv, IInv, PointersInUse, Garbage
    <3> QED
      BY <3>1 DEF PromptsStay, Owes
  <2> QED
    BY <2>1, <2>2, StillOwed
<1> QED
  BY <1>1, <1>2, <1>3 DEF ConsentInv

\* The tool calls Approve.
LEMMA ToolAsksFits ==
  ASSUME ConsentInv, NEW c \in Callers, ToolAsks(c)
  PROVE  ConsentInv'
<1>1. PICK t \in Tool : t = tool[c] /\ t.pc = "ask" /\ ToolFits(c)
  BY DEF ConsentInv, ConsentTypeOK, ToolAsks
<1>2. t.job \in Jobs /\ t.who \in Platforms /\ t.grant \in BOOLEAN /\ t.job.verdict # "block"
  BY <1>1 DEF Tool, ToolFits
<1>3. PICK req \in Requests : req = RequestFor(t.job, t.who, t.grant)
  BY <1>2, AskedIsRequest
<1>4. req.kind = t.job.kind /\ req.grant = t.grant
  BY <1>3 DEF RequestFor
<1>5. /\ IInv' /\ UNCHANGED surf
      /\ \A d \in Callers \ {c} : call'[d] = call[d]
      /\ \A p \in PromptIds : \/ prompt'[p] = prompt[p]
                              \/ Garbage(p) /\ prompt'[p] = [state |-> "open", req |-> req, fresh |-> FALSE]
      /\ call'[c].pc = "waiting" /\ prompt'[call'[c].p].state # "unused" /\ prompt'[call'[c].p].req.key = req.key
  <2>1. IInv /\ Attach(c, req)
    BY <1>1, <1>3 DEF ConsentInv, ToolAsks
  <2> QED
    BY <2>1, AttachFact
<1>6. PICK u : u = [t EXCEPT !.pc = "asked"]
  OBVIOUS
<1>7. u \in Tool /\ u.pc = "asked" /\ u.job = t.job /\ u.who = t.who /\ u.grant = t.grant
  BY <1>6 DEF Tool
<1>8. tool' = [tool EXCEPT ![c] = u] /\ tool \in [Callers -> Tool] /\ UNCHANGED <<offered, rung, grants, agents, snaps, yes>>
  BY <1>1, <1>6 DEF ToolAsks, ToolAt, ConsentInv, ConsentTypeOK
<1>9. tool'[c] = u /\ \A d \in Callers \ {c} : tool'[d] = tool[d]
  BY <1>8
<1>10. ConsentTypeOK'
  BY <1>5, <1>7, <1>8 DEF ConsentInv, ConsentTypeOK, IInv
<1>11. ToolFits(c)'
  BY <1>1, <1>7, <1>9 DEF ToolFits
<1>12. AsksItsOwn(c)'
  BY <1>3, <1>5, <1>7, <1>9 DEF AsksItsOwn, KeyOf
<1>13. PromptsStay
  BY <1>5 DEF PromptsStay
<1>14. ASSUME NEW p \in PromptIds PROVE PromptFits(p)'
  <2>1. CASE prompt'[p] = prompt[p]
    BY <1>8, <2>1 DEF ConsentInv, PromptFits
  <2>2. CASE prompt'[p] = [state |-> "open", req |-> req, fresh |-> FALSE]
    <3>1. req.kind = "agent" => req.grant
      BY <1>1, <1>4 DEF ToolFits
    <3> QED
      BY <2>2, <3>1 DEF PromptFits
  <2> QED
    BY <1>5, <2>1, <2>2
<1> QED
  BY <1>5, <1>8, <1>9, <1>10, <1>11, <1>12, <1>13, <1>14, CallerAlone

\* The answer arrives, or the call gives up.
LEMMA ToolHearsFits ==
  ASSUME ConsentInv, NEW c \in Callers, ToolHears(c) \/ ToolGivesUp(c)
  PROVE  ConsentInv'
<1>1. PICK t \in Tool : t = tool[c] /\ t.pc = "asked" /\ ToolFits(c) /\ AsksItsOwn(c)
  BY DEF ConsentInv, ConsentTypeOK, ToolHears, ToolGivesUp
<1>2. /\ UNCHANGED <<prompt, surf, mode>> /\ UNCHANGED <<offered, rung, grants, agents, snaps, yes>>
      /\ call' = [call EXCEPT ![c] = IdleCall] /\ call \in [Callers -> Call] /\ tool \in [Callers -> Tool]
  BY DEF ToolHears, ToolGivesUp, Collect, GiveUp, Return, ConsentInv, ConsentTypeOK, TypeOK
<1>3. IInv'
  BY CollectIInv, GiveUpIInv DEF ToolHears, ToolGivesUp, ConsentInv
<1>4. ASSUME NEW u \in Tool, tool' = [tool EXCEPT ![c] = u], u.pc # "asked", ToolFits(c)'
      PROVE  ConsentInv'
  <2>1. \A d \in Callers \ {c} : tool'[d] = tool[d] /\ call'[d] = call[d]
    BY <1>2, <1>4
  <2>2. ConsentTypeOK'
    BY <1>2, <1>3, <1>4 DEF ConsentInv, ConsentTypeOK, IInv
  <2>3. AsksItsOwn(c)'
    BY <1>2, <1>4 DEF AsksItsOwn
  <2>4. PromptsStay /\ \A p \in PromptIds : PromptFits(p)'
    BY <1>2 DEF PromptsStay, ConsentInv, PromptFits
  <2> QED
    BY <1>2, <1>3, <1>4, <2>1, <2>2, <2>3, <2>4, CallerAlone
<1>5. CASE ToolEnds(c)
  <2>1. tool' = [tool EXCEPT ![c] = IdleTool]
    BY <1>5 DEF ToolEnds
  <2>2. ToolFits(c)'
    BY <1>2, <2>1, IdleToolFact DEF ToolFits
  <2> QED
    BY <1>4, <2>1, <2>2, IdleToolFact
<1>6. CASE ToolHears(c) /\ prompt[call[c].p].state # "denied"
  <2>1. PICK pc \in {"granting", "ran"} : ToolAt(c, pc) /\ pc = (IF t.grant THEN "granting" ELSE "ran")
    BY <1>1, <1>6 DEF ToolHears
  <2>2. PICK u : u = [t EXCEPT !.pc = pc]
    OBVIOUS
  <2>3. u \in Tool /\ u.pc = pc /\ u.job = t.job /\ u.who = t.who /\ u.grant = t.grant
    BY <2>2 DEF Tool
  <2>4. tool' = [tool EXCEPT ![c] = u] /\ tool'[c] = u
    BY <1>1, <1>2, <2>1, <2>2 DEF ToolAt
  <2>5. PICK p \in PromptIds : p = call[c].p /\ prompt[p].state = "approved" /\ PromptFits(p) /\ prompt[p].req \in Requests
    <3>1. call[c].p \in PromptIds /\ prompt[call[c].p].state \in Answers
      BY <1>6 DEF ConsentInv, IInv, PointersInUse, ToolHears, Collect, IsDecided
    <3> QED
      BY <1>6, <3>1 DEF Answers, ConsentInv, ConsentTypeOK, TypeOK, Prompt
  <2>6. t.grant => ~AlwaysAsked(t.job) /\ SaidYes(t.job.ws, t.job.kind)
    <3> SUFFICES ASSUME t.grant PROVE ~AlwaysAsked(t.job) /\ SaidYes(t.job.ws, t.job.kind)
      OBVIOUS
    <3>1. t.job \in Jobs /\ t.who \in Platforms /\ t.grant = TRUE
      BY DEF Tool
    <3>2. PICK r \in Requests : r = prompt[p].req /\ (r.kind = "agent" => r.grant) /\ (r.grant => yes[<<r.ws, r.kind>>] # "never")
      BY <2>5 DEF PromptFits
    <3>3. r.key = RequestFor(t.job, t.who, TRUE).key
      BY <1>1, <2>5, <3>1, <3>2 DEF AsksItsOwn, KeyOf
    <3>4. r.grant /\ r.ws = t.job.ws /\ (r.kind = t.job.kind \/ {r.kind, t.job.kind} \subseteq {"command", "proxy"})
      BY <3>1, <3>2, <3>3, KeyDecides
    <3>5. SaidYes(t.job.ws, t.job.kind)
      BY <3>2, <3>4 DEF SaidYes
    <3> QED
      BY <1>1, <3>5 DEF ToolFits
  <2>7. SaidYes(t.job.ws, t.job.kind) = SaidYes(t.job.ws, t.job.kind)'
    BY <1>2 DEF SaidYes
  <2>8. ToolFits(c)'
    BY <1>1, <2>1, <2>3, <2>4, <2>6, <2>7 DEF ToolFits
  <2> QED
    BY <1>4, <2>1, <2>3, <2>4, <2>8
<1> QED
  BY <1>5, <1>6 DEF ToolHears, ToolGivesUp

\* A grant written down after a yes.
LEMMA GrantWritten ==
  ASSUME ConsentInv, NEW w \in Workspaces, NEW kind \in Kinds, WriteGrant(kind, w), SaidYes(w, kind), UNCHANGED yes
  PROVE  /\ GrantNeedsYes' /\ Standing(w, kind)' /\ YesStays
         /\ \A v \in Workspaces, k \in Kinds : Standing(v, k) => Standing(v, k)'
         /\ grants' \in [Workspaces -> Rungs \cup {"none"}] /\ agents' \in [Workspaces -> {"none", "live", "expired"}]
         /\ snaps' \in SUBSET Workspaces
<1>1. /\ grants \in [Workspaces -> Rungs \cup {"none"}] /\ agents \in [Workspaces -> {"none", "live", "expired"}]
      /\ snaps \in SUBSET Workspaces /\ rung \in Rungs /\ rung # "none" /\ GrantNeedsYes
  BY DEF ConsentInv, ConsentTypeOK, Rungs
<1>2. YesStays
  BY DEF YesStays
<1>3. CASE kind \in {"command", "proxy"}
  <2>1. grants' = [grants EXCEPT ![w] = rung] /\ UNCHANGED <<agents, snaps>>
    BY <1>3 DEF WriteGrant, Grant
  <2>2. GrantNeedsYes'
    BY <1>1, <1>3, <2>1 DEF GrantNeedsYes, Standing, SaidYes
  <2> QED
    BY <1>1, <1>2, <1>3, <2>1, <2>2 DEF Standing, Kinds
<1>4. CASE kind = "agent"
  <2>1. agents' = [agents EXCEPT ![w] = "live"] /\ UNCHANGED <<grants, snaps>>
    BY <1>4 DEF WriteGrant
  <2>2. GrantNeedsYes'
    BY <1>1, <1>4, <2>1 DEF GrantNeedsYes, Standing, SaidYes
  <2> QED
    BY <1>1, <1>2, <1>4, <2>1, <2>2 DEF Standing, Kinds
<1>5. CASE kind = "snapshot"
  <2>1. snaps' = snaps \cup {w} /\ UNCHANGED <<grants, agents>>
    BY <1>5 DEF WriteGrant
  <2>2. GrantNeedsYes'
    BY <1>1, <1>5, <2>1 DEF GrantNeedsYes, Standing, SaidYes
  <2> QED
    BY <1>1, <1>2, <1>5, <2>1, <2>2 DEF Standing, Kinds
<1> QED
  BY <1>3, <1>4, <1>5 DEF Kinds

\* Callers that do not move while prompts stay what they are.
LEMMA CallersRest ==
  ASSUME ConsentInv, UNCHANGED <<tool, call>>, YesStays, PromptsStay
  PROVE  \A d \in Callers : ToolFits(d)' /\ AsksItsOwn(d)'
<1> SUFFICES ASSUME NEW d \in Callers PROVE ToolFits(d)' /\ AsksItsOwn(d)'
  OBVIOUS
<1>1. AsksItsOwn(d) /\ PointersInUse
  BY DEF ConsentInv, IInv
<1>2. tool[d].pc = "asked" => call[d].p \in PromptIds /\ ~Garbage(call[d].p)
  BY <1>1 DEF AsksItsOwn, PointersInUse, Garbage
<1>3. tool[d].pc = "asked" => prompt'[call[d].p].req = prompt[call[d].p].req /\ prompt'[call[d].p].state # "unused"
  BY <1>1, <1>2 DEF PromptsStay, AsksItsOwn
<1> QED
  BY <1>3, ToolRests

\* Grants that come and go while nobody asks.
LEMMA GrantsMove ==
  ASSUME ConsentInv, UNCHANGED vars, UNCHANGED tool, ConsentTypeOK', YesStays, GrantNeedsYes',
         \A w \in Workspaces, kind \in {"command", "agent", "snapshot"} : Owed(w, kind)'
  PROVE  ConsentInv'
<1>1. UNCHANGED <<mode, pending, decided, prompt, call, surf>>
  BY DEF vars
<1>2. IInv'
  BY <1>1, QuietIInv DEF ConsentInv, IInv, TypeOK
<1>3. PromptsStay
  BY <1>1 DEF PromptsStay
<1>4. ASSUME NEW p \in PromptIds PROVE PromptFits(p)'
  <2>1. PromptFits(p) /\ prompt[p].req.ws \in Workspaces /\ prompt[p].req.kind \in Kinds
    BY RequestFacts DEF ConsentInv, IInv, TypeOK, Prompt
  <2> QED
    BY <1>1, <2>1 DEF PromptFits, YesStays
<1> QED
  BY <1>1, <1>2, <1>3, <1>4, CallersRest DEF ConsentInv

\* The tool writes its grant down.
LEMMA ToolGrantsFits ==
  ASSUME ConsentInv, NEW c \in Callers, ToolGrants(c)
  PROVE  ConsentInv'
<1>1. PICK t \in Tool : t = tool[c] /\ t.pc = "granting" /\ ToolFits(c) /\ t.job \in Jobs
  BY DEF ConsentInv, ConsentTypeOK, ToolGrants, Tool
<1>2. UNCHANGED vars /\ UNCHANGED <<offered, rung, yes>> /\ tool \in [Callers -> Tool] /\ UNCHANGED <<mode, pending, decided, prompt, call, surf>>
  BY DEF ToolGrants, ConsentInv, ConsentTypeOK, vars
<1>3. CASE ToolEnds(c) /\ UNCHANGED <<grants, agents, snaps>>
  <2>1. tool' = [tool EXCEPT ![c] = IdleTool]
    BY <1>3 DEF ToolEnds
  <2>2. ToolFits(c)'
    BY <1>2, <2>1, IdleToolFact DEF ToolFits
  <2> QED
    BY <1>2, <1>3, <2>1, <2>2, IdleToolFact, ToolAlone
<1>4. CASE WriteGrant(t.job.kind, t.job.ws) /\ ToolAt(c, "ran")
  <2>1. t.job.kind \in Kinds /\ t.job.ws \in Workspaces /\ SaidYes(t.job.ws, t.job.kind)
    BY <1>1, JobFacts DEF ToolFits
  <2>2. /\ GrantNeedsYes' /\ YesStays
        /\ \A v \in Workspaces, k \in Kinds : Standing(v, k) => Standing(v, k)'
        /\ grants' \in [Workspaces -> Rungs \cup {"none"}] /\ agents' \in [Workspaces -> {"none", "live", "expired"}]
        /\ snaps' \in SUBSET Workspaces
    BY <1>2, <1>4, <2>1, GrantWritten
  <2>3. PICK u : u = [t EXCEPT !.pc = "ran"]
    OBVIOUS
  <2>4. u \in Tool /\ u.pc = "ran" /\ u.job = t.job
    BY <2>3 DEF Tool
  <2>5. tool' = [tool EXCEPT ![c] = u] /\ tool'[c] = u /\ \A d \in Callers \ {c} : tool'[d] = tool[d]
    BY <1>1, <1>2, <1>4, <2>3 DEF ToolAt
  <2>6. IInv' /\ TypeOK'
    BY <1>2, QuietIInv DEF ConsentInv, IInv, TypeOK
  <2>7. ConsentTypeOK'
    BY <1>2, <2>2, <2>4, <2>5, <2>6 DEF ConsentInv, ConsentTypeOK
  <2>8. ASSUME NEW d \in Callers PROVE ToolFits(d)' /\ AsksItsOwn(d)'
    <3>1. CASE d = c
      BY <1>1, <2>4, <2>5, <3>1 DEF ToolFits, AsksItsOwn
    <3>2. CASE d # c
      <4>1. AsksItsOwn(d)
        BY DEF ConsentInv
      <4> QED
        BY <1>2, <2>2, <2>5, <3>2, <4>1, ToolRests DEF AsksItsOwn
    <3> QED
      BY <3>1, <3>2
  <2>9. \A p \in PromptIds : PromptFits(p)'
    BY <1>2 DEF ConsentInv, PromptFits
  <2>10. ASSUME NEW w \in Workspaces, NEW kind \in {"command", "agent", "snapshot"} PROVE Owed(w, kind)'
    <3>1. Owed(w, kind) /\ (Standing(w, kind) => Standing(w, kind)')
      BY <2>2 DEF ConsentInv, Kinds
    <3>2. \A s \in Surfaces : Owes(s, w, kind) => Owes(s, w, kind)'
      BY <1>2 DEF Owes
    <3> QED
      BY <1>2, <3>1, <3>2, StillOwed
  <2> QED
    BY <2>2, <2>6, <2>7, <2>8, <2>9, <2>10 DEF ConsentInv
<1> QED
  BY <1>1, <1>3, <1>4 DEF ToolGrants

\* A surface hears an answer.
LEMMA SurfaceAnswersFits ==
  ASSUME ConsentInv, NEW s \in Surfaces, SurfaceAnswers(s)
  PROVE  ConsentInv'
<1>1. PICK p \in PromptIds, a \in Answers : p = surf[s].p /\ a = surf[s].answer /\ surf[s].pc = "looked"
  BY DEF ConsentInv, IInv, TypeOK, PointersInUse, SurfaceAnswers, ResolveWins, Surf
<1>2. PICK r \in Requests : r = prompt[p].req
  BY DEF ConsentInv, IInv, TypeOK, Prompt
<1>3. r.ws \in Workspaces /\ r.kind \in Kinds /\ r.grant \in BOOLEAN
  BY RequestFacts
<1>4. /\ prompt' = [prompt EXCEPT ![p].state = a, ![p].fresh = TRUE] /\ surf' = [surf EXCEPT ![s].pc = "resolved"]
      /\ UNCHANGED <<mode, pending, decided, call, offered, rung, grants, agents, snaps, tool>>
      /\ yes' = IF r.grant /\ a = "approved" THEN [yes EXCEPT ![<<r.ws, r.kind>>] = "given"] ELSE yes
  BY <1>1, <1>2 DEF SurfaceAnswers, ResolveWins
<1>5. IInv' /\ prompt \in [PromptIds -> Prompt] /\ surf \in [Surfaces -> Surf] /\ yes \in [Workspaces \X Kinds -> {"never", "given", "revoked"}]
  BY ResolveWinsIInv DEF ConsentInv, SurfaceAnswers, ConsentTypeOK, TypeOK
<1>6. YesStays /\ yes' \in [Workspaces \X Kinds -> {"never", "given", "revoked"}]
  BY <1>3, <1>4, <1>5 DEF YesStays
<1>7. /\ \A q \in PromptIds : prompt'[q].req = prompt[q].req
      /\ prompt'[p].state = a /\ \A q \in PromptIds \ {p} : prompt'[q] = prompt[q]
      /\ surf'[s].pc = "resolved" /\ surf'[s].p = p /\ surf'[s].answer = a /\ \A t \in Surfaces \ {s} : surf'[t] = surf[t]
  BY <1>1, <1>4, <1>5 DEF Prompt, Surf
<1>8. ConsentTypeOK'
  BY <1>4, <1>5, <1>6 DEF ConsentInv, ConsentTypeOK, IInv
<1>9. PromptsStay
  BY <1>7 DEF PromptsStay, Answers
<1>10. ASSUME NEW q \in PromptIds PROVE PromptFits(q)'
  <2>1. PromptFits(q) /\ prompt[q].req.ws \in Workspaces /\ prompt[q].req.kind \in Kinds
    BY RequestFacts DEF ConsentInv, IInv, TypeOK, Prompt
  <2>2. CASE q # p
    BY <1>6, <1>7, <2>1, <2>2 DEF PromptFits, YesStays
  <2>3. CASE q = p
    <3>1. prompt[p].state # "unused"
      BY <1>1 DEF ConsentInv, IInv, PointersInUse
    <3>2. a = "approved" /\ r.grant => yes'[<<r.ws, r.kind>>] = "given"
      BY <1>3, <1>4, <1>5
    <3> QED
      BY <1>2, <1>7, <2>1, <2>3, <3>1, <3>2 DEF PromptFits
  <2> QED
    BY <2>2, <2>3
<1>11. GrantNeedsYes'
  <2>1. \A w \in Workspaces, kind \in Kinds : Standing(w, kind)' = Standing(w, kind)
    BY <1>4 DEF Standing
  <2> QED
    BY <1>6, <2>1 DEF ConsentInv, GrantNeedsYes, YesStays, Kinds
<1>12. ASSUME NEW w \in Workspaces, NEW kind \in {"command", "agent", "snapshot"} PROVE Owed(w, kind)'
  <2>1. Owed(w, kind) /\ (Standing(w, kind) => Standing(w, kind)')
    BY <1>4 DEF ConsentInv, Standing
  <2>2. ASSUME NEW t \in Surfaces, Owes(t, w, kind) PROVE Owes(t, w, kind)'
    <3>1. t # s /\ surf[t].p \in PromptIds
      BY <1>1, <2>2 DEF Owes, ConsentInv, IInv, PointersInUse
    <3> QED
      BY <1>7, <2>2, <3>1 DEF Owes
  <2>3. CASE yes'[<<w, kind>>] = yes[<<w, kind>>]
    BY <2>1, <2>2, <2>3, StillOwed
  <2>4. CASE yes'[<<w, kind>>] # yes[<<w, kind>>]
    <3>1. r.grant /\ a = "approved" /\ w = r.ws /\ kind = r.kind
      BY <1>3, <1>4, <1>5, <2>4 DEF Kinds
    <3>2. Owes(s, w, kind)'
      BY <1>2, <1>7, <3>1 DEF Owes
    <3> QED
      BY <3>2 DEF Owed
  <2> QED
    BY <2>3, <2>4
<1> QED
  BY <1>4, <1>5, <1>6, <1>8, <1>9, <1>10, <1>11, <1>12, CallersRest DEF ConsentInv

\* A surface that is not on its way with an answer moves, or one that is goes on.
LEMMA SurfaceMovesFits ==
  ASSUME ConsentInv, NEW s \in Surfaces, SurfaceMoves(s)
  PROVE  ConsentInv'
<1>1. UNCHANGED <<mode, prompt, call, offered, rung, grants, agents, snaps, tool, yes>>
  BY DEF SurfaceMoves, consentVars, ResolveLookup, ResolveLoses, ResolvePublish
<1>2. IInv' /\ surf \in [Surfaces -> Surf]
  BY LookupIInv, ResolveLosesIInv, PublishIInv DEF ConsentInv, SurfaceMoves, ConsentTypeOK, TypeOK
<1>3. ConsentTypeOK'
  BY <1>1, <1>2 DEF ConsentInv, ConsentTypeOK, IInv
<1>4. GrantNeedsYes' /\ YesStays /\ \A w \in Workspaces, kind \in Kinds : Standing(w, kind)' = Standing(w, kind)
  BY <1>1, StandingRests
<1>5. PromptsStay /\ \A p \in PromptIds : PromptFits(p)'
  BY <1>1 DEF PromptsStay, PromptFits, ConsentInv
<1>6. \A t \in Surfaces : surf[t].pc \in {"resolved", "published"} =>
        surf'[t].pc \in {"resolved", "published"} /\ surf'[t].p = surf[t].p /\ surf'[t].answer = surf[t].answer
  BY <1>2 DEF SurfaceMoves, ResolveLookup, ResolveLoses, ResolvePublish, SurfaceDone, Surf
<1>7. ASSUME NEW w \in Workspaces, NEW kind \in {"command", "agent", "snapshot"} PROVE Owed(w, kind)'
  <2>1. Owed(w, kind) /\ Standing(w, kind)' = Standing(w, kind)
    BY <1>4 DEF ConsentInv, Kinds
  <2>2. \A t \in Surfaces : Owes(t, w, kind) => Owes(t, w, kind)'
    BY <1>1, <1>6 DEF Owes
  <2> QED
    BY <1>1, <2>1, <2>2, StillOwed
<1> QED
  BY <1>1, <1>2, <1>3, <1>4, <1>5, <1>7, CallersRest DEF ConsentInv

\* The hook writes down what its surface heard.
LEMMA GrantRecorderFits ==
  ASSUME ConsentInv, NEW s \in Surfaces, GrantRecorder(s)
  PROVE  ConsentInv'
<1>1. PICK p \in PromptIds, a \in Answers : /\ p = surf[s].p /\ a = surf[s].answer /\ surf[s].pc = "published"
                                            /\ prompt[p].state = a
  BY DEF ConsentInv, IInv, TypeOK, PointersInUse, OneSurfaceAnswers, GrantRecorder, OnDecision, Surf
<1>2. PICK r \in Requests : r = prompt[p].req /\ PromptFits(p)
  BY DEF ConsentInv, IInv, TypeOK, Prompt
<1>3. r.ws \in Workspaces /\ r.kind \in Kinds /\ r.grant \in BOOLEAN
  BY RequestFacts
<1>4. /\ surf' = [surf EXCEPT ![s] = IdleSurf] /\ UNCHANGED <<mode, pending, decided, prompt, call, offered, rung, tool, yes>>
      /\ IF a = "approved" /\ r.grant /\ r.kind # "proxy" THEN WriteGrant(r.kind, r.ws) ELSE UNCHANGED <<grants, agents, snaps>>
  BY <1>1, <1>2 DEF GrantRecorder, OnDecision, SurfaceDone
<1>5. IInv' /\ surf \in [Surfaces -> Surf]
  BY ResolveLosesIInv DEF ConsentInv, GrantRecorder, ConsentTypeOK, TypeOK
<1>6. /\ GrantNeedsYes' /\ YesStays
      /\ \A v \in Workspaces, k \in Kinds : Standing(v, k) => Standing(v, k)'
      /\ grants' \in [Workspaces -> Rungs \cup {"none"}] /\ agents' \in [Workspaces -> {"none", "live", "expired"}]
      /\ snaps' \in SUBSET Workspaces
      /\ a = "approved" /\ r.grant /\ r.kind # "proxy" => Standing(r.ws, r.kind)'
  <2>1. CASE a = "approved" /\ r.grant /\ r.kind # "proxy"
    <3>1. SaidYes(r.ws, r.kind)
      BY <1>1, <1>2, <2>1 DEF PromptFits, SaidYes
    <3> QED
      BY <1>3, <1>4, <2>1, <3>1, GrantWritten
  <2>2. CASE ~(a = "approved" /\ r.grant /\ r.kind # "proxy")
    <3>1. UNCHANGED <<grants, agents, snaps, yes>>
      BY <1>4, <2>2
    <3>2. GrantNeedsYes' /\ YesStays /\ \A w \in Workspaces, kind \in Kinds : Standing(w, kind)' = Standing(w, kind)
      BY <3>1, StandingRests
    <3> QED
      BY <2>2, <3>1, <3>2 DEF ConsentInv, ConsentTypeOK
  <2> QED
    BY <2>1, <2>2
<1>7. ConsentTypeOK'
  BY <1>4, <1>5, <1>6 DEF ConsentInv, ConsentTypeOK, IInv
<1>8. PromptsStay /\ \A q \in PromptIds : PromptFits(q)'
  BY <1>4 DEF PromptsStay, PromptFits, ConsentInv
<1>9. ASSUME NEW w \in Workspaces, NEW kind \in {"command", "agent", "snapshot"} PROVE Owed(w, kind)'
  <2>1. Owed(w, kind) /\ (Standing(w, kind) => Standing(w, kind)')
    BY <1>6 DEF ConsentInv, Kinds
  <2>2. ASSUME NEW t \in Surfaces, Owes(t, w, kind) PROVE Owes(t, w, kind)' \/ Standing(w, kind)'
    <3>1. CASE t = s
      BY <1>1, <1>2, <1>6, <2>2, <3>1 DEF Owes
    <3>2. CASE t # s
      BY <1>4, <1>5, <2>2, <3>2 DEF Owes
    <3> QED
      BY <3>1, <3>2
  <2> QED
    BY <1>4, <2>1, <2>2, StillOwed
<1> QED
  BY <1>4, <1>5, <1>6, <1>7, <1>8, <1>9, CallersRest DEF ConsentInv

\* The desktop withdraws, a delegation runs out, a rung is chosen.
LEMMA DesktopFits ==
  ASSUME ConsentInv,
         \/ \E w \in Workspaces : Revoke(w) \/ RevokeDelegation(w) \/ RevokeSnapshot(w) \/ DelegationExpires(w)
         \/ \E r \in Rungs, confirm \in BOOLEAN : SetRung(r, confirm)
  PROVE  ConsentInv'
<1>1. /\ UNCHANGED vars /\ UNCHANGED <<tool, offered>> /\ UNCHANGED <<mode, pending, decided, prompt, call, surf>>
      /\ grants \in [Workspaces -> Rungs \cup {"none"}] /\ agents \in [Workspaces -> {"none", "live", "expired"}]
      /\ snaps \in SUBSET Workspaces /\ yes \in [Workspaces \X Kinds -> {"never", "given", "revoked"}] /\ rung \in Rungs
      /\ GrantNeedsYes
  BY DEF Revoke, RevokeDelegation, RevokeSnapshot, DelegationExpires, SetRung, vars, ConsentInv, ConsentTypeOK
<1>2. TypeOK'
  BY <1>1 DEF ConsentInv, ConsentTypeOK, TypeOK
<1>3. \A w \in Workspaces, kind \in {"command", "agent", "snapshot"}, s \in Surfaces : Owes(s, w, kind) => Owes(s, w, kind)'
  BY <1>1 DEF Owes
<1>4. ASSUME NEW w \in Workspaces, NEW kinds \in SUBSET Kinds, Withdrawn(w, kinds),
             \A v \in Workspaces, k \in Kinds : v # w \/ k \notin kinds => Standing(v, k)' = Standing(v, k),
             \A k \in kinds : ~Standing(w, k)',
             rung' = rung, grants' \in [Workspaces -> Rungs \cup {"none"}], agents' \in [Workspaces -> {"none", "live", "expired"}],
             snaps' \in SUBSET Workspaces
      PROVE  ConsentInv'
  <2>1. /\ yes' \in [Workspaces \X Kinds -> {"never", "given", "revoked"}] /\ YesStays
        /\ \A v \in Workspaces, k \in Kinds : yes'[<<v, k>>] = "given" => yes[<<v, k>>] = "given" /\ (v # w \/ k \notin kinds)
    <3>1. yes' = [g \in Workspaces \X Kinds |-> IF g[1] = w /\ g[2] \in kinds /\ yes[g] = "given" THEN "revoked" ELSE yes[g]]
      BY <1>1, <1>4 DEF Withdrawn
    <3> QED
      BY <1>1, <3>1 DEF YesStays
  <2>2. \A v \in Workspaces, k \in Kinds : Standing(v, k)' => Standing(v, k)
    BY <1>4
  <2>3. GrantNeedsYes'
    <3>1. \A v \in Workspaces, k \in Kinds : yes[<<v, k>>] # "never" => yes'[<<v, k>>] # "never"
      BY <2>1 DEF YesStays
    <3>2. "command" \in Kinds /\ "proxy" \in Kinds /\ "agent" \in Kinds /\ "snapshot" \in Kinds
      BY DEF Kinds
    <3>3. ASSUME NEW v \in Workspaces, Standing(v, "command")'
          PROVE  yes'[<<v, "command">>] # "never" \/ yes'[<<v, "proxy">>] # "never"
      BY <1>1, <2>2, <3>1, <3>2, <3>3 DEF GrantNeedsYes
    <3>4. ASSUME NEW v \in Workspaces, NEW k \in {"agent", "snapshot"}, Standing(v, k)' PROVE yes'[<<v, k>>] # "never"
      BY <1>1, <2>2, <3>1, <3>2, <3>4 DEF GrantNeedsYes
    <3> QED
      BY <3>3, <3>4 DEF GrantNeedsYes
  <2>4. ConsentTypeOK'
    BY <1>1, <1>2, <1>4, <2>1 DEF ConsentTypeOK, ConsentInv
  <2>5. ASSUME NEW v \in Workspaces, NEW k \in {"command", "agent", "snapshot"} PROVE Owed(v, k)'
    <3>1. CASE yes'[<<v, k>>] = "given"
      <4>1. Standing(v, k)' = Standing(v, k) /\ Owed(v, k) /\ yes[<<v, k>>] = "given"
        BY <1>4, <2>1, <3>1 DEF ConsentInv, Kinds
      <4> QED
        BY <1>3, <4>1, StillOwed
    <3>2. CASE yes'[<<v, k>>] # "given"
      BY <3>2 DEF Owed
    <3> QED
      BY <3>1, <3>2
  <2> QED
    BY <1>1, <2>1, <2>3, <2>4, <2>5, GrantsMove
<1>5. ASSUME NEW w \in Workspaces, Revoke(w) PROVE ConsentInv'
  <2>1. PICK kinds \in SUBSET Kinds : kinds = {"command", "proxy"}
    BY DEF Kinds
  <2>2. Withdrawn(w, kinds) /\ grants' = [grants EXCEPT ![w] = "none"] /\ UNCHANGED <<rung, agents, snaps>>
    BY <1>5, <2>1 DEF Revoke
  <2>3. \A v \in Workspaces, k \in Kinds : v # w \/ k \notin kinds => Standing(v, k)' = Standing(v, k)
    BY <1>1, <2>1, <2>2 DEF Standing, Kinds
  <2>4. \A k \in kinds : ~Standing(w, k)'
    BY <1>1, <2>1, <2>2 DEF Standing
  <2> QED
    BY <1>1, <1>4, <2>2, <2>3, <2>4
<1>6. ASSUME NEW w \in Workspaces, RevokeDelegation(w) PROVE ConsentInv'
  <2>1. PICK kinds \in SUBSET Kinds : kinds = {"agent"}
    BY DEF Kinds
  <2>2. Withdrawn(w, kinds) /\ agents' = [agents EXCEPT ![w] = "none"] /\ UNCHANGED <<rung, grants, snaps>>
    BY <1>6, <2>1 DEF RevokeDelegation
  <2>3. \A v \in Workspaces, k \in Kinds : v # w \/ k \notin kinds => Standing(v, k)' = Standing(v, k)
    BY <1>1, <2>1, <2>2 DEF Standing, Kinds
  <2>4. \A k \in kinds : ~Standing(w, k)'
    BY <1>1, <2>1, <2>2 DEF Standing
  <2> QED
    BY <1>1, <1>4, <2>2, <2>3, <2>4
<1>7. ASSUME NEW w \in Workspaces, RevokeSnapshot(w) PROVE ConsentInv'
  <2>1. PICK kinds \in SUBSET Kinds : kinds = {"snapshot"}
    BY DEF Kinds
  <2>2. Withdrawn(w, kinds) /\ snaps' = snaps \ {w} /\ UNCHANGED <<rung, grants, agents>>
    BY <1>7, <2>1 DEF RevokeSnapshot
  <2>3. \A v \in Workspaces, k \in Kinds : v # w \/ k \notin kinds => Standing(v, k)' = Standing(v, k)
    BY <1>1, <2>1, <2>2 DEF Standing, Kinds
  <2>4. \A k \in kinds : ~Standing(w, k)'
    BY <1>1, <2>1, <2>2 DEF Standing
  <2> QED
    BY <1>1, <1>4, <2>2, <2>3, <2>4
<1>8. ASSUME UNCHANGED <<grants, snaps, yes>>, rung' \in Rungs, agents' \in [Workspaces -> {"none", "live", "expired"}],
             \A w \in Workspaces : agents'[w] # "none" <=> agents[w] # "none"
      PROVE  ConsentInv'
  <2>1. \A v \in Workspaces, k \in Kinds : Standing(v, k)' = Standing(v, k)
    BY <1>8 DEF Standing, Kinds
  <2>2. YesStays
    BY <1>8 DEF YesStays
  <2>3. GrantNeedsYes'
    BY <1>1, <1>8, <2>1 DEF GrantNeedsYes, Kinds
  <2>4. ConsentTypeOK'
    BY <1>1, <1>2, <1>8 DEF ConsentTypeOK, ConsentInv
  <2>5. ASSUME NEW v \in Workspaces, NEW k \in {"command", "agent", "snapshot"} PROVE Owed(v, k)'
    BY <1>3, <1>8, <2>1, StillOwed DEF ConsentInv, Kinds
  <2> QED
    BY <1>1, <2>2, <2>3, <2>4, <2>5, GrantsMove
<1>9. ASSUME NEW w \in Workspaces, DelegationExpires(w) PROVE ConsentInv'
  BY <1>1, <1>8, <1>9 DEF DelegationExpires
<1>10. ASSUME NEW r \in Rungs, NEW confirm \in BOOLEAN, SetRung(r, confirm) PROVE ConsentInv'
  BY <1>1, <1>8, <1>10 DEF SetRung
<1> QED
  BY <1>5, <1>6, <1>7, <1>9, <1>10

\* decisionTTL passes.
LEMMA ExpireFits ==
  ASSUME ConsentInv, NEW p \in PromptIds, Expire(p), UNCHANGED consentVars
  PROVE  ConsentInv'
<1>1. UNCHANGED <<mode, pending, decided, call, surf, offered, rung, grants, agents, snaps, tool, yes>>
  BY DEF Expire, consentVars
<1>2. IInv'
  BY ExpireIInv DEF ConsentInv
<1>3. ConsentTypeOK'
  BY <1>1, <1>2 DEF ConsentInv, ConsentTypeOK, IInv
<1>4. GrantNeedsYes' /\ YesStays /\ \A w \in Workspaces, kind \in Kinds : Standing(w, kind)' = Standing(w, kind)
  BY <1>1, StandingRests
<1>5. \A q \in PromptIds : prompt'[q].req = prompt[q].req /\ prompt'[q].state = prompt[q].state
  BY DEF Expire, ConsentInv, IInv, TypeOK, Prompt
<1>6. PromptsStay /\ \A q \in PromptIds : PromptFits(q)'
  BY <1>1, <1>5 DEF PromptsStay, PromptFits, ConsentInv
<1>7. ASSUME NEW w \in Workspaces, NEW kind \in {"command", "agent", "snapshot"} PROVE Owed(w, kind)'
  <2>1. Owed(w, kind) /\ Standing(w, kind)' = Standing(w, kind)
    BY <1>4 DEF ConsentInv, Kinds
  <2>2. \A t \in Surfaces : Owes(t, w, kind) => Owes(t, w, kind)'
    BY <1>1, <1>5 DEF Owes, ConsentInv, IInv, PointersInUse
  <2> QED
    BY <1>1, <2>1, <2>2, StillOwed
<1> QED
  BY <1>1, <1>2, <1>3, <1>4, <1>6, <1>7, CallersRest DEF ConsentInv

\* A service with no prompt, no call and no surface at work, after a start or a restart.
LEMMA FreshStart ==
  ASSUME mode \in Modes, prompt = [p \in PromptIds |-> UnusedPrompt], pending = [k \in Keys |-> None],
         decided = [k \in Keys |-> None], call = [c \in Callers |-> IdleCall], surf = [s \in Surfaces |-> IdleSurf],
         tool = [c \in Callers |-> IdleTool]
  PROVE  /\ IInv /\ (\A c \in Callers : ToolFits(c) /\ AsksItsOwn(c)) /\ (\A p \in PromptIds : PromptFits(p))
         /\ tool \in [Callers -> Tool]
<1>1. IInv
  BY InitIInv DEF Init
<1>2. \A c \in Callers : ToolFits(c) /\ AsksItsOwn(c)
  BY IdleToolFact DEF ToolFits, AsksItsOwn
<1>3. \A p \in PromptIds : PromptFits(p)
  BY DEF PromptFits, UnusedPrompt
<1> QED
  BY <1>1, <1>2, <1>3, IdleToolFact

\* The process is killed and started again.
LEMMA RestartFits ==
  ASSUME ConsentInv, Restart
  PROVE  ConsentInv'
<1>1. /\ mode' \in Modes /\ prompt' = [p \in PromptIds |-> UnusedPrompt] /\ pending' = [k \in Keys |-> None]
      /\ decided' = [k \in Keys |-> None] /\ call' = [c \in Callers |-> IdleCall] /\ surf' = [s \in Surfaces |-> IdleSurf]
      /\ tool' = [c \in Callers |-> IdleTool]
  BY DEF Restart, ConsentInv, IInv, TypeOK
<1>2. /\ IInv' /\ (\A c \in Callers : ToolFits(c)' /\ AsksItsOwn(c)') /\ (\A p \in PromptIds : PromptFits(p)')
      /\ tool' \in [Callers -> Tool]
  <2>1. IInv'
    BY <1>1, AnyRequestFact, PromptIdFacts
       DEF IInv, TypeOK, UnusedPrompt, IdleCall, IdleSurf, Prompt, Call, Surf, PromptStates, Answers, PointersInUse,
           KeptAnswersAreAnswers, OneSurfaceAnswers, AnsweredLeavesTheList
  <2>2. \A c \in Callers : ToolFits(c)' /\ AsksItsOwn(c)'
    BY <1>1, IdleToolFact DEF ToolFits, AsksItsOwn
  <2>3. \A p \in PromptIds : PromptFits(p)'
    BY <1>1 DEF PromptFits, UnusedPrompt
  <2> QED
    BY <1>1, <2>1, <2>2, <2>3, IdleToolFact
<1>3. /\ UNCHANGED <<offered, grants, snaps>> /\ rung' \in Rungs /\ agents' = [w \in Workspaces |-> "none"]
      /\ yes \in [Workspaces \X Kinds -> {"never", "given", "revoked"}]
      /\ yes' = [g \in Workspaces \X Kinds |-> IF yes[g] = "given" /\ (g[2] = "agent" \/ ~Standing(g[1], g[2]))
                                               THEN "never" ELSE yes[g]]
  BY DEF Restart, ConsentInv, ConsentTypeOK
<1>4. \A v \in Workspaces, k \in Kinds :
        yes'[<<v, k>>] = IF yes[<<v, k>>] = "given" /\ (k = "agent" \/ ~Standing(v, k)) THEN "never" ELSE yes[<<v, k>>]
  BY <1>3
<1>5. ConsentTypeOK'
  <2>1. yes' \in [Workspaces \X Kinds -> {"never", "given", "revoked"}]
    BY <1>3
  <2> QED
    BY <1>2, <1>3, <2>1 DEF ConsentInv, ConsentTypeOK, IInv
<1>6. /\ \A v \in Workspaces, k \in Kinds \ {"agent"} : Standing(v, k)' = Standing(v, k)
      /\ \A v \in Workspaces : ~Standing(v, "agent")' /\ Standing(v, "proxy") = Standing(v, "command")
  BY <1>3 DEF Standing, Kinds
<1>7. GrantNeedsYes'
  <2> SUFFICES ASSUME NEW w \in Workspaces
               PROVE  /\ Standing(w, "command")' => yes'[<<w, "command">>] # "never" \/ yes'[<<w, "proxy">>] # "never"
                      /\ Standing(w, "agent")' => yes'[<<w, "agent">>] # "never"
                      /\ Standing(w, "snapshot")' => yes'[<<w, "snapshot">>] # "never"
    BY DEF GrantNeedsYes
  <2>1. /\ Standing(w, "command") => yes[<<w, "command">>] # "never" \/ yes[<<w, "proxy">>] # "never"
        /\ Standing(w, "snapshot") => yes[<<w, "snapshot">>] # "never"
    BY DEF ConsentInv, GrantNeedsYes
  <2> QED
    BY <1>4, <1>6, <2>1 DEF Kinds
<1>8. \A w \in Workspaces, kind \in {"command", "agent", "snapshot"} : Owed(w, kind)'
  BY <1>4, <1>6 DEF Owed, Kinds
<1> QED
  BY <1>2, <1>5, <1>7, <1>8 DEF ConsentInv

\* A Companion that has just been set up has no grant and owes none.
LEMMA ConsentStarts ==
  ASSUME ConsentInit
  PROVE  ConsentInv
<1>1. mode \in Modes /\ Init
  BY DEF ConsentInit, Modes
<1>2. /\ IInv /\ (\A c \in Callers : ToolFits(c) /\ AsksItsOwn(c)) /\ (\A p \in PromptIds : PromptFits(p))
      /\ tool \in [Callers -> Tool]
  BY <1>1, FreshStart DEF ConsentInit, Init
<1>3. ConsentTypeOK
  BY <1>2 DEF ConsentInit, ConsentTypeOK, IInv
<1>4. GrantNeedsYes /\ \A w \in Workspaces, kind \in {"command", "agent", "snapshot"} : Owed(w, kind)
  BY DEF ConsentInit, GrantNeedsYes, Standing, Owed, Kinds
<1> QED
  BY <1>2, <1>3, <1>4 DEF ConsentInv

\* Every step keeps the invariant.
LEMMA ConsentMoves ==
  ASSUME ConsentInv, [ConsentNext]_allVars
  PROVE  ConsentInv'
<1>1. CASE UNCHANGED allVars
  <2>1. UNCHANGED vars /\ UNCHANGED <<tool, offered, rung, grants, agents, snaps, yes>> /\ UNCHANGED <<mode, pending, decided, prompt, call, surf>>
    BY <1>1 DEF allVars, consentVars, vars
  <2>2. GrantNeedsYes' /\ YesStays /\ \A w \in Workspaces, kind \in Kinds : Standing(w, kind)' = Standing(w, kind)
    BY <2>1, StandingRests
  <2>3. ConsentTypeOK'
    BY <2>1 DEF ConsentInv, ConsentTypeOK, TypeOK
  <2>4. ASSUME NEW w \in Workspaces, NEW kind \in {"command", "agent", "snapshot"} PROVE Owed(w, kind)'
    <3>1. \A s \in Surfaces : Owes(s, w, kind) => Owes(s, w, kind)'
      BY <2>1 DEF Owes
    <3> QED
      BY <2>1, <2>2, <3>1, StillOwed DEF ConsentInv, Kinds
  <2> QED
    BY <2>1, <2>2, <2>3, <2>4, GrantsMove
<1>2. offered \subseteq Jobs
  BY JobsAssumption DEF ConsentInv, ConsentTypeOK
<1>3. ASSUME NEW c \in Callers, NEW j \in offered, NEW who \in Platforms, ToolCall(c, j, who) PROVE ConsentInv'
  BY <1>2, <1>3, ToolCallFits
<1>4. ASSUME NEW c \in Callers,
             GateLooksUp(c) \/ ToolAsks(c) \/ ToolHears(c) \/ ToolGivesUp(c) \/ ToolGrants(c) \/ ToolReturns(c)
      PROVE  ConsentInv'
  BY <1>4, ToolStepFits, ToolAsksFits, ToolHearsFits, ToolGrantsFits
<1>5. ASSUME NEW s \in Surfaces, SurfaceAnswers(s) \/ SurfaceMoves(s) \/ GrantRecorder(s) PROVE ConsentInv'
  BY <1>5, SurfaceAnswersFits, SurfaceMovesFits, GrantRecorderFits
<1>6. ASSUME NEW p \in PromptIds, Expire(p) /\ UNCHANGED consentVars PROVE ConsentInv'
  BY <1>6, ExpireFits
<1> QED
  BY <1>1, <1>3, <1>4, <1>5, <1>6, DesktopFits, RestartFits DEF ConsentNext

\* The inductive invariant holds in every state of the gate, the tools and the approval service together.
THEOREM ConsentHolds == ConsentSpec => []ConsentInv
<1>1. ConsentInit => ConsentInv
  BY ConsentStarts
<1>2. ConsentInv /\ [ConsentNext]_allVars => ConsentInv'
  BY ConsentMoves
<1> QED
  BY <1>1, <1>2, PTL DEF ConsentSpec

\* No standing grant of any kind exists in a workspace whose user never said yes to one, for any workspaces,
\* platforms, jobs, callers and surfaces (confirmCommand, confirmDelegation, confirmSnapshot, grantRecorder).
THEOREM NoGrantWithoutYes == ConsentSpec => []GrantNeedsYes
<1>1. ConsentInv => GrantNeedsYes
  BY DEF ConsentInv
<1> QED
  BY <1>1, ConsentHolds, PTL

\* What the rule table blocks never reaches the approver and never runs, on any rung, under any grant (Gate.Decide).
THEOREM BlockedStaysOut == ConsentSpec => []BlockedNeverGetsThrough
<1>1. ConsentInv => BlockedNeverGetsThrough
  BY DEF ConsentInv, ToolFits, BlockedNeverGetsThrough
<1> QED
  BY <1>1, ConsentHolds, PTL

\* A yes that carries a grant is written down even when the call that asked is gone (grantRecorder).
THEOREM YesIsKept == ConsentSpec => []YesIsRemembered
<1>1. ConsentInv => YesIsRemembered
  BY DEF ConsentInv, Owed, Owes, YesIsRemembered, Remembered
<1> QED
  BY <1>1, ConsentHolds, PTL

\* A tool call starts to run an always-asked job only on an answer to its own question.
LEMMA RunsOnItsOwnYes ==
  ASSUME ConsentInv, ConsentNext, NEW c \in Callers, tool[c].pc # "ran", tool'[c].pc = "ran", AlwaysAsked(tool'[c].job)
  PROVE  /\ call[c].pc = "waiting" /\ prompt[call[c].p].state = "approved"
         /\ KeyOf(call[c].p) = RequestFor(tool'[c].job, tool'[c].who, FALSE).key
<1>1. tool \in [Callers -> Tool] /\ ToolFits(c) /\ AsksItsOwn(c) /\ offered \subseteq Jobs
  BY JobsAssumption DEF ConsentInv, ConsentTypeOK
<1>2. tool'[c] # tool[c] /\ tool'[c] # IdleTool
  BY IdleToolFact
<1>3. ASSUME NEW d \in Callers, NEW t, tool' = [tool EXCEPT ![d] = t] PROVE d = c /\ tool'[c] = t
  BY <1>1, <1>2, <1>3
<1>4. ASSUME NEW d \in Callers, NEW pc, ToolAt(d, pc)
      PROVE  d = c /\ tool'[c].pc = pc /\ tool'[c].job = tool[c].job /\ tool'[c].who = tool[c].who /\ tool'[c].grant = tool[c].grant
  <2>1. PICK t : t = [tool[d] EXCEPT !.pc = pc] /\ tool' = [tool EXCEPT ![d] = t]
    BY <1>4 DEF ToolAt
  <2>2. d = c /\ tool'[c] = t
    BY <1>3, <2>1
  <2>3. tool[c] \in Tool
    BY <1>1
  <2> QED
    BY <2>1, <2>2, <2>3 DEF Tool
<1>5. ASSUME NEW d \in Callers, ToolEnds(d) PROVE FALSE
  <2>1. PICK t : t = IdleTool /\ tool' = [tool EXCEPT ![d] = t]
    BY <1>5 DEF ToolEnds
  <2> QED
    BY <1>2, <1>3, <2>1
<1>6. ASSUME NEW d \in Callers, NEW pc, NEW j, NEW who, NEW g, SetTool(d, pc, j, who, g)
      PROVE  d = c /\ pc = "ran" /\ AlwaysAsked(j)
  <2>1. PICK t : t = [pc |-> pc, job |-> j, who |-> who, grant |-> g] /\ tool' = [tool EXCEPT ![d] = t]
    BY <1>6 DEF SetTool
  <2> QED
    BY <1>3, <2>1
<1>7. ASSUME NEW d \in Callers, NEW j, NEW who, NEW g,
              SetTool(d, "ask", j, who, g) \/ SetTool(d, "lookup", j, who, g)
       PROVE  FALSE
  <2>1. ~SetTool(d, "ask", j, who, g)
    BY <1>6
  <2>2. ~SetTool(d, "lookup", j, who, g)
    BY <1>6
  <2> QED
    BY <1>7, <2>1, <2>2
<1>8. ASSUME NEW d \in Callers, NEW j \in offered, NEW who \in Platforms, ToolCall(d, j, who) PROVE FALSE
  <2>1. j.kind \in Kinds /\ j.verdict \in Verdicts /\ j.trust \in {"ask", "workspace"}
    BY <1>1, JobFacts
  <2>2. CASE GateDecides(d, j, who)
    <3>1. SetTool(d, "ran", j, who, FALSE) /\ AllowedOutright(VerdictOf(j)) /\ Gated(j)
      BY <1>5, <1>7, <2>2 DEF GateDecides
    <3>2. AlwaysAsked(j)
      BY <1>6, <3>1
    <3> QED
      BY <3>1, <3>2 DEF AllowedOutright, VerdictOf, Gated, AlwaysAsked
  <2>3. CASE ProxyAsks(d, j, who)
    BY <1>6, <2>3 DEF ProxyAsks
  <2>4. CASE DelegationDecides(d, j, who)
    BY <1>6, <2>4 DEF DelegationDecides, AlwaysAsked
  <2>5. CASE SnapshotDecides(d, j, who)
    BY <1>6, <2>5 DEF SnapshotDecides, AlwaysAsked
  <2> QED
    BY <1>8, <2>2, <2>3, <2>4, <2>5 DEF ToolCall
<1>9. ASSUME NEW d \in Callers, GateLooksUp(d) PROVE FALSE
  <2>1. ToolAt(d, "ran") /\ tool[d].pc = "lookup"
    BY <1>5, <1>7, <1>9 DEF GateLooksUp
  <2> QED
    BY <1>1, <1>4, <2>1 DEF ToolFits
<1>10. ASSUME NEW d \in Callers, ToolAsks(d) \/ ToolGivesUp(d) \/ ToolReturns(d) PROVE FALSE
  BY <1>4, <1>5, <1>10 DEF ToolAsks, ToolGivesUp, ToolReturns
<1>11. ASSUME NEW d \in Callers, ToolGrants(d) PROVE FALSE
  <2>1. ToolAt(d, "ran") /\ tool[d].pc = "granting"
    BY <1>5, <1>11 DEF ToolGrants
  <2> QED
    BY <1>1, <1>4, <2>1 DEF ToolFits
<1>12. ASSUME NEW d \in Callers, ToolHears(d)
       PROVE  /\ call[c].pc = "waiting" /\ prompt[call[c].p].state = "approved"
              /\ KeyOf(call[c].p) = RequestFor(tool'[c].job, tool'[c].who, FALSE).key
  <2>1. ToolAt(d, IF tool[d].grant THEN "granting" ELSE "ran") /\ tool[d].pc = "asked" /\ prompt[call[d].p].state # "denied"
    BY <1>5, <1>12 DEF ToolHears
  <2>2. d = c /\ ~tool[c].grant /\ tool'[c].job = tool[c].job /\ tool'[c].who = tool[c].who
    BY <1>4, <2>1
  <2>3. tool[c].grant = FALSE
    BY <1>1, <2>2 DEF Tool
  <2>4. prompt[call[c].p].state \in Answers
    BY <1>12, <2>2 DEF ToolHears, Collect, IsDecided
  <2> QED
    BY <1>1, <2>1, <2>2, <2>3, <2>4 DEF AsksItsOwn, Answers
<1>13. tool' # tool /\ tool' # [d \in Callers |-> IdleTool]
  BY <1>2
<1> QED
  BY <1>8, <1>9, <1>10, <1>11, <1>12, <1>13
     DEF ConsentNext, SurfaceAnswers, SurfaceMoves, GrantRecorder, Revoke, RevokeDelegation, RevokeSnapshot, DelegationExpires,
         SetRung, Restart, consentVars

\* Disclosure, and a provider at trust "ask", run only on a yes to a prompt about this very job from this very
\* platform, on every rung and under every grant (Gate.Decide, confirmProxy, commandKey).
THEOREM DisclosureIsAskedFor == ConsentSpec => DisclosureNeedsItsOwnYes
<1> DEFINE Own == \A c \in Callers :
             tool[c].pc # "ran" /\ tool'[c].pc = "ran" /\ AlwaysAsked(tool'[c].job) =>
               /\ call[c].pc = "waiting"
               /\ prompt[call[c].p].state = "approved"
               /\ KeyOf(call[c].p) = RequestFor(tool'[c].job, tool'[c].who, FALSE).key
<1>1. ConsentInv /\ [ConsentNext]_allVars => [Own]_allVars
  BY RunsOnItsOwnYes
<1>2. DisclosureNeedsItsOwnYes <=> [][Own]_allVars
  BY DEF DisclosureNeedsItsOwnYes
<1> HIDE DEF Own
<1> QED
  BY <1>1, <1>2, ConsentHolds, PTL DEF ConsentSpec
====
