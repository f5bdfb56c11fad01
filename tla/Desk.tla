-------------------------------- MODULE Desk --------------------------------
(***************************************************************************)
(* What the desktop does with change sets and route rules (ctlapi.go,      *)
(* ctlapi/screens.go, routerule/rule.go, app/rules.go): saves that the     *)
(* rule table routes and that may be retried, the rule table the user      *)
(* edits meanwhile, the "looks right" click and the rollback click.  The   *)
(* engine is taken at the level of its rows: what it does to the disk is   *)
(* Txn's subject.                                                          *)
(***************************************************************************)
EXTENDS Naturals, Sequences, FiniteSets

CONSTANTS
  Saves,       \* bound: calls of handleSave
  ChangeSets,  \* change set ids
  Orders,      \* the tables a user may send: sequences of [id, action, dest, hit], where hit
               \* says that source and patterns match the file that is saved
  NoPlace,     \* no destination
  Requested,   \* where the browser wanted the file
  Clicks,      \* bound: calls of handleAccept
  Undos,       \* bound: rollbacks asked for, on the desktop or by a platform
  Remote,      \* the ones a platform asked for
  NoRule

ASSUME DeskAssumption == Remote \subseteq Undos

VARIABLES
  rules,     \* the stored table: the rules in order, each with its uses
  page,      \* the table the Route rules screen shows
  save,      \* per call of handleSave
  row,       \* per change set: status, place, accepted_at set
  busy,      \* Engine.inflight: change sets and rollbacks being worked on
  accepting, \* per call of handleAccept: [pc, set, first]
  undo,      \* per rollback: handler, engine, claimed
  prompt     \* the prompt "rollback:<id>": "none", "pending", "yes"

deskVars == <<rules, page, save, row, busy, accepting, undo, prompt>>

\* Rule.Validate and SaveRules: a destination for a route, none for an ask, ids once.
Valid(o) ==
  /\ \A i \in DOMAIN o : o[i].action = (IF o[i].dest = NoPlace THEN "ask" ELSE "route")
  /\ \A i, j \in DOMAIN o : o[i].id = o[j].id => i = j

Has(t, id) == \E i \in DOMAIN t : t[i].id = id
UsesIn(t, id) == IF Has(t, id) THEN t[CHOOSE i \in DOMAIN t : t[i].id = id].uses ELSE 0

\* Order o with the counters its rules have in table t.
WithUses(o, t) ==
  [i \in DOMAIN o |-> [id |-> o[i].id, action |-> o[i].action, dest |-> o[i].dest, hit |-> o[i].hit,
                        uses |-> UsesIn(t, o[i].id)]]
Order(t) ==
  [i \in DOMAIN t |-> [id |-> t[i].id, action |-> t[i].action, dest |-> t[i].dest, hit |-> t[i].hit]]

NewSave == [pc |-> "new", set |-> CHOOSE g \in ChangeSets : TRUE, place |-> Requested,
            credit |-> NoRule, copy |-> <<>>]

DeskInit ==
  /\ \E o \in Orders : Valid(o) /\ rules = WithUses(o, <<>>) /\ page = rules
  /\ save = [v \in Saves |-> NewSave]
  /\ row = [g \in ChangeSets |-> [status |-> "none", place |-> Requested, accepted |-> FALSE]]
  /\ busy = [sets |-> {}, rollbacks |-> {}]
  /\ accepting = [c \in Clicks |-> [pc |-> "new", set |-> CHOOSE g \in ChangeSets : TRUE, first |-> FALSE]]
  /\ undo = [u \in Undos |-> [handler |-> "new", engine |-> "new", set |-> CHOOSE g \in ChangeSets : TRUE,
                               claimed |-> FALSE]]
  /\ prompt = [g \in ChangeSets |-> "none"]

-----------------------------------------------------------------------------
(* Route rules *)

\* Rule.Matches, as the table's author knows it for the file in question.
Matches(r) == r.hit

\* routerule.Apply: the first rule that matches wins; an ask rule leaves the place alone.
Routed(t) ==
  LET hits == {i \in DOMAIN t : Matches(t[i])}
      first == CHOOSE i \in hits : \A j \in hits : i <= j
  IN IF hits = {} THEN [place |-> Requested, rule |-> NoRule]
     ELSE [place |-> IF t[first].action = "ask" THEN Requested ELSE t[first].dest, rule |-> t[first].id]

\* routerule.CountUse
Counted(t, id) == [i \in DOMAIN t |-> IF t[i].id = id THEN [t[i] EXCEPT !.uses = @ + 1] ELSE t[i]]

\* handleRules, for the screen.
PageLoads ==
  /\ page # rules /\ page' = rules
  /\ UNCHANGED <<rules, save, row, busy, accepting, undo, prompt>>

\* handleRulesSave replaces the whole list by what the screen sends: another order,
\* another rule, with the counters as the screen last saw them.
PageSaves(o) ==
  /\ o # Order(rules) /\ Valid(o)
  /\ rules' = WithUses(o, page)
  /\ page' = rules'
  /\ UNCHANGED <<save, row, busy, accepting, undo, prompt>>

-----------------------------------------------------------------------------
(* handleSave *)

SaveAt(v, pc) == save[v].pc = pc
SaveGoes(v, pc) == save' = [save EXCEPT ![v].pc = pc]

\* routeSave, before the engine is called; every retry is routed again.
SaveArrives(v, g) ==
  /\ SaveAt(v, "new")
  /\ save' = [save EXCEPT ![v] = [NewSave EXCEPT !.pc = "routed", !.set = g, !.place = Routed(rules).place,
                                                 !.credit = Routed(rules).rule]]
  /\ UNCHANGED <<rules, page, row, busy, accepting, undo, prompt>>

\* Execute's claim: a set that is being worked on, or is pending with another list of
\* operations, is refused; one that is finished is answered from its row.
SaveRefused(v) ==
  LET g == save[v].set
  IN /\ SaveAt(v, "routed")
     /\ \/ g \in busy.sets
        \/ row[g].status = "pending" /\ row[g].place # save[v].place
        \/ row[g].status \in {"denied", "rolled_back"}
     /\ SaveGoes(v, "done")
     /\ UNCHANGED <<rules, page, row, busy, accepting, undo, prompt>>

\* creditRules skips a replayed result.
SkipsReplay(v) == SaveGoes(v, "done")

SaveReplayed(v) ==
  /\ SaveAt(v, "routed") /\ save[v].set \notin busy.sets /\ row[save[v].set].status = "applied"
  /\ SkipsReplay(v)
  /\ UNCHANGED <<rules, page, row, busy, accepting, undo, prompt>>

SaveClaims(v) ==
  LET g == save[v].set
  IN /\ SaveAt(v, "routed") /\ g \notin busy.sets
     /\ row[g].status = "none" \/ (row[g].status = "pending" /\ row[g].place = save[v].place)
     /\ busy' = [busy EXCEPT !.sets = @ \cup {g}]
     /\ row' = [row EXCEPT ![g].status = "pending", ![g].place = save[v].place]
     /\ SaveGoes(v, "asking")
     /\ UNCHANGED <<rules, page, accepting, undo, prompt>>

\* The answer, or none within saveBlockBudget: the row stays pending for a retry.
SaveAnswered(v, status) ==
  LET g == save[v].set
  IN /\ SaveAt(v, "asking")
     /\ row' = [row EXCEPT ![g].status = status]
     /\ busy' = [busy EXCEPT !.sets = @ \ {g}]
     /\ SaveGoes(v, IF status = "applied" THEN "landed" ELSE "done")
     /\ UNCHANGED <<rules, page, accepting, undo, prompt>>

\* creditRules: the table is loaded, counted in and saved whole.
CreditLoads(v) ==
  /\ SaveAt(v, "landed")
  /\ save' = [save EXCEPT ![v].pc = IF Has(rules, save[v].credit) THEN "credits" ELSE "done",
                          ![v].copy = IF Has(rules, save[v].credit) THEN Counted(rules, save[v].credit) ELSE <<>>]
  /\ UNCHANGED <<rules, page, row, busy, accepting, undo, prompt>>

CreditSaves(v) ==
  /\ SaveAt(v, "credits") /\ rules' = save[v].copy
  /\ save' = [save EXCEPT ![v].pc = "done", ![v].copy = <<>>]
  /\ UNCHANGED <<page, row, busy, accepting, undo, prompt>>

-----------------------------------------------------------------------------
(* handleAccept *)

AcceptReads(c, g) ==
  /\ accepting[c].pc = "new" /\ row[g].status = "applied"
  /\ accepting' = [accepting EXCEPT ![c] = [pc |-> "read", set |-> g, first |-> ~row[g].accepted]]
  /\ UNCHANGED <<rules, page, save, row, busy, undo, prompt>>

\* An update that does not ask for the status again.
StillAcceptableAnyway(g) == ~row[g].accepted

\* AcceptChangeSet's condition, in the statement itself.
StillAcceptable(g) == row[g].status = "applied" /\ ~row[g].accepted

AcceptUpdates(c) ==
  LET g == accepting[c].set
      accepted == row[g].accepted \/ StillAcceptable(g)
  IN /\ accepting[c].pc = "read"
     /\ row' = [row EXCEPT ![g].accepted = accepted]
     /\ accepting' = [accepting EXCEPT ![c].pc = IF accepting[c].first /\ accepted THEN "audit" ELSE "done"]
     /\ UNCHANGED <<rules, page, save, busy, undo, prompt>>

\* The audit entry, for the call that saw the set unreviewed.
AcceptAudits(c) ==
  /\ accepting[c].pc = "audit"
  /\ accepting' = [accepting EXCEPT ![c].pc = "done"]
  /\ UNCHANGED <<rules, page, save, row, busy, undo, prompt>>

-----------------------------------------------------------------------------
(* handleRollback, and the rollback a platform asks for *)

UndoArrives(u, g) ==
  /\ undo[u].handler = "new"
  /\ undo' = [undo EXCEPT ![u].handler = IF u \in Remote THEN "done" ELSE "watching", ![u].engine = "called", ![u].set = g]
  /\ UNCHANGED <<rules, page, save, row, busy, accepting, prompt>>

\* Engine.Rollback: one at a time for a set, of an applied set only; then the question.
UndoClaims(u) ==
  LET g == undo[u].set
      may == g \notin busy.rollbacks /\ row[g].status = "applied"
  IN /\ undo[u].engine = "called"
     /\ undo' = [undo EXCEPT ![u].engine = IF may THEN "asking" ELSE "ended"]
     /\ busy' = IF may THEN [busy EXCEPT !.rollbacks = @ \cup {g}] ELSE busy
     /\ prompt' = IF may /\ prompt[g] = "none" THEN [prompt EXCEPT ![g] = "pending"] ELSE prompt
     /\ UNCHANGED <<rules, page, save, row, accepting>>

\* The handler's ticker answers whatever prompt stands under the set's key, once.
UndoTicks(u) ==
  LET g == undo[u].set
  IN /\ undo[u].handler = "watching" /\ ~undo[u].claimed /\ prompt[g] = "pending"
     /\ prompt' = [prompt EXCEPT ![g] = "yes"]
     /\ undo' = [undo EXCEPT ![u].claimed = TRUE]
     /\ UNCHANGED <<rules, page, save, row, busy, accepting>>

\* handleResolve: another surface answers.
PromptAnswered(g, yes) ==
  /\ prompt[g] = "pending"
  /\ prompt' = [prompt EXCEPT ![g] = IF yes THEN "yes" ELSE "none"]
  /\ undo' = [u \in Undos |-> IF ~yes /\ undo[u].engine = "asking" /\ undo[u].set = g
                              THEN [undo[u] EXCEPT !.engine = "ended"] ELSE undo[u]]
  /\ busy' = IF yes THEN busy ELSE [busy EXCEPT !.rollbacks = @ \ {g}]
  /\ UNCHANGED <<rules, page, save, row, accepting>>

\* A yes is carried out; a budget that runs out leaves the prompt for a retry.
UndoEnds(u) ==
  LET g == undo[u].set
  IN /\ undo[u].engine = "asking"
     /\ \/ /\ prompt[g] = "yes"
           /\ row' = [row EXCEPT ![g].status = "rolled_back"]
           /\ prompt' = [prompt EXCEPT ![g] = "none"]
        \/ prompt[g] = "pending" /\ UNCHANGED <<row, prompt>>
     /\ undo' = [undo EXCEPT ![u].engine = "ended"]
     /\ busy' = [busy EXCEPT !.rollbacks = @ \ {g}]
     /\ UNCHANGED <<rules, page, save, accepting>>

\* The result, or ten seconds without one; the engine's context ends with the request.
UndoReturns(u) ==
  LET g == undo[u].set
      cut == undo[u].engine = "asking"
  IN /\ undo[u].handler = "watching"
     /\ undo' = [undo EXCEPT ![u].handler = "done", ![u].engine = "ended"]
     /\ busy' = IF cut THEN [busy EXCEPT !.rollbacks = @ \ {g}] ELSE busy
     /\ UNCHANGED <<rules, page, save, row, accepting, prompt>>

DeskNext ==
  \/ PageLoads \/ \E o \in Orders : PageSaves(o)
  \/ \E v \in Saves :
       \/ SaveRefused(v) \/ SaveReplayed(v) \/ SaveClaims(v) \/ CreditLoads(v) \/ CreditSaves(v)
       \/ \E status \in {"applied", "denied", "pending"} : SaveAnswered(v, status)
       \/ \E g \in ChangeSets : SaveArrives(v, g)
  \/ \E c \in Clicks : AcceptUpdates(c) \/ AcceptAudits(c) \/ \E g \in ChangeSets : AcceptReads(c, g)
  \/ \E u \in Undos :
       UndoClaims(u) \/ UndoTicks(u) \/ UndoEnds(u) \/ UndoReturns(u) \/ \E g \in ChangeSets : UndoArrives(u, g)
  \/ \E g \in ChangeSets, yes \in BOOLEAN : PromptAnswered(g, yes)

DeskSpec == DeskInit /\ [][DeskNext]_deskVars

-----------------------------------------------------------------------------
(* Properties *)

\* A set whose rollback has landed is not marked as reviewed after it: the rollback may
\* land between handleAccept's look at the row and its update.  (That the cleanup may
\* turn a rolled back set into an applied one again is in Txn and ChangeSetLife, not
\* here.)
UndoneIsNeverAccepted ==
  [][\A g \in ChangeSets : row[g].status = "rolled_back" => row'[g].accepted = row[g].accepted]_deskVars

=============================================================================
