----------------------------- MODULE MemoryPlan -----------------------------
(***************************************************************************)
(* The page and the plan a workspace keeps between conversations: the plan *)
(* part of store/memory.go and its two writers, the memory tool            *)
(* (mcpserver/memory.go, plan.go) and the desktop (ctlapi/memory.go), for  *)
(* one workspace.  Of a step only its state counts, of a plan that it is   *)
(* another one.                                                            *)
(***************************************************************************)
EXTENDS Naturals

CONSTANTS
  Movers,       \* conversations that move steps they have read about
  Editors,      \* desktop requests that change a step
  Rememberers,  \* memoryNote calls
  MaxSteps      \* bound: ids of plan steps

ASSUME PlanAssumption == MaxSteps \in Nat

StepIds == 1..MaxSteps
StepStates == {"todo", "doing"}

VARIABLES
  steps,       \* memory_plan_steps: id -> state, or none
  lastStep,    \* the highest step id ever handed out
  planNo,      \* history: how many plans there have been
  pageBy,      \* memory_state: who wrote the page, or none
  recalled,    \* the step each conversation has read about, and in which plan
  editing,     \* the desktop's step changes
  remembering, \* the memoryNote calls: their progress
  astray       \* history: a move reached a step of another plan than it was meant for

planVars == <<steps, lastStep, planNo, pageBy, recalled, editing, remembering, astray>>

NothingRead == [step |-> 0, plan |-> 0]
NoEdit == [pc |-> "idle", step |-> 0, plan |-> 0, asks |-> "none", carries |-> "none"]

PlanInit ==
  /\ steps = [p \in StepIds |-> "none"] /\ lastStep = 0 /\ planNo = 0
  /\ pageBy = "none"
  /\ recalled = [c \in Movers |-> NothingRead]
  /\ editing = [e \in Editors |-> NoEdit]
  /\ remembering = [h \in Rememberers |-> "idle"]
  /\ astray = FALSE

\* The rowid SQLite would pick without AUTOINCREMENT: the old plan is gone by then.
NewStepReused == 1

\* AUTOINCREMENT: an id is handed out once.
NewStep == lastStep + 1

\* planSteps and SaveMemoryPlan: the old steps go and their ids with them, in one
\* transaction.
SaveMemoryPlan(st) ==
  /\ lastStep < MaxSteps /\ lastStep' = lastStep + 1 /\ planNo' = planNo + 1
  /\ steps' = [p \in StepIds |-> IF p = NewStep THEN st ELSE "none"]
  /\ UNCHANGED <<pageBy, recalled, editing, remembering, astray>>

\* memoryRecall answers with the plan as it is stored.
MemoryRecall(c, p) ==
  /\ steps[p] # "none"
  /\ recalled' = [recalled EXCEPT ![c] = [step |-> p, plan |-> planNo]]
  /\ UNCHANGED <<steps, lastStep, planNo, pageBy, editing, remembering, astray>>

\* planStep: the tool always names the state; an id that is not there is refused.
PlanStep(c, st) ==
  /\ recalled[c] # NothingRead
  /\ LET p == recalled[c].step IN
     IF steps[p] = "none" THEN UNCHANGED <<steps, astray>>
     ELSE steps' = [steps EXCEPT ![p] = st] /\ astray' = (astray \/ recalled[c].plan # planNo)
  /\ recalled' = [recalled EXCEPT ![c] = NothingRead]
  /\ UNCHANGED <<lastStep, planNo, pageBy, editing, remembering>>

\* handleMemoryPlanStep reads the plan first: a request without a state carries the
\* state it finds through.
StepRead(e, p, asks) ==
  /\ editing[e].pc = "idle" /\ steps[p] # "none"
  /\ editing' = [editing EXCEPT ![e] = [pc |-> "write", step |-> p, plan |-> planNo, asks |-> asks,
                                        carries |-> IF asks = "none" THEN steps[p] ELSE asks]]
  /\ UNCHANGED <<steps, lastStep, planNo, pageBy, recalled, remembering, astray>>

\* UpdateMemoryStep: one statement; no row, no change.
StepWritten(e) ==
  LET w == editing[e]
      there == w.pc = "write" /\ steps[w.step] # "none"
  IN
  /\ w.pc = "write"
  /\ steps' = IF there THEN [steps EXCEPT ![w.step] = w.carries] ELSE steps
  /\ astray' = (astray \/ (there /\ w.plan # planNo))
  /\ editing' = [editing EXCEPT ![e] = NoEdit]
  /\ UNCHANGED <<lastStep, planNo, pageBy, recalled, remembering>>

\* memoryNote with a page and a note: the page is saved first.
PageThenNote(h) ==
  /\ remembering[h] = "idle"
  /\ pageBy' = "tool" /\ remembering' = [remembering EXCEPT ![h] = "refs"]
  /\ UNCHANGED <<steps, lastStep, planNo, recalled, editing, astray>>

\* memoryRefs: what the note points at is looked up only now; a call
\* refused here has rewritten the page.
NoteRefs(h) ==
  /\ remembering[h] = "refs"
  /\ remembering' = [remembering EXCEPT ![h] = "idle"]
  /\ UNCHANGED <<steps, lastStep, planNo, pageBy, recalled, editing, astray>>

\* handleMemoryPage: the page by the user's hand.
PageByHand ==
  /\ pageBy' = "user"
  /\ UNCHANGED <<steps, lastStep, planNo, recalled, editing, remembering, astray>>

\* DeleteMemory, this module's part of its transaction.
ForgetPlan ==
  /\ steps' = [p \in StepIds |-> "none"] /\ pageBy' = "none" /\ planNo' = planNo
  /\ UNCHANGED <<lastStep, recalled, editing, remembering, astray>>

PlanNext ==
  \/ \E st \in StepStates : SaveMemoryPlan(st) \/ \E c \in Movers : PlanStep(c, st)
  \/ \E p \in StepIds, c \in Movers : MemoryRecall(c, p)
  \/ \E e \in Editors : StepWritten(e) \/ \E p \in StepIds, asks \in StepStates \cup {"none"} : StepRead(e, p, asks)
  \/ \E h \in Rememberers : PageThenNote(h) \/ NoteRefs(h)
  \/ PageByHand \/ ForgetPlan

PlanSpec == PlanInit /\ [][PlanNext]_planVars

----------------------------------------------------------------------------
\* SaveMemoryPlan: a new plan's ids are new, "which is what makes a stale update fail
\* loudly rather than move a step of a plan nobody is working on any more".
StaleMovesFail == ~astray

=============================================================================
