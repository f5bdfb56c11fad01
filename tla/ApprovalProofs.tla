--------------------------- MODULE ApprovalProofs ---------------------------
(***************************************************************************)
(* What the approval service guarantees for any number of callers,         *)
(* surfaces, requests and live prompts.                                    *)
(*                                                                         *)
(* The three safety invariants are not inductive one by one: an answered   *)
(* prompt can only be told to leave the list under the right key when the  *)
(* maps file every prompt under its own key, and a recycled *Pending       *)
(* object disturbs nobody because everything that is pointed at is in use. *)
(* IInv collects what they need of each other.                             *)
(***************************************************************************)
EXTENDS Approval, TLAPS

\* What Pending.resolve leaves behind, and the maps' filing discipline.
PointersInUse ==
  /\ \A c \in Callers : call[c].pc = "waiting" => call[c].p \in PromptIds
  /\ \A s \in Surfaces : surf[s].pc # "idle" =>
       surf[s].p \in PromptIds /\ prompt[surf[s].p].state # "unused"
  /\ \A k \in Keys : pending[k] # None =>
       KeyOf(pending[k]) = k /\ prompt[pending[k]].state # "unused"

\* The inductive invariant of the approval service.
IInv ==
  /\ TypeOK
  /\ PointersInUse
  /\ KeptAnswersAreAnswers
  /\ OneSurfaceAnswers
  /\ AnsweredLeavesTheList

\* Prompt identities are positive, so none of them is None.
LEMMA PromptIdFacts == None \notin PromptIds /\ \A p \in PromptIds : p # None
BY MaxPromptsAssumption DEF None, PromptIds

\* Every request's key is a key of the maps.
LEMMA KeyFacts == \A r \in Requests : r.key \in Keys
BY DEF Keys

\* There is a request to put in the fields of an unused prompt.
LEMMA AnyRequestFact == AnyRequest \in Requests
BY RequestsAssumption DEF AnyRequest, RequestShape

\* A service that has just started has asked nothing.
LEMMA InitIInv == Init => IInv
<1> SUFFICES ASSUME Init PROVE IInv
  OBVIOUS
<1> USE PromptIdFacts, AnyRequestFact
<1>1. TypeOK
  BY DEF Init, TypeOK, UnusedPrompt, IdleCall, IdleSurf, Prompt, Call, Surf,
         PromptStates, Answers
<1>2. PointersInUse
  BY DEF Init, PointersInUse, IdleCall, IdleSurf
<1>3. KeptAnswersAreAnswers /\ AnsweredLeavesTheList
  BY DEF Init, KeptAnswersAreAnswers, AnsweredLeavesTheList
<1>4. OneSurfaceAnswers
  BY DEF Init, OneSurfaceAnswers, IdleSurf
<1> QED
  BY <1>1, <1>2, <1>3, <1>4 DEF IInv

\* A caller that attaches, in the three cases of attach.
LEMMA AttachIInv ==
  ASSUME IInv, NEW c \in Callers, NEW req \in Requests, Attach(c, req)
  PROVE  IInv'
<1> USE PromptIdFacts, KeyFacts
<1> req.key \in Keys
  OBVIOUS
<1>1. CASE SharePending(c, req)
  <2>1. TypeOK'
    BY <1>1 DEF IInv, TypeOK, Attach, SharePending, WaitOn, Call
  <2>2. PointersInUse'
    BY <1>1 DEF IInv, TypeOK, PointersInUse, Attach, SharePending, WaitOn, Call, KeyOf
  <2>3. KeptAnswersAreAnswers' /\ OneSurfaceAnswers' /\ AnsweredLeavesTheList'
    BY <1>1 DEF IInv, KeptAnswersAreAnswers, OneSurfaceAnswers, AnsweredLeavesTheList,
                Attach, SharePending, IsDecided, KeyOf
  <2> QED
    BY <2>1, <2>2, <2>3 DEF IInv
<1>2. CASE ReplayDecided(c, req)
  <2>1. TypeOK'
    BY <1>2 DEF IInv, TypeOK, Attach, ReplayDecided, Replayable, WaitOn, Call
  <2>2. PointersInUse'
    BY <1>2 DEF IInv, TypeOK, PointersInUse, Attach, ReplayDecided, Replayable, WaitOn, Call, KeyOf
  <2>3. KeptAnswersAreAnswers'
    BY <1>2 DEF IInv, TypeOK, KeptAnswersAreAnswers, Attach, ReplayDecided, IsDecided, KeyOf
  <2>4. OneSurfaceAnswers' /\ AnsweredLeavesTheList'
    BY <1>2 DEF IInv, OneSurfaceAnswers, AnsweredLeavesTheList,
                Attach, ReplayDecided, IsDecided
  <2> QED
    BY <2>1, <2>2, <2>3, <2>4 DEF IInv
<1>3. CASE RaisePrompt(c, req)
  <2> DEFINE p == CHOOSE q \in PromptIds : Garbage(q)
             new == [state |-> "open", req |-> req, fresh |-> FALSE]
  <2>1. p \in PromptIds /\ Garbage(p)
    BY <1>3 DEF RaisePrompt
  <2>2. /\ prompt' = [prompt EXCEPT ![p] = new]
        /\ pending' = [pending EXCEPT ![req.key] = p]
        /\ call' = [call EXCEPT ![c] = [pc |-> "waiting", req |-> req, p |-> p]]
        /\ surf' = surf /\ mode' = mode
    BY <1>3 DEF RaisePrompt, Attach, WaitOn
  <2>3. \A k \in Keys : decided'[k] = decided[k] \/ decided'[k] = None
    BY <1>3 DEF RaisePrompt, IInv, TypeOK
  <2>4. decided' \in [Keys -> PromptIds \cup {None}]
    BY <1>3 DEF RaisePrompt, IInv, TypeOK
  <2> HIDE DEF p
  <2>5. new \in Prompt
    BY DEF Prompt, PromptStates
  <2>6. TypeOK'
    BY <2>1, <2>2, <2>4, <2>5 DEF IInv, TypeOK, Call
  <2>7. PointersInUse'
    <3>1. \A d \in Callers : call'[d].pc = "waiting" => call'[d].p \in PromptIds
      BY <2>1, <2>2 DEF IInv, TypeOK, PointersInUse
    <3>2. \A s \in Surfaces : surf'[s].pc # "idle" =>
            surf'[s].p \in PromptIds /\ prompt'[surf'[s].p].state # "unused"
      BY <2>1, <2>2 DEF IInv, TypeOK, PointersInUse, Garbage
    <3>3. \A k \in Keys : pending'[k] # None =>
            prompt'[pending'[k]].req.key = k /\ prompt'[pending'[k]].state # "unused"
      BY <2>1, <2>2 DEF IInv, TypeOK, PointersInUse, Garbage, KeyOf
    <3> QED
      BY <3>1, <3>2, <3>3 DEF PointersInUse, KeyOf
  <2>8. KeptAnswersAreAnswers'
    BY <2>1, <2>2, <2>3 DEF IInv, TypeOK, KeptAnswersAreAnswers, Garbage, IsDecided, KeyOf
  <2>9. OneSurfaceAnswers'
    BY <2>1, <2>2 DEF IInv, TypeOK, OneSurfaceAnswers, PointersInUse, Garbage
  <2>10. AnsweredLeavesTheList'
    BY <2>1, <2>2 DEF IInv, TypeOK, AnsweredLeavesTheList, Garbage, IsDecided, Answers
  <2> QED
    BY <2>6, <2>7, <2>8, <2>9, <2>10 DEF IInv
<1> QED
  BY <1>1, <1>2, <1>3 DEF Attach

\* The select took p.done.
LEMMA CollectIInv ==
  ASSUME IInv, NEW c \in Callers, Collect(c)
  PROVE  IInv'
<1> USE PromptIdFacts, KeyFacts
<1>1. call[c].req.key \in Keys
  BY DEF IInv, TypeOK, Call
<1>2. TypeOK'
  BY <1>1, AnyRequestFact DEF IInv, TypeOK, Collect, Return, IdleCall, Call
<1>3. PointersInUse'
  BY <1>1 DEF IInv, TypeOK, PointersInUse, Collect, Return, IdleCall, KeyOf
<1>4. KeptAnswersAreAnswers'
  BY <1>1 DEF IInv, TypeOK, KeptAnswersAreAnswers, Collect, IsDecided, KeyOf
<1>5. OneSurfaceAnswers' /\ AnsweredLeavesTheList'
  BY <1>1 DEF IInv, TypeOK, OneSurfaceAnswers, AnsweredLeavesTheList, Collect, IsDecided
<1> QED
  BY <1>2, <1>3, <1>4, <1>5 DEF IInv

\* A caller that gives up leaves the prompt where it is.
LEMMA GiveUpIInv ==
  ASSUME IInv, NEW c \in Callers, GiveUp(c)
  PROVE  IInv'
<1> USE PromptIdFacts
<1>1. TypeOK' /\ PointersInUse'
  BY AnyRequestFact
     DEF IInv, TypeOK, PointersInUse, GiveUp, Return, IdleCall, Call, KeyOf
<1>2. KeptAnswersAreAnswers' /\ OneSurfaceAnswers' /\ AnsweredLeavesTheList'
  BY DEF IInv, KeptAnswersAreAnswers, OneSurfaceAnswers, AnsweredLeavesTheList,
         GiveUp, IsDecided, KeyOf
<1> QED
  BY <1>1, <1>2 DEF IInv

\* Resolve finds its prompt under the lock.
LEMMA LookupIInv ==
  ASSUME IInv, NEW s \in Surfaces, NEW k \in Keys, NEW answer \in Answers,
         ResolveLookup(s, k, answer)
  PROVE  IInv'
<1> USE PromptIdFacts
<1>1. TypeOK' /\ PointersInUse'
  BY DEF IInv, TypeOK, PointersInUse, ResolveLookup, Surf, KeyOf
<1>2. KeptAnswersAreAnswers'
  BY DEF IInv, KeptAnswersAreAnswers, ResolveLookup, IsDecided, KeyOf
<1>3. OneSurfaceAnswers' /\ AnsweredLeavesTheList'
  BY DEF IInv, TypeOK, OneSurfaceAnswers, AnsweredLeavesTheList, ResolveLookup, IsDecided, Surf
<1> QED
  BY <1>1, <1>2, <1>3 DEF IInv

\* The first answer stands: no other surface has answered this prompt, or it
\* would be decided already.
LEMMA ResolveWinsIInv ==
  ASSUME IInv, NEW s \in Surfaces, ResolveWins(s)
  PROVE  IInv'
<1> USE PromptIdFacts
<1> DEFINE p == surf[s].p
<1>1. p \in PromptIds /\ surf[s].answer \in Answers
  BY DEF IInv, TypeOK, PointersInUse, ResolveWins, Surf
<1>2. /\ prompt' = [prompt EXCEPT ![p].state = surf[s].answer, ![p].fresh = TRUE]
      /\ surf' = [surf EXCEPT ![s].pc = "resolved"]
      /\ UNCHANGED <<mode, pending, decided, call>>
      /\ surf[s].pc = "looked" /\ prompt[p].state \notin Answers
  BY DEF ResolveWins, IsDecided
<1>3. /\ prompt'[p].state = surf[s].answer /\ prompt'[p].req = prompt[p].req
      /\ \A q \in PromptIds \ {p} : prompt'[q] = prompt[q]
      /\ prompt' \in [PromptIds -> Prompt]
  BY <1>1, <1>2 DEF IInv, TypeOK, Prompt, PromptStates, Answers
<1>4. /\ surf'[s].pc = "resolved" /\ surf'[s].p = p /\ surf'[s].answer = surf[s].answer
      /\ \A t \in Surfaces \ {s} : surf'[t] = surf[t]
      /\ surf' \in [Surfaces -> Surf]
  BY <1>2 DEF IInv, TypeOK, Surf
<1> HIDE DEF p
<1>5. TypeOK'
  BY <1>2, <1>3, <1>4 DEF IInv, TypeOK
<1>6. PointersInUse'
  <2>1. \A q \in PromptIds : prompt[q].state # "unused" => prompt'[q].state # "unused"
    BY <1>1, <1>3 DEF Answers
  <2>2. \A q \in PromptIds : prompt'[q].req = prompt[q].req
    BY <1>3
  <2>3. \A t \in Surfaces : surf'[t].p = surf[t].p /\ (surf'[t].pc # "idle" <=> surf[t].pc # "idle")
    BY <1>2, <1>4 DEF p
  <2>4. \A k \in Keys : pending[k] # None => pending[k] \in PromptIds
    BY DEF IInv, TypeOK
  <2> QED
    BY <1>2, <2>1, <2>2, <2>3, <2>4 DEF IInv, PointersInUse, KeyOf
<1>7. KeptAnswersAreAnswers'
  BY <1>1, <1>2, <1>3 DEF IInv, TypeOK, KeptAnswersAreAnswers, IsDecided, KeyOf
<1>8. OneSurfaceAnswers'
  <2>1. \A t \in Surfaces \ {s} : surf[t].pc \in {"resolved", "published"} =>
          surf[t].p \in PromptIds /\ surf[t].p # p /\ prompt[surf[t].p].state = surf[t].answer
    BY <1>2 DEF IInv, TypeOK, OneSurfaceAnswers, PointersInUse, Surf
  <2> QED
    BY <1>3, <1>4, <2>1 DEF IInv, OneSurfaceAnswers
<1>9. AnsweredLeavesTheList'
  <2> SUFFICES ASSUME NEW k \in Keys, pending[k] # None, prompt'[pending[k]].state \in Answers
               PROVE  \E t \in Surfaces : surf'[t].pc = "resolved" /\ surf'[t].p = pending[k]
    BY <1>2 DEF AnsweredLeavesTheList, IsDecided
  <2>1. CASE pending[k] = p
    BY <1>4, <2>1
  <2>2. CASE pending[k] # p
    <3>1. prompt[pending[k]].state \in Answers
      BY <1>3, <2>2 DEF IInv, TypeOK
    <3>2. PICK t \in Surfaces : surf[t].pc = "resolved" /\ surf[t].p = pending[k]
      BY <3>1 DEF IInv, AnsweredLeavesTheList, IsDecided
    <3> QED
      BY <1>2, <1>4, <3>2
  <2> QED
    BY <2>1, <2>2
<1> QED
  BY <1>5, <1>6, <1>7, <1>8, <1>9 DEF IInv

\* The second surface to answer changes nothing.
LEMMA ResolveLosesIInv ==
  ASSUME IInv, NEW s \in Surfaces, ResolveLoses(s) \/ OnDecision(s)
  PROVE  IInv'
<1> USE PromptIdFacts
<1>1. /\ surf' = [surf EXCEPT ![s] = IdleSurf]
      /\ UNCHANGED <<mode, pending, decided, prompt, call>>
      /\ surf[s].pc # "resolved"
  BY DEF ResolveLoses, OnDecision, SurfaceDone
<1>2. TypeOK'
  BY <1>1 DEF IInv, TypeOK, IdleSurf, Surf, Answers
<1>3. PointersInUse'
  BY <1>1 DEF IInv, TypeOK, PointersInUse, IdleSurf, KeyOf
<1>4. KeptAnswersAreAnswers'
  BY <1>1 DEF IInv, KeptAnswersAreAnswers, IsDecided, KeyOf
<1>5. OneSurfaceAnswers' /\ AnsweredLeavesTheList'
  BY <1>1 DEF IInv, TypeOK, OneSurfaceAnswers, AnsweredLeavesTheList, IdleSurf, IsDecided
<1> QED
  BY <1>2, <1>3, <1>4, <1>5 DEF IInv

\* The answered prompt leaves the list under its own key; the prompts of the
\* other keys are not its own, so whoever answered them is another surface.
LEMMA PublishIInv ==
  ASSUME IInv, NEW s \in Surfaces, ResolvePublish(s)
  PROVE  IInv'
<1> USE PromptIdFacts, KeyFacts
<1> DEFINE p == surf[s].p
           key == prompt[p].req.key
<1>1. p \in PromptIds /\ key \in Keys /\ prompt[p].state \in Answers
  BY DEF IInv, TypeOK, PointersInUse, OneSurfaceAnswers, ResolvePublish, Surf, Prompt
<1>2. /\ pending' = [pending EXCEPT ![key] = None]
      /\ decided' = Swept([decided EXCEPT ![key] = p])
      /\ surf' = [surf EXCEPT ![s].pc = "published"]
      /\ surf[s].pc = "resolved"
      /\ UNCHANGED <<mode, prompt, call>>
  BY DEF ResolvePublish, KeyOf
<1>3. \A k \in Keys : decided'[k] \in {None, decided[k]} \/ (k = key /\ decided'[k] = p)
  BY <1>1, <1>2 DEF IInv, TypeOK, Swept
<1>4. decided' \in [Keys -> PromptIds \cup {None}]
  BY <1>1, <1>2 DEF IInv, TypeOK, Swept
<1>5. /\ surf'[s].pc = "published" /\ surf'[s].p = p /\ surf'[s].answer = surf[s].answer
      /\ \A t \in Surfaces \ {s} : surf'[t] = surf[t]
      /\ surf' \in [Surfaces -> Surf]
  BY <1>2 DEF IInv, TypeOK, Surf
<1> HIDE DEF p, key
<1>6. TypeOK'
  BY <1>1, <1>2, <1>4, <1>5 DEF IInv, TypeOK
<1>7. PointersInUse'
  BY <1>1, <1>2, <1>5 DEF IInv, TypeOK, PointersInUse, KeyOf, p
<1>8. KeptAnswersAreAnswers'
  BY <1>1, <1>2, <1>3 DEF IInv, KeptAnswersAreAnswers, IsDecided, KeyOf, key
<1>9. OneSurfaceAnswers'
  BY <1>2, <1>5 DEF IInv, OneSurfaceAnswers, p
<1>10. AnsweredLeavesTheList'
  <2> SUFFICES ASSUME NEW k \in Keys, pending'[k] # None, prompt[pending'[k]].state \in Answers
               PROVE  \E t \in Surfaces : surf'[t].pc = "resolved" /\ surf'[t].p = pending'[k]
    BY <1>2 DEF AnsweredLeavesTheList, IsDecided
  <2>1. k # key /\ pending'[k] = pending[k]
    BY <1>1, <1>2 DEF IInv, TypeOK
  <2>2. PICK t \in Surfaces : surf[t].pc = "resolved" /\ surf[t].p = pending[k]
    BY <2>1 DEF IInv, AnsweredLeavesTheList, IsDecided
  <2>3. t # s
    BY <2>1, <2>2 DEF IInv, PointersInUse, KeyOf, p, key
  <2> QED
    BY <1>5, <2>1, <2>2, <2>3
<1> QED
  BY <1>6, <1>7, <1>8, <1>9, <1>10 DEF IInv

\* A kept decision that ages stays a decision.
LEMMA ExpireIInv ==
  ASSUME IInv, NEW p \in PromptIds, Expire(p)
  PROVE  IInv'
<1> USE PromptIdFacts
<1>1. /\ prompt' = [prompt EXCEPT ![p].fresh = FALSE]
      /\ UNCHANGED <<mode, pending, decided, call, surf>>
  BY DEF Expire
<1>2. /\ \A q \in PromptIds : prompt'[q].state = prompt[q].state /\ prompt'[q].req = prompt[q].req
      /\ prompt' \in [PromptIds -> Prompt]
  BY <1>1 DEF IInv, TypeOK, Prompt
<1>3. TypeOK'
  BY <1>1, <1>2 DEF IInv, TypeOK
<1>4. PointersInUse' /\ KeptAnswersAreAnswers'
  BY <1>1, <1>2 DEF IInv, TypeOK, PointersInUse, KeptAnswersAreAnswers, IsDecided, KeyOf
<1>5. OneSurfaceAnswers' /\ AnsweredLeavesTheList'
  BY <1>1, <1>2 DEF IInv, TypeOK, PointersInUse, OneSurfaceAnswers, AnsweredLeavesTheList, IsDecided
<1> QED
  BY <1>3, <1>4, <1>5 DEF IInv

\* A step that changes nothing here, or only the mode.
LEMMA QuietIInv ==
  ASSUME IInv, UNCHANGED <<pending, decided, prompt, call, surf>>, mode' \in Modes
  PROVE  IInv'
BY DEF IInv, TypeOK, PointersInUse, KeptAnswersAreAnswers, OneSurfaceAnswers,
       AnsweredLeavesTheList, IsDecided, KeyOf

\* Every step of a caller, a surface or the clock preserves IInv.
LEMMA NextIInv == IInv /\ [Next]_vars => IInv'
<1> SUFFICES ASSUME IInv, [Next]_vars PROVE IInv'
  OBVIOUS
<1>0. mode \in Modes
  BY DEF IInv, TypeOK
<1>1. ASSUME NEW c \in Callers, NEW req \in Requests, PolicyApproves(c, req) PROVE IInv'
  BY <1>0, <1>1, QuietIInv DEF PolicyApproves, vars
<1>2. ASSUME NEW c \in Callers, NEW req \in Requests, Attach(c, req) PROVE IInv'
  BY <1>2, AttachIInv
<1>3. ASSUME NEW c \in Callers, GiveUp(c) \/ Collect(c) PROVE IInv'
  BY <1>3, GiveUpIInv, CollectIInv
<1>4. ASSUME SurfaceNext PROVE IInv'
  BY <1>4, LookupIInv, ResolveWinsIInv, ResolveLosesIInv, PublishIInv DEF SurfaceNext
<1>5. ASSUME NEW m \in Modes, NEW confirm \in BOOLEAN, SetMode(m, confirm) PROVE IInv'
  BY <1>5, QuietIInv DEF SetMode
<1>6. ASSUME NEW p \in PromptIds, Expire(p) PROVE IInv'
  BY <1>6, ExpireIInv
<1>7. CASE UNCHANGED vars
  BY <1>0, <1>7, QuietIInv DEF vars
<1> QED
  BY <1>1, <1>2, <1>3, <1>4, <1>5, <1>6, <1>7 DEF Next, ServiceNext, CallerNext

\* The inductive invariant holds in every reachable state.
LEMMA Invariance == Spec => []IInv
BY InitIInv, NextIInv, PTL DEF Spec

-----------------------------------------------------------------------------
\* The state of the approval service is well typed in every reachable state.
THEOREM TypeCorrect == Spec => []TypeOK
<1>1. IInv => TypeOK
  BY DEF IInv
<1> QED
  BY <1>1, Invariance, PTL

\* An answered prompt leaves the pending list with the Resolve that answered
\* it: nothing the user has decided keeps the gate shut.
THEOREM AnsweredLeaves == Spec => []AnsweredLeavesTheList
<1>1. IInv => AnsweredLeavesTheList
  BY DEF IInv
<1> QED
  BY <1>1, Invariance, PTL

\* However many surfaces race on a prompt, one of them answers it.
THEOREM FirstAnswerStands == Spec => []OneSurfaceAnswers
<1>1. IInv => OneSurfaceAnswers
  BY DEF IInv
<1> QED
  BY <1>1, Invariance, PTL

\* What is kept for a retry is an answer to the question the retry asks.
THEOREM KeptAnswers == Spec => []KeptAnswersAreAnswers
<1>1. IInv => KeptAnswersAreAnswers
  BY DEF IInv
<1> QED
  BY <1>1, Invariance, PTL

\* attach hands out a kept answer only while it is fresh and only to the
\* platform it was made for.
THEOREM ReplaySafe == Spec => ReplayIsFreshAndOwn
<1> DEFINE Safe == \A c \in Callers :
             LET p == call'[c].p
             IN Arrives(c) /\ prompt'[p].state \in Answers /\ pending[call'[c].req.key] # p =>
                  prompt'[p].fresh /\ prompt'[p].req.provider = call'[c].req.provider
<1>1. IInv /\ [Next]_vars => [Safe]_vars
  <2> SUFFICES ASSUME IInv, Next, NEW c \in Callers, Arrives(c),
                      prompt'[call'[c].p].state \in Answers,
                      pending[call'[c].req.key] # call'[c].p
               PROVE  /\ prompt'[call'[c].p].fresh
                      /\ prompt'[call'[c].p].req.provider = call'[c].req.provider
    OBVIOUS
  <2>1. call \in [Callers -> Call]
    BY DEF IInv, TypeOK
  <2>2. PICK req \in Requests : Attach(c, req)
    <3>1. call' # call
      BY DEF Arrives
    <3>2. \A d \in Callers : GiveUp(d) \/ Collect(d) => call'[c].pc = "idle" \/ call'[c] = call[c]
      BY <2>1 DEF GiveUp, Collect, Return, IdleCall
    <3>3. \A d \in Callers, r \in Requests : Attach(d, r) /\ d # c => call'[c] = call[c]
      BY <2>1 DEF Attach, SharePending, ReplayDecided, RaisePrompt, WaitOn
    <3>4. PICK d \in Callers, r \in Requests : Attach(d, r)
      BY <3>1, <3>2
         DEF Next, ServiceNext, CallerNext, SurfaceNext, PolicyApproves, SetMode, Expire,
             ResolveLookup, ResolveWins, ResolveLoses, ResolvePublish, OnDecision, Arrives, vars
    <3> QED
      BY <3>3, <3>4 DEF Arrives
  <2>3. ~SharePending(c, req)
    BY <2>1 DEF SharePending, WaitOn
  <2>4. ~RaisePrompt(c, req)
    <3> SUFFICES ASSUME RaisePrompt(c, req) PROVE FALSE
      OBVIOUS
    <3> DEFINE q == CHOOSE q \in PromptIds : Garbage(q)
    <3>1. q \in PromptIds
      BY DEF RaisePrompt
    <3>2. /\ call'[c].p = q
          /\ prompt' = [prompt EXCEPT ![q] = [state |-> "open", req |-> req, fresh |-> FALSE]]
      BY <2>1 DEF RaisePrompt, WaitOn
    <3> HIDE DEF q
    <3> QED
      BY <3>1, <3>2 DEF IInv, TypeOK, Answers
  <2>5. ReplayDecided(c, req)
    BY <2>2, <2>3, <2>4 DEF Attach
  <2> QED
    BY <2>1, <2>5 DEF ReplayDecided, Replayable, WaitOn
<1> QED
  BY <1>1, Invariance, PTL DEF Spec, ReplayIsFreshAndOwn
=============================================================================
