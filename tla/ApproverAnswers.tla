--------------------------- MODULE ApproverAnswers ---------------------------
(***************************************************************************)
(* Signed answers of a paired device: companion/internal/approver.         *)
(*                                                                         *)
(* One device; rows and nonces are kept per device.  A signed request may  *)
(* reach the Companion any number of times while it travels, and at any    *)
(* time.  The clock counts whole seconds of the Companion; the device's    *)
(* own may be off by Window either way.                                    *)
(***************************************************************************)
EXTENDS Integers, FiniteSets

CONSTANTS
  ChangeSets,   \* what prompts are raised for; one may be raised again later
  Signed,       \* requests the device may sign, each with a nonce of its own
  Inbound,      \* handleAnswer calls in progress
  Window,       \* answerWindow
  MaxClock,     \* bound: how far the clock goes
  MaxRestarts   \* bound: how often the Companion restarts

ASSUME AnswersAssumption ==
  /\ Window \in Nat \ {0} /\ MaxClock \in Nat /\ MaxRestarts \in Nat

VARIABLES
  clock,     \* s.now
  life,      \* which run of the Companion this is: its handleKey
  row,       \* the device's row
  asked,     \* the change sets with an open prompt
  signed,    \* what the device has signed
  noted,     \* s.nonces of the device: when each nonce was noted
  inbound,   \* the handleAnswer calls
  decides,   \* history: how many prompts each signed answer has decided
  excused    \* history: answers checked while time passed or the row went

answersVars == <<clock, life, row, asked, signed, noted, inbound, decides, excused>>

Never == -100
Unsigned == [cs |-> CHOOSE k \in ChangeSets : TRUE, life |-> -1, ts |-> 0]
IdleAnswer == [pc |-> "idle", m |-> CHOOSE m \in Signed : TRUE, at |-> 0]

AnswersInit ==
  /\ clock = 0 /\ life = 0 /\ row = "paired"
  /\ asked = {}
  /\ signed = [m \in Signed |-> Unsigned]
  /\ noted = [m \in Signed |-> Never]
  /\ inbound = [h \in Inbound |-> IdleAnswer]
  /\ decides = [m \in Signed |-> 0]
  /\ excused = {}

\* A prompt is raised, or settled by another surface.
PromptRaised(k) ==
  /\ k \notin asked
  /\ asked' = asked \cup {k}
  /\ UNCHANGED <<clock, life, row, signed, noted, inbound, decides, excused>>

PromptSettled(k) ==
  /\ asked' = asked \ {k} /\ k \in asked
  /\ UNCHANGED <<clock, life, row, signed, noted, inbound, decides, excused>>

\* The person answers a prompt of the inbox: the request carries the handle it
\* was shown under and the device's own time.
DeviceSigns(m, k, skew) ==
  /\ signed[m] = Unsigned /\ k \in asked /\ row # "revoked"
  /\ signed' = [signed EXCEPT ![m] = [cs |-> k, life |-> life, ts |-> clock + skew]]
  /\ UNCHANGED <<clock, life, row, asked, noted, inbound, decides, excused>>

\* authenticate up to the clock; a request outside the window leaves no trace.
InWindow(ts) == clock - ts <= Window /\ ts - clock <= Window

AnswerArrives(h, m) ==
  /\ inbound[h].pc = "idle" /\ signed[m] # Unsigned
  /\ InWindow(signed[m].ts)
  /\ inbound' = [inbound EXCEPT ![h] = [pc |-> "row", m |-> m, at |-> clock]]
  /\ UNCHANGED <<clock, life, row, asked, signed, noted, decides, excused>>

\* GetApprover, the expiry and the signature.
AnswerFindsRow(h) ==
  /\ inbound[h].pc = "row"
  /\ inbound' = [inbound EXCEPT ![h] = IF row = "paired" THEN [@ EXCEPT !.pc = "nonce"] ELSE IdleAnswer]
  /\ UNCHANGED <<clock, life, row, asked, signed, noted, decides, excused>>

\* A sweep that forgets a nonce as soon as its own window is over.
SweptAfterOneWindow(seen, now) == [m \in Signed |-> IF now - seen[m] > Window THEN Never ELSE seen[m]]

\* noteNonce's sweep: two windows, for a request may carry a time one window
\* ahead and stays good until one window after that.
SweptNonces(seen, now) == [m \in Signed |-> IF now - seen[m] > 2 * Window THEN Never ELSE seen[m]]

\* noteNonce, with the time authenticate read at its start.
AnswerNotesNonce(h) ==
  LET m == inbound[h].m
      seen == SweptNonces(noted, inbound[h].at)
  IN
  /\ inbound[h].pc = "nonce"
  /\ IF seen[m] = Never
     THEN /\ noted' = [seen EXCEPT ![m] = inbound[h].at]
          /\ inbound' = [inbound EXCEPT ![h].pc = "find"]
     ELSE noted' = seen /\ inbound' = [inbound EXCEPT ![h] = IdleAnswer]
  /\ excused' = IF clock # inbound[h].at \/ row = "revoked" THEN excused \cup {m} ELSE excused
  /\ UNCHANGED <<clock, life, row, asked, signed, decides>>

\* handle: keyed with what this run of the Companion drew at its start.
HandleMatches(m, k) == signed[m].cs = k /\ signed[m].life = life

\* handleAnswer looks the handle up among the pending prompts.
AnswerFindsPrompt(h) ==
  LET hit == \E k \in asked : HandleMatches(inbound[h].m, k) IN
  /\ inbound[h].pc = "find"
  /\ inbound' = [inbound EXCEPT ![h] = IF hit THEN [@ EXCEPT !.pc = "resolve"] ELSE IdleAnswer]
  /\ UNCHANGED <<clock, life, row, asked, signed, noted, decides, excused>>

\* Resolve; a prompt answered elsewhere meanwhile is not pending any more.
AnswerResolves(h) ==
  LET m == inbound[h].m
      k == signed[m].cs
  IN
  /\ inbound[h].pc = "resolve"
  /\ asked' = asked \ {k}
  /\ decides' = IF k \in asked THEN [decides EXCEPT ![m] = @ + 1] ELSE decides
  /\ inbound' = [inbound EXCEPT ![h] = IdleAnswer]
  /\ UNCHANGED <<clock, life, row, signed, noted, excused>>

\* Revoke: the row goes, then the nonces.
RowRevoked ==
  /\ row # "revoked" /\ row' = "revoked"
  /\ UNCHANGED <<clock, life, asked, signed, noted, inbound, decides, excused>>

NoncesDropped ==
  /\ row = "revoked" /\ noted' = [m \in Signed |-> Never] /\ noted # noted'
  /\ UNCHANGED <<clock, life, row, asked, signed, inbound, decides, excused>>

\* DeviceTTL passes.
RowLapses ==
  /\ row = "paired" /\ row' = "lapsed"
  /\ UNCHANGED <<clock, life, asked, signed, noted, inbound, decides, excused>>

Second ==
  /\ clock < MaxClock /\ clock' = clock + 1
  /\ UNCHANGED <<life, row, asked, signed, noted, inbound, decides, excused>>

\* The Companion is started again: New draws another handle key, the nonces and
\* the prompts were in memory, the rows were not.
CompanionRestarts ==
  /\ life < MaxRestarts /\ life' = life + 1
  /\ asked' = {} /\ noted' = [m \in Signed |-> Never]
  /\ inbound' = [h \in Inbound |-> IdleAnswer]
  /\ UNCHANGED <<clock, row, signed, decides, excused>>

AnswersNext ==
  \/ \E k \in ChangeSets : PromptRaised(k) \/ PromptSettled(k)
  \/ \E m \in Signed, k \in ChangeSets, skew \in {-Window, 0, Window} : DeviceSigns(m, k, skew)
  \/ \E h \in Inbound, m \in Signed : AnswerArrives(h, m)
  \/ \E h \in Inbound : \/ AnswerFindsRow(h) \/ AnswerNotesNonce(h)
                        \/ AnswerFindsPrompt(h) \/ AnswerResolves(h)
  \/ RowRevoked \/ NoncesDropped \/ RowLapses \/ Second \/ CompanionRestarts

AnswersSpec == AnswersInit /\ [][AnswersNext]_answersVars

----------------------------------------------------------------------------
\* "Each answer is a signed request that is good once and for a minute": however
\* often it arrives, across clock skew, swept nonces, prompts raised again for
\* the same change set and restarts, it decides one prompt at most, unless time
\* passed or the row was revoked between its clock check and its nonce.
AnswerDecidesOnce == \A m \in Signed : decides[m] > 1 => m \in excused
=============================================================================
