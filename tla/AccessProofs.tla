---------------------------- MODULE AccessProofs ----------------------------
(***************************************************************************)
(* What is proved of the ways in: notifications at a terminal, the inbox   *)
(* and the answers of paired devices, pairing, tokens and the tunnel. Each *)
(* holds for any number of prompts, devices, requests, handlers and        *)
(* connections, and for any clock.                                         *)
(***************************************************************************)
EXTENDS Terminal, ApproverInbox, ApproverAnswers, Pairing, Tokens, Tunnel, SequenceTheorems, TLAPS

-----------------------------------------------------------------------------
(* Terminal: notifications. *)

\* The timer is one of three things, and the property is inductive as it stands.
TimerHolds == timer \in {"nil", "armed", "fired"} /\ NobodyWaitsUnannounced

\* An arrival is never left without a notification to come: whenever somebody waits, the timer is armed or its
\* flush is on the way, and flush takes all that waits.
THEOREM WhoWaitsIsAnnounced == TerminalSpec => []NobodyWaitsUnannounced
<1>1. TerminalInit => TimerHolds
  BY DEF TerminalInit, TimerHolds, NobodyWaitsUnannounced
<1>2. TimerHolds /\ [TerminalNext]_terminalVars => TimerHolds'
  <2> SUFFICES ASSUME TimerHolds, [TerminalNext]_terminalVars PROVE TimerHolds'
    OBVIOUS
  <2> USE DEF TimerHolds, NobodyWaitsUnannounced
  <2>1. ASSUME NEW p \in Shown, PromptArrives(p) PROVE TimerHolds'
    BY <2>1 DEF PromptArrives, Announce
  <2>2. CASE TimerFires
    BY <2>2 DEF TimerFires
  <2>3. CASE Flush
    BY <2>3 DEF Flush, Reset
  <2>4. ASSUME NEW p \in Shown, SettledElsewhere(p) \/ AskStarts(p) \/ AskSeesDone(p) \/ AskTakesLine(p) PROVE TimerHolds'
    BY <2>4 DEF SettledElsewhere, AskStarts, AskSeesDone, AskTakesLine
  <2>5. CASE TypeLine \/ UNCHANGED terminalVars
    BY <2>5 DEF TypeLine, terminalVars
  <2> QED
    BY <2>1, <2>2, <2>3, <2>4, <2>5 DEF TerminalNext
<1>3. TimerHolds => NobodyWaitsUnannounced
  BY DEF TimerHolds
<1> QED
  BY <1>1, <1>2, <1>3, PTL DEF TerminalSpec

-----------------------------------------------------------------------------
(* ApproverInbox: the inbox of a paired device. *)

\* The steps of a long poll.
PollStages == {"idle", "loop", "seal", "sealed", "select", "recheck"}

\* A long poll: its device, whether the channel it took was closed, whether it found anything.
PollRecords == [pc : PollStages, dev : Phones \cup {Nobody}, woken : BOOLEAN, some : BOOLEAN]

\* A poll that found the list empty, or sleeps, on a channel that is still open.
Dozes(q) == \/ poll[q].pc = "sealed" /\ ~poll[q].some /\ ~poll[q].woken
            \/ poll[q].pc = "select" /\ ~poll[q].woken

\* Every open prompt has its hook still to run.
HooksAreDue == \A p \in openPrompt : <<p, "raised">> \in hook

\* The inductive invariant of the inbox.
InboxInv ==
  /\ poll \in [Polls -> PollRecords]
  /\ \A q \in Polls : Dozes(q) => HooksAreDue

\* One poll's step, which does not touch the prompts.
LEMMA PollStep ==
  ASSUME InboxInv, NEW q \in Polls, NEW r \in PollRecords, poll' = [poll EXCEPT ![q] = r],
         UNCHANGED <<openPrompt, hook>>,
         Dozes(q)' => HooksAreDue
  PROVE  InboxInv'
<1>1. poll' \in [Polls -> PollRecords]
  BY DEF InboxInv
<1>2. \A x \in Polls : x # q => poll'[x] = poll[x]
  BY DEF InboxInv
<1>3. HooksAreDue' <=> HooksAreDue
  BY DEF HooksAreDue
<1>4. \A x \in Polls : x # q => (Dozes(x)' => Dozes(x))
  BY <1>2 DEF Dozes
<1> QED
  BY <1>1, <1>3, <1>4 DEF InboxInv

\* Wake leaves nobody dozing.
LEMMA WakeWakes ==
  ASSUME InboxInv, Wake PROVE poll' \in [Polls -> PollRecords] /\ \A q \in Polls : ~Dozes(q)'
<1>1. ASSUME NEW q \in Polls, poll[q].pc \in {"seal", "sealed", "select"} PROVE poll'[q] \in PollRecords /\ ~Dozes(q)'
  <2>1. poll'[q] = [poll[q] EXCEPT !.woken = TRUE] /\ poll[q] \in PollRecords
    BY <1>1 DEF Wake, InboxInv
  <2>2. poll'[q] \in PollRecords /\ poll'[q].woken
    BY <2>1 DEF PollRecords
  <2> QED
    BY <2>2 DEF Dozes
<1>2. ASSUME NEW q \in Polls, poll[q].pc \notin {"seal", "sealed", "select"} PROVE poll'[q] \in PollRecords /\ ~Dozes(q)'
  BY <1>2 DEF Wake, InboxInv, Dozes
<1>3. poll' = [q \in Polls |-> poll'[q]]
  BY DEF Wake
<1> QED
  BY <1>1, <1>2, <1>3

\* A poll that sleeps while a prompt is open is about to be woken: it took the channel before it read the list,
\* and wake closes the channel that is current when the prompt is raised.
THEOREM NoWakeUpIsLost == InboxSpec => []PollsAreWoken
<1>1. InboxInit => InboxInv
  BY DEF InboxInit, InboxInv, IdlePoll, PollRecords, PollStages, Dozes
<1>2. InboxInv /\ [InboxNext]_inboxVars => InboxInv'
  <2> SUFFICES ASSUME InboxInv, [InboxNext]_inboxVars PROVE InboxInv'
    OBVIOUS
  <2>k. ASSUME UNCHANGED <<openPrompt, hook, poll>> PROVE InboxInv'
    BY <2>k DEF InboxInv, Dozes, HooksAreDue
  <2>1. ASSUME NEW c \in PairCodes, Pair(c) \/ CodeLapses(c) \/ \E h \in Claims : ClaimTakesCode(h, c) PROVE InboxInv'
    BY <2>1, <2>k DEF Pair, CodeLapses, ClaimTakesCode, pollVars
  <2>2. ASSUME NEW h \in Claims, NEW d \in Phones, ClaimStores(h, d) PROVE InboxInv'
    BY <2>2, <2>k DEF ClaimStores, pollVars
  <2>3. ASSUME NEW d \in Phones, PhoneLapses(d) \/ Revoke(d) \/ PushSet(d) \/ PushWithdrawn(d) PROVE InboxInv'
    BY <2>3, <2>k DEF PhoneLapses, Revoke, PushSet, PushWithdrawn, pollVars
  <2>4. ASSUME NEW d \in Phones, RevokeWakes(d) PROVE InboxInv'
    BY <2>4, WakeWakes DEF RevokeWakes, InboxInv
  <2>5. ASSUME NEW n \in 1 .. MaxSubs, ServiceDrops(n) PROVE InboxInv'
    BY <2>5, <2>k DEF ServiceDrops, pollVars
  <2>6. ASSUME NEW g \in Pushes, PushReturns(g) PROVE InboxInv'
    BY <2>6, <2>k DEF PushReturns, pollVars
  <2>7. ASSUME NEW p \in Prompts, Raise(p) \/ Settle(p) PROVE InboxInv'
    <3>1. UNCHANGED poll
      BY <2>7 DEF Raise, Settle
    <3>2. HooksAreDue => HooksAreDue'
      BY <2>7 DEF Raise, Settle, HooksAreDue
    <3> QED
      BY <3>1, <3>2 DEF InboxInv, Dozes
  <2>8. ASSUME NEW e \in Prompts \X {"raised", "settled"}, HookRuns(e) PROVE InboxInv'
    BY <2>8, WakeWakes DEF HookRuns, InboxInv
  <2>9. ASSUME NEW q \in Polls, NEW d \in Phones, PollArrives(q, d) PROVE InboxInv'
    <3>1. PICK r \in PollRecords : r.pc = "loop" /\ poll' = [poll EXCEPT ![q] = r]
      BY <2>9 DEF PollArrives, PollRecords, PollStages
    <3>2. ~Dozes(q)'
      BY <3>1 DEF InboxInv, Dozes
    <3> QED
      BY <2>9, <3>1, <3>2, PollStep DEF PollArrives
  <2>p. ASSUME NEW q \in Polls
        PROVE  poll[q] \in PollRecords
    BY DEF InboxInv
  <2>i. ASSUME NEW q \in Polls, poll' = [poll EXCEPT ![q] = IdlePoll], UNCHANGED <<openPrompt, hook>> PROVE InboxInv'
    <3>1. IdlePoll \in PollRecords /\ IdlePoll.pc = "idle"
      BY DEF IdlePoll, PollRecords, PollStages
    <3>2. ~Dozes(q)'
      BY <2>i, <3>1 DEF InboxInv, Dozes
    <3> QED
      BY <2>i, <3>1, <3>2, PollStep
  <2>s. ASSUME NEW q \in Polls, poll' = [poll EXCEPT ![q] = poll'[q]], poll'[q] \in PollRecords,
               UNCHANGED <<openPrompt, hook>>, Dozes(q)' => HooksAreDue
        PROVE  InboxInv'
    BY <2>s, PollStep
  <2>10. ASSUME NEW q \in Polls, PollTakesChannel(q) PROVE InboxInv'
    <3>1. poll'[q] = [poll[q] EXCEPT !.pc = "seal"] /\ poll' = [poll EXCEPT ![q] = poll'[q]] /\ UNCHANGED <<openPrompt, hook>>
      BY <2>10 DEF PollTakesChannel, InboxInv
    <3>2. poll'[q] \in PollRecords /\ poll'[q].pc = "seal"
      BY <2>p, <3>1 DEF PollRecords, PollStages
    <3> QED
      BY <2>s, <3>1, <3>2 DEF Dozes
  <2>11. ASSUME NEW q \in Polls, PollSeals(q) PROVE InboxInv'
    <3>1. PICK b \in BOOLEAN : b <=> openPrompt # {}
      OBVIOUS
    <3>2. /\ poll'[q] = [poll[q] EXCEPT !.pc = "sealed", !.some = b]
          /\ poll' = [poll EXCEPT ![q] = poll'[q]] /\ UNCHANGED <<openPrompt, hook>>
      BY <2>11, <3>1 DEF PollSeals, InboxInv
    <3>3. poll'[q] \in PollRecords /\ poll'[q].pc = "sealed" /\ (poll'[q].some <=> b)
      BY <2>p, <3>2 DEF PollRecords, PollStages
    <3> QED
      BY <2>s, <3>1, <3>2, <3>3 DEF Dozes, HooksAreDue
  <2>12. ASSUME NEW q \in Polls, PollAnswers(q) PROVE InboxInv'
    <3>1. CASE poll' = [poll EXCEPT ![q] = IdlePoll]
      BY <2>i, <2>12, <3>1 DEF PollAnswers
    <3>2. CASE ~poll[q].some /\ poll' = [poll EXCEPT ![q] = Sleeps(q)]
      <4>1. /\ poll'[q] = [poll[q] EXCEPT !.pc = "select"] /\ poll' = [poll EXCEPT ![q] = poll'[q]]
            /\ poll[q].pc = "sealed" /\ UNCHANGED <<openPrompt, hook>>
        BY <2>12, <3>2 DEF PollAnswers, Sleeps, InboxInv
      <4>2. poll'[q] \in PollRecords /\ poll'[q].pc = "select" /\ poll'[q].woken = poll[q].woken
        BY <2>p, <4>1 DEF PollRecords, PollStages
      <4> QED
        BY <2>s, <3>2, <4>1, <4>2 DEF Dozes, InboxInv
    <3> QED
      BY <2>12, <3>1, <3>2 DEF PollAnswers
  <2>13. ASSUME NEW q \in Polls, PollWakes(q) PROVE InboxInv'
    <3>1. CASE poll' = [poll EXCEPT ![q] = IdlePoll]
      BY <2>i, <2>13, <3>1 DEF PollWakes
    <3>2. CASE poll' = [poll EXCEPT ![q].pc = "recheck", ![q].woken = FALSE]
      <4>1. poll'[q] = [poll[q] EXCEPT !.pc = "recheck", !.woken = FALSE] /\ poll' = [poll EXCEPT ![q] = poll'[q]]
        BY <3>2 DEF InboxInv
      <4>2. poll'[q] \in PollRecords /\ poll'[q].pc = "recheck"
        BY <2>p, <4>1 DEF PollRecords, PollStages
      <4> QED
        BY <2>13, <2>s, <4>1, <4>2 DEF Dozes, PollWakes
    <3> QED
      BY <2>13, <3>1, <3>2 DEF PollWakes
  <2>14. ASSUME NEW q \in Polls, PollRechecks(q) PROVE InboxInv'
    <3>1. CASE poll' = [poll EXCEPT ![q] = IdlePoll]
      BY <2>i, <2>14, <3>1 DEF PollRechecks
    <3>2. CASE poll' = [poll EXCEPT ![q] = [poll[q] EXCEPT !.pc = "loop"]]
      <4>1. poll'[q] = [poll[q] EXCEPT !.pc = "loop"] /\ poll' = [poll EXCEPT ![q] = poll'[q]]
        BY <3>2 DEF InboxInv
      <4>2. poll'[q] \in PollRecords /\ poll'[q].pc = "loop"
        BY <2>p, <4>1 DEF PollRecords, PollStages
      <4> QED
        BY <2>14, <2>s, <4>1, <4>2 DEF Dozes, PollRechecks
    <3> QED
      BY <2>14, <3>1, <3>2 DEF PollRechecks
  <2>15. CASE UNCHANGED inboxVars
    BY <2>15, <2>k DEF inboxVars
  <2> QED
    BY <2>1, <2>2, <2>3, <2>4, <2>5, <2>6, <2>7, <2>8, <2>9, <2>10, <2>11, <2>12, <2>13, <2>14, <2>15 DEF InboxNext
<1>3. InboxInv => PollsAreWoken
  BY DEF InboxInv, PollsAreWoken, Dozes, HooksAreDue
<1> QED
  BY <1>1, <1>2, <1>3, PTL DEF InboxSpec

-----------------------------------------------------------------------------
(* ApproverAnswers: answers that are signed. *)

\* The answer of a call that has none.
AnyAnswer == CHOOSE m \in Signed : TRUE

\* The change set of an answer that is not signed.
AnySet == CHOOSE k \in ChangeSets : TRUE

\* The steps of handling a device's answer.
AnswerStages == {"idle", "row", "nonce", "find", "resolve"}

\* A request of a device that is being handled.
InboundRecords == [pc : AnswerStages, m : Signed \cup {AnyAnswer}, at : Nat]

\* An answer as it was signed.
SignedRecords == [cs : ChangeSets \cup {AnySet}, life : Int, ts : Int]

\* The types of the state.
AnswersTypeOK ==
  /\ clock \in Nat /\ life \in Nat /\ row \in {"paired", "lapsed", "revoked"}
  /\ signed \in [Signed -> SignedRecords]
  /\ noted \in [Signed -> Int]
  /\ inbound \in [Inbound -> InboundRecords]
  /\ decides \in [Signed -> Nat]

\* A request that is being handled was signed, and was in its window when it arrived.
InFlight(h) ==
  inbound[h].pc # "idle" =>
    /\ inbound[h].m \in Signed
    /\ signed[inbound[h].m].life >= 0
    /\ inbound[h].at <= clock
    /\ inbound[h].at - signed[inbound[h].m].ts <= Window
    /\ signed[inbound[h].m].ts - inbound[h].at <= Window

\* What is signed was signed in this run of the Companion or an earlier one; what was
\* noted, or has decided something, was signed.
SignedSane(m) ==
  /\ signed[m] = Unsigned \/ signed[m].life >= 0
  /\ signed[m].life <= life
  /\ signed[m].life < 0 => noted[m] = Never /\ decides[m] = 0
  /\ noted[m] # Never => 0 <= noted[m] /\ noted[m] <= clock /\ signed[m].ts - noted[m] <= Window

\* Call h is past the nonce with m.
Past(h, m) == inbound[h].m = m /\ inbound[h].pc \in {"find", "resolve"}

\* m has decided, or is about to.
WasUsed(m) == decides[m] > 0 \/ \E h \in Inbound : Past(h, m)

\* One use of m at most, and while it lasts the nonce is remembered or m's window over.
UsedOnce(m) ==
  /\ decides[m] <= 1
  /\ decides[m] = 1 /\ signed[m].life = life => \A h \in Inbound : ~Past(h, m)
  /\ signed[m].life = life => \A h, g \in Inbound : Past(h, m) /\ Past(g, m) => h = g
  /\ WasUsed(m) /\ signed[m].life = life /\ row # "revoked" => noted[m] # Never \/ clock > signed[m].ts + Window

\* The inductive invariant of the answers of paired devices.
AnswersInv ==
  /\ AnswersTypeOK
  /\ \A h \in Inbound : InFlight(h) /\ (inbound[h].pc = "resolve" => signed[inbound[h].m].life = life)
  /\ \A m \in Signed : SignedSane(m)
  /\ \A m \in Signed : m \notin excused => UsedOnce(m)

\* A call's step that leaves everything else alone and takes no nonce.
LEMMA CallStep ==
  ASSUME AnswersInv, NEW h \in Inbound, NEW r \in InboundRecords, inbound' = [inbound EXCEPT ![h] = r],
         UNCHANGED <<clock, life, row, signed, noted, decides, excused>>,
         InFlight(h)', r.pc = "resolve" => signed[r.m].life = life,
         r.pc \in {"find", "resolve"} => inbound[h].pc \in {"find", "resolve"} /\ r.m = inbound[h].m
  PROVE  AnswersInv'
<1>1. inbound' \in [Inbound -> InboundRecords] /\ inbound'[h] = r /\ \A g \in Inbound : g # h => inbound'[g] = inbound[g]
  BY DEF AnswersInv, AnswersTypeOK
<1>2. AnswersTypeOK'
  BY <1>1 DEF AnswersInv, AnswersTypeOK
<1>3. \A g \in Inbound : InFlight(g)' /\ (inbound'[g].pc = "resolve" => signed'[inbound'[g].m].life = life')
  BY <1>1 DEF AnswersInv, InFlight
<1>4. \A m \in Signed : SignedSane(m)'
  BY DEF AnswersInv, SignedSane
<1>5. \A m \in Signed, g \in Inbound : Past(g, m)' => Past(g, m)
  BY <1>1 DEF Past
<1>6. \A m \in Signed : m \notin excused => UsedOnce(m)'
  <2> SUFFICES ASSUME NEW m \in Signed, m \notin excused PROVE UsedOnce(m)'
    OBVIOUS
  <2>1. WasUsed(m)' => WasUsed(m)
    BY <1>5 DEF WasUsed
  <2>2. UsedOnce(m)
    BY DEF AnswersInv
  <2> QED
    BY <1>5, <2>1, <2>2 DEF UsedOnce
<1> QED
  BY <1>2, <1>3, <1>4, <1>6 DEF AnswersInv

\* The idle call.
LEMMA IdleIsIdle == IdleAnswer \in InboundRecords /\ IdleAnswer.pc = "idle"
BY DEF IdleAnswer, InboundRecords, AnswerStages, AnyAnswer

\* noteNonce accepts a nonce again only for an answer that is excused, or that can decide
\* nothing any more: within the answer's own window the nonce has not been swept yet.
LEMMA NonceIsRemembered ==
  ASSUME AnswersInv, NEW h \in Inbound, NEW m \in Signed, inbound[h].m = m, inbound[h].pc = "nonce",
         m \notin excused, clock = inbound[h].at, row # "revoked", signed[m].life = life,
         SweptNonces(noted, inbound[h].at)[m] = Never
  PROVE  ~WasUsed(m)
<1>1. /\ inbound[h].at - signed[m].ts <= Window /\ inbound[h].at \in Nat /\ clock \in Nat
      /\ signed[m].ts \in Int /\ noted[m] \in Int /\ Window \in Nat
  BY AnswersAssumption DEF AnswersInv, AnswersTypeOK, InFlight, InboundRecords, SignedRecords
<1>2. noted[m] # Never => signed[m].ts - noted[m] <= Window
  BY DEF AnswersInv, SignedSane
<1>3. WasUsed(m) => noted[m] # Never
  BY <1>1 DEF AnswersInv, UsedOnce
<1>4. noted[m] # Never => ~(inbound[h].at - noted[m] > 2 * Window)
  BY <1>1, <1>2
<1>5. noted[m] # Never => SweptNonces(noted, inbound[h].at)[m] = noted[m]
  BY <1>4 DEF SweptNonces
<1> QED
  BY <1>3, <1>5

\* One signed answer decides one prompt once, however often and however late it arrives: within its window the
\* nonce is remembered, since a sweep keeps twice the window, and after it checkTimestamp refuses it.
THEOREM AnsweredOnce == AnswersSpec => []AnswerDecidesOnce
<1>1. AnswersInit => AnswersInv
  <2> SUFFICES ASSUME AnswersInit PROVE AnswersInv
    OBVIOUS
  <2>1. /\ \A m \in Signed : signed[m] = Unsigned /\ noted[m] = Never /\ decides[m] = 0
        /\ \A h \in Inbound : inbound[h] = IdleAnswer
    BY DEF AnswersInit
  <2>2. Unsigned \in SignedRecords /\ Unsigned.life = -1 /\ Never \in Int
    BY DEF Unsigned, SignedRecords, AnySet, Never
  <2>3. AnswersTypeOK
    BY <2>2, IdleIsIdle DEF AnswersInit, AnswersTypeOK
  <2>4. \A h \in Inbound : InFlight(h) /\ inbound[h].pc # "resolve"
    BY <2>1, IdleIsIdle DEF InFlight
  <2>5. \A m \in Signed : SignedSane(m)
    BY <2>1, <2>2 DEF SignedSane, AnswersInit
  <2>6. \A m \in Signed : ~WasUsed(m) /\ \A h \in Inbound : ~Past(h, m)
    BY <2>1, IdleIsIdle DEF WasUsed, Past
  <2>7. \A m \in Signed : UsedOnce(m)
    BY <2>1, <2>6 DEF UsedOnce
  <2> QED
    BY <2>3, <2>4, <2>5, <2>7 DEF AnswersInv
<1>2. AnswersInv /\ [AnswersNext]_answersVars => AnswersInv'
  <2> SUFFICES ASSUME AnswersInv, [AnswersNext]_answersVars PROVE AnswersInv'
    OBVIOUS
  <2>0. /\ \A h \in Inbound : inbound[h] \in InboundRecords
        /\ \A m \in Signed : signed[m] \in SignedRecords
    BY DEF AnswersInv, AnswersTypeOK
  <2>k. ASSUME UNCHANGED <<clock, life, row, signed, noted, inbound, decides, excused>> PROVE AnswersInv'
    BY <2>k DEF AnswersInv, AnswersTypeOK, InFlight, SignedSane, UsedOnce, WasUsed, Past
  <2>1. ASSUME NEW k \in ChangeSets, PromptRaised(k) \/ PromptSettled(k) PROVE AnswersInv'
    BY <2>k, <2>1 DEF PromptRaised, PromptSettled
  <2>2. ASSUME NEW m \in Signed, NEW k \in ChangeSets, NEW skew \in {-Window, 0, Window}, DeviceSigns(m, k, skew)
        PROVE  AnswersInv'
    <3>1. PICK ts \in Int : ts = clock + skew
      BY AnswersAssumption DEF AnswersInv, AnswersTypeOK
    <3>2. PICK r \in SignedRecords : r = [cs |-> k, life |-> life, ts |-> ts] /\ r.life = life /\ r.ts = ts
      <4>1. [cs |-> k, life |-> life, ts |-> ts] \in SignedRecords
        BY DEF AnswersInv, AnswersTypeOK, SignedRecords
      <4> QED
        BY <4>1
    <3>3. /\ signed' = [signed EXCEPT ![m] = r] /\ signed[m] = Unsigned
          /\ UNCHANGED <<clock, life, row, noted, inbound, decides, excused>>
      BY <2>2, <3>1, <3>2 DEF DeviceSigns
    <3>4. signed[m].life = -1
      BY <3>3 DEF Unsigned
    <3>5. /\ signed' \in [Signed -> SignedRecords] /\ signed'[m] = r
          /\ \A x \in Signed : x # m => signed'[x] = signed[x]
      BY <3>3 DEF AnswersInv, AnswersTypeOK
    <3>6. noted[m] = Never /\ decides[m] = 0
      BY <3>4 DEF AnswersInv, SignedSane
    <3>7. \A h \in Inbound : inbound[h].pc # "idle" => inbound[h].m # m
      BY <3>4 DEF AnswersInv, InFlight
    <3>8. AnswersTypeOK'
      BY <3>3, <3>5 DEF AnswersInv, AnswersTypeOK
    <3>9. \A h \in Inbound : InFlight(h)' /\ (inbound'[h].pc = "resolve" => signed'[inbound'[h].m].life = life')
      <4> SUFFICES ASSUME NEW h \in Inbound, inbound[h].pc # "idle"
                   PROVE  InFlight(h)' /\ (inbound[h].pc = "resolve" => signed'[inbound[h].m].life = life)
        BY <3>3 DEF InFlight
      <4>1. inbound[h].m \in Signed
        BY DEF AnswersInv, InFlight
      <4>2. signed'[inbound[h].m] = signed[inbound[h].m]
        BY <3>5, <3>7, <4>1
      <4> QED
        BY <3>3, <4>2 DEF AnswersInv, InFlight
    <3>10. \A x \in Signed : SignedSane(x)'
      BY <3>2, <3>3, <3>5, <3>6 DEF AnswersInv, AnswersTypeOK, SignedSane
    <3>11. \A x \in Signed : x \notin excused => UsedOnce(x)'
      <4>1. \A x \in Signed, h \in Inbound : Past(h, x)' <=> Past(h, x)
        BY <3>3 DEF Past
      <4>2. \A x \in Signed : WasUsed(x)' <=> WasUsed(x)
        BY <3>3, <4>1 DEF WasUsed
      <4>3. \A h \in Inbound : ~Past(h, m)
        BY <3>7 DEF Past
      <4>4. ~WasUsed(m)
        BY <3>6, <4>3 DEF WasUsed
      <4>5. UsedOnce(m)'
        BY <3>3, <3>6, <4>1, <4>2, <4>3, <4>4 DEF UsedOnce
      <4>6. ASSUME NEW x \in Signed, x # m, UsedOnce(x) PROVE UsedOnce(x)'
        BY <3>3, <3>5, <4>1, <4>2, <4>6 DEF UsedOnce
      <4> QED
        BY <4>5, <4>6 DEF AnswersInv
    <3> QED
      BY <3>3, <3>8, <3>9, <3>10, <3>11 DEF AnswersInv
  <2>3. ASSUME NEW h \in Inbound, NEW m \in Signed, AnswerArrives(h, m) PROVE AnswersInv'
    <3>1. PICK r \in InboundRecords : r = [pc |-> "row", m |-> m, at |-> clock] /\ r.pc = "row" /\ r.m = m /\ r.at = clock
      <4>1. [pc |-> "row", m |-> m, at |-> clock] \in InboundRecords
        BY DEF AnswersInv, AnswersTypeOK, InboundRecords, AnswerStages
      <4> QED
        BY <4>1
    <3>2. inbound' = [inbound EXCEPT ![h] = r] /\ UNCHANGED <<clock, life, row, signed, noted, decides, excused>>
      BY <2>3, <3>1 DEF AnswerArrives
    <3>3. inbound'[h] = r
      BY <3>2 DEF AnswersInv, AnswersTypeOK
    <3>4. signed[m].life >= 0
      <4>1. signed[m] # Unsigned
        BY <2>3 DEF AnswerArrives
      <4> QED
        BY <4>1 DEF AnswersInv, SignedSane
    <3>5. InFlight(h)'
      BY <2>0, <2>3, <3>1, <3>2, <3>3, <3>4 DEF InFlight, AnswerArrives, InWindow, AnswersInv, AnswersTypeOK
    <3> QED
      BY <3>1, <3>2, <3>5, CallStep
  <2>i. ASSUME NEW h \in Inbound, inbound' = [inbound EXCEPT ![h] = IdleAnswer],
               UNCHANGED <<clock, life, row, signed, noted, decides, excused>>
        PROVE  AnswersInv'
    <3>1. inbound'[h] = IdleAnswer
      BY <2>i DEF AnswersInv, AnswersTypeOK
    <3>2. InFlight(h)'
      BY <3>1, IdleIsIdle DEF InFlight
    <3> QED
      BY <2>i, <3>2, IdleIsIdle, CallStep
  <2>4. ASSUME NEW h \in Inbound, AnswerFindsRow(h) PROVE AnswersInv'
    <3>1. CASE inbound' = [inbound EXCEPT ![h] = IdleAnswer]
      BY <2>i, <2>4, <3>1 DEF AnswerFindsRow
    <3>2. CASE inbound' = [inbound EXCEPT ![h] = [inbound[h] EXCEPT !.pc = "nonce"]]
      <4>1. inbound'[h] = [inbound[h] EXCEPT !.pc = "nonce"] /\ inbound' = [inbound EXCEPT ![h] = inbound'[h]]
        BY <3>2 DEF AnswersInv, AnswersTypeOK
      <4>2. /\ inbound'[h] \in InboundRecords /\ inbound'[h].pc = "nonce"
            /\ inbound'[h].m = inbound[h].m /\ inbound'[h].at = inbound[h].at
        BY <2>0, <4>1 DEF InboundRecords, AnswerStages
      <4>3. inbound[h].pc = "row" /\ UNCHANGED <<clock, life, row, signed, noted, decides, excused>>
        BY <2>4 DEF AnswerFindsRow
      <4>4. InFlight(h)'
        BY <4>2, <4>3 DEF AnswersInv, InFlight
      <4> QED
        BY <4>1, <4>2, <4>3, <4>4, CallStep
    <3> QED
      BY <2>4, <3>1, <3>2 DEF AnswerFindsRow
  <2>5. ASSUME NEW h \in Inbound, AnswerFindsPrompt(h) PROVE AnswersInv'
    <3>1. CASE inbound' = [inbound EXCEPT ![h] = IdleAnswer]
      BY <2>i, <2>5, <3>1 DEF AnswerFindsPrompt
    <3>2. CASE /\ inbound' = [inbound EXCEPT ![h] = [inbound[h] EXCEPT !.pc = "resolve"]]
               /\ \E k \in asked : HandleMatches(inbound[h].m, k)
      <4>1. inbound'[h] = [inbound[h] EXCEPT !.pc = "resolve"] /\ inbound' = [inbound EXCEPT ![h] = inbound'[h]]
        BY <3>2 DEF AnswersInv, AnswersTypeOK
      <4>2. /\ inbound'[h] \in InboundRecords /\ inbound'[h].pc = "resolve"
            /\ inbound'[h].m = inbound[h].m /\ inbound'[h].at = inbound[h].at
        BY <2>0, <4>1 DEF InboundRecords, AnswerStages
      <4>3. inbound[h].pc = "find" /\ UNCHANGED <<clock, life, row, signed, noted, decides, excused>>
        BY <2>5 DEF AnswerFindsPrompt
      <4>4. InFlight(h)' /\ signed[inbound'[h].m].life = life
        BY <3>2, <4>2, <4>3 DEF AnswersInv, InFlight, HandleMatches
      <4> QED
        BY <4>1, <4>2, <4>3, <4>4, CallStep
    <3> QED
      BY <2>5, <3>1, <3>2 DEF AnswerFindsPrompt
  <2>6. ASSUME NEW h \in Inbound, AnswerNotesNonce(h) PROVE AnswersInv'
    <3>1. PICK m \in Signed : m = inbound[h].m
      BY <2>6 DEF AnswerNotesNonce, AnswersInv, InFlight
    <3>2. PICK at \in Nat : at = inbound[h].at
      BY <2>0 DEF InboundRecords
    <3>3. PICK seen : seen = SweptNonces(noted, at)
      OBVIOUS
    <3>4. /\ clock \in Nat /\ Window \in Nat /\ noted \in [Signed -> Int] /\ Never \in Int /\ Never < 0
          /\ \A x \in Signed : signed[x].ts \in Int /\ noted[x] \in Int
      BY <2>0, AnswersAssumption DEF AnswersInv, AnswersTypeOK, SignedRecords, Never
    <3>5. /\ seen \in [Signed -> Int]
          /\ \A x \in Signed : seen[x] = noted[x] \/ (seen[x] = Never /\ at - noted[x] > 2 * Window)
      BY <3>3, <3>4 DEF SweptNonces
    <3>6. /\ inbound[h].pc = "nonce" /\ UNCHANGED <<clock, life, row, signed, decides>>
          /\ excused \subseteq excused'
          /\ m \notin excused' => clock = at /\ row # "revoked"
      BY <2>6, <3>1, <3>2 DEF AnswerNotesNonce
    <3>7. /\ at <= clock /\ at - signed[m].ts <= Window /\ signed[m].ts - at <= Window /\ signed[m].life >= 0
      BY <3>1, <3>2, <3>6 DEF AnswersInv, InFlight
    <3>8. \A x \in Signed : noted[x] # Never \/ clock > signed[x].ts + Window => seen[x] # Never \/ clock > signed[x].ts + Window
      <4> SUFFICES ASSUME NEW x \in Signed, noted[x] # Never, seen[x] # noted[x] PROVE clock > signed[x].ts + Window
        BY <3>5
      <4>1. signed[x].ts - noted[x] <= Window
        BY DEF AnswersInv, SignedSane
      <4>2. at - noted[x] > 2 * Window
        BY <3>5
      <4> QED
        BY <3>4, <3>7, <4>1, <4>2
    <3>9. \A x \in Signed : SignedSane(x) /\ (UsedOnce(x) \/ x \in excused)
      BY DEF AnswersInv
    <3>10. CASE seen[m] # Never
      <4>1. noted' = seen /\ inbound' = [inbound EXCEPT ![h] = IdleAnswer]
        BY <2>6, <3>1, <3>2, <3>3, <3>10 DEF AnswerNotesNonce
      <4>2. /\ inbound' \in [Inbound -> InboundRecords] /\ inbound'[h] = IdleAnswer
            /\ \A g \in Inbound : g # h => inbound'[g] = inbound[g]
        BY <4>1, IdleIsIdle DEF AnswersInv, AnswersTypeOK
      <4>3. AnswersTypeOK'
        BY <3>5, <3>6, <4>1, <4>2 DEF AnswersInv, AnswersTypeOK
      <4>4. \A g \in Inbound : InFlight(g)' /\ (inbound'[g].pc = "resolve" => signed'[inbound'[g].m].life = life')
        BY <3>6, <4>2, IdleIsIdle DEF AnswersInv, InFlight
      <4>5. \A x \in Signed : SignedSane(x)'
        BY <3>5, <3>6, <4>1 DEF AnswersInv, SignedSane
      <4>6. \A x \in Signed, g \in Inbound : Past(g, x)' => Past(g, x)
        BY <4>2, IdleIsIdle DEF Past
      <4>7. \A x \in Signed : x \notin excused' => UsedOnce(x)'
        <5> SUFFICES ASSUME NEW x \in Signed, x \notin excused PROVE UsedOnce(x)'
          BY <3>6
        <5>1. UsedOnce(x) /\ (WasUsed(x)' => WasUsed(x))
          BY <3>6, <4>6 DEF AnswersInv, WasUsed
        <5> QED
          BY <3>6, <3>8, <4>1, <4>6, <5>1 DEF UsedOnce
      <4> QED
        BY <4>3, <4>4, <4>5, <4>7 DEF AnswersInv
    <3>11. CASE seen[m] = Never
      <4>1. noted' = [seen EXCEPT ![m] = at] /\ inbound' = [inbound EXCEPT ![h].pc = "find"]
        BY <2>6, <3>1, <3>2, <3>3, <3>11 DEF AnswerNotesNonce
      <4>2. inbound'[h] = [inbound[h] EXCEPT !.pc = "find"] /\ inbound' = [inbound EXCEPT ![h] = inbound'[h]]
        BY <4>1 DEF AnswersInv, AnswersTypeOK
      <4>3. inbound'[h] \in InboundRecords /\ inbound'[h].pc = "find" /\ inbound'[h].m = m /\ inbound'[h].at = at
        BY <2>0, <3>1, <3>2, <4>2 DEF InboundRecords, AnswerStages
      <4>4. inbound' \in [Inbound -> InboundRecords] /\ \A g \in Inbound : g # h => inbound'[g] = inbound[g]
        BY <4>2, <4>3 DEF AnswersInv, AnswersTypeOK
      <4>5. noted' \in [Signed -> Int] /\ noted'[m] = at /\ \A x \in Signed : x # m => noted'[x] = seen[x]
        BY <3>5, <4>1
      <4>6. AnswersTypeOK'
        BY <3>6, <4>4, <4>5 DEF AnswersInv, AnswersTypeOK
      <4>7. \A g \in Inbound : InFlight(g)' /\ (inbound'[g].pc = "resolve" => signed'[inbound'[g].m].life = life')
        BY <3>6, <3>7, <4>3, <4>4 DEF AnswersInv, InFlight
      <4>8. \A x \in Signed : SignedSane(x)'
        <5>1. SignedSane(m)'
          <6>1. signed[m].life \in Int
            BY <2>0 DEF SignedRecords
          <6> QED
            BY <3>4, <3>6, <3>7, <4>5, <6>1 DEF AnswersInv, SignedSane
        <5>2. ASSUME NEW x \in Signed, x # m PROVE SignedSane(x)'
          BY <3>5, <3>6, <4>5, <5>2 DEF AnswersInv, SignedSane
        <5> QED
          BY <5>1, <5>2
      <4>9. \A x \in Signed, g \in Inbound : Past(g, x)' => Past(g, x) \/ (g = h /\ x = m)
        BY <4>3, <4>4 DEF Past
      <4>10. \A x \in Signed : x # m /\ x \notin excused => UsedOnce(x)'
        <5> SUFFICES ASSUME NEW x \in Signed, x # m, x \notin excused PROVE UsedOnce(x)'
          OBVIOUS
        <5>1. UsedOnce(x) /\ (WasUsed(x)' => WasUsed(x))
          BY <3>6, <4>9 DEF AnswersInv, WasUsed
        <5> QED
          BY <3>6, <3>8, <4>5, <4>9, <5>1 DEF UsedOnce
      <4>11. ASSUME m \notin excused' PROVE UsedOnce(m)'
        <5>1. UsedOnce(m) /\ clock = at /\ row # "revoked" /\ m \notin excused
          BY <3>6, <4>11 DEF AnswersInv
        <5>2. signed[m].life = life => ~WasUsed(m)
          BY <3>1, <3>2, <3>3, <3>6, <3>11, <5>1, NonceIsRemembered
        <5>3. noted'[m] # Never
          BY <3>4, <4>5
        <5> QED
          BY <3>6, <4>9, <5>1, <5>2, <5>3 DEF UsedOnce, WasUsed
      <4> QED
        BY <3>6, <4>6, <4>7, <4>8, <4>10, <4>11 DEF AnswersInv
    <3> QED
      BY <3>10, <3>11
  <2>7. ASSUME NEW h \in Inbound, AnswerResolves(h) PROVE AnswersInv'
    <3>1. PICK m \in Signed : m = inbound[h].m
      BY <2>7 DEF AnswerResolves, AnswersInv, InFlight
    <3>2. /\ inbound[h].pc = "resolve" /\ inbound' = [inbound EXCEPT ![h] = IdleAnswer]
          /\ UNCHANGED <<clock, life, row, signed, noted, excused>>
          /\ decides' = decides \/ decides' = [decides EXCEPT ![m] = @ + 1]
      BY <2>7, <3>1 DEF AnswerResolves
    <3>3. CASE decides' = decides
      BY <2>i, <3>2, <3>3
    <3>4. CASE decides' = [decides EXCEPT ![m] = @ + 1]
      <4>1. /\ inbound' \in [Inbound -> InboundRecords] /\ inbound'[h] = IdleAnswer
            /\ \A g \in Inbound : g # h => inbound'[g] = inbound[g]
        BY <3>2, IdleIsIdle DEF AnswersInv, AnswersTypeOK
      <4>2. decides[m] \in Nat /\ decides[m] + 1 \in Nat
        BY DEF AnswersInv, AnswersTypeOK
      <4>3. /\ decides' \in [Signed -> Nat] /\ decides'[m] = decides[m] + 1
            /\ \A x \in Signed : x # m => decides'[x] = decides[x]
        BY <3>4, <4>2 DEF AnswersInv, AnswersTypeOK
      <4>4. AnswersTypeOK'
        BY <3>2, <4>1, <4>3 DEF AnswersInv, AnswersTypeOK
      <4>5. \A g \in Inbound : InFlight(g)' /\ (inbound'[g].pc = "resolve" => signed'[inbound'[g].m].life = life')
        BY <3>2, <4>1, IdleIsIdle DEF AnswersInv, InFlight
      <4>6. signed[m].life = life /\ signed[m].life >= 0 /\ signed[m].life \in Int
        BY <2>0, <3>1, <3>2 DEF AnswersInv, InFlight, SignedRecords
      <4>7. \A x \in Signed : SignedSane(x)'
        BY <3>2, <4>3, <4>6 DEF AnswersInv, SignedSane
      <4>8. \A x \in Signed, g \in Inbound : Past(g, x)' => Past(g, x) /\ g # h
        BY <4>1, IdleIsIdle DEF Past
      <4>9. Past(h, m)
        BY <3>1, <3>2 DEF Past
      <4>10. \A x \in Signed : x # m /\ x \notin excused => UsedOnce(x)'
        <5> SUFFICES ASSUME NEW x \in Signed, x # m, x \notin excused PROVE UsedOnce(x)'
          OBVIOUS
        <5>1. UsedOnce(x) /\ (WasUsed(x)' => WasUsed(x))
          BY <4>3, <4>8 DEF AnswersInv, WasUsed
        <5> QED
          BY <3>2, <4>3, <4>8, <5>1 DEF UsedOnce
      <4>11. ASSUME m \notin excused PROVE UsedOnce(m)'
        <5>1. UsedOnce(m) /\ WasUsed(m)
          BY <4>9, <4>11 DEF AnswersInv, WasUsed
        <5>2. decides[m] = 0
          BY <4>2, <4>6, <4>9, <5>1 DEF UsedOnce
        <5>3. \A g \in Inbound : ~Past(g, m)'
          BY <4>6, <4>8, <4>9, <5>1 DEF UsedOnce
        <5> QED
          BY <3>2, <4>3, <5>1, <5>2, <5>3 DEF UsedOnce
      <4> QED
        BY <3>2, <4>4, <4>5, <4>7, <4>10, <4>11 DEF AnswersInv
    <3> QED
      BY <3>2, <3>3, <3>4
  <2>8. CASE RowRevoked \/ RowLapses
    <3>1. /\ row' \in {"paired", "lapsed", "revoked"} /\ row # "revoked"
          /\ UNCHANGED <<clock, life, signed, noted, inbound, decides, excused>>
      BY <2>8 DEF RowRevoked, RowLapses
    <3>2. \A m \in Signed : UsedOnce(m) => UsedOnce(m)'
      BY <3>1 DEF UsedOnce, WasUsed, Past
    <3> QED
      BY <3>1, <3>2 DEF AnswersInv, AnswersTypeOK, InFlight, SignedSane
  <2>9. CASE NoncesDropped
    <3>1. /\ row = "revoked" /\ noted' = [m \in Signed |-> Never]
          /\ UNCHANGED <<clock, life, row, signed, inbound, decides, excused>>
      BY <2>9 DEF NoncesDropped
    <3>2. \A m \in Signed : UsedOnce(m) => UsedOnce(m)'
      BY <3>1 DEF UsedOnce, WasUsed, Past
    <3>3. noted' \in [Signed -> Int] /\ \A m \in Signed : noted'[m] = Never
      BY <3>1 DEF Never
    <3> QED
      BY <3>1, <3>2, <3>3 DEF AnswersInv, AnswersTypeOK, InFlight, SignedSane
  <2>10. CASE Second
    <3>1. clock' = clock + 1 /\ UNCHANGED <<life, row, signed, noted, inbound, decides, excused>>
      BY <2>10 DEF Second
    <3>2. clock \in Nat /\ clock' \in Nat /\ Window \in Nat
      BY <3>1, AnswersAssumption DEF AnswersInv, AnswersTypeOK
    <3>3. \A m \in Signed : signed[m].ts \in Int /\ noted[m] \in Int
      BY <2>0 DEF AnswersInv, AnswersTypeOK, SignedRecords
    <3>4. \A m \in Signed : UsedOnce(m) => UsedOnce(m)'
      BY <3>1, <3>2, <3>3 DEF UsedOnce, WasUsed, Past
    <3>5. \A h \in Inbound : inbound[h].at \in Nat
      BY <2>0 DEF InboundRecords
    <3>6. \A h \in Inbound : InFlight(h) => InFlight(h)'
      BY <3>1, <3>2, <3>5 DEF InFlight
    <3>7. \A m \in Signed : SignedSane(m) => SignedSane(m)'
      BY <3>1, <3>2, <3>3 DEF SignedSane
    <3>8. AnswersTypeOK'
      BY <3>1, <3>2 DEF AnswersInv, AnswersTypeOK
    <3> QED
      BY <3>1, <3>4, <3>6, <3>7, <3>8 DEF AnswersInv
  <2>11. CASE CompanionRestarts
    <3>1. /\ life' = life + 1 /\ noted' = [m \in Signed |-> Never] /\ inbound' = [h \in Inbound |-> IdleAnswer]
          /\ UNCHANGED <<clock, row, signed, decides, excused>>
      BY <2>11 DEF CompanionRestarts
    <3>2. /\ life' \in Nat /\ noted' \in [Signed -> Int] /\ inbound' \in [Inbound -> InboundRecords]
          /\ \A m \in Signed : noted'[m] = Never
          /\ \A h \in Inbound : inbound'[h].pc = "idle"
      BY <3>1, IdleIsIdle DEF AnswersInv, AnswersTypeOK, Never
    <3>3. \A m \in Signed : signed'[m].life < life'
      <4>1. \A m \in Signed : signed[m].life <= life /\ signed[m].life \in Int /\ life \in Nat
        BY <2>0 DEF AnswersInv, SignedSane, SignedRecords, AnswersTypeOK
      <4> QED
        BY <3>1, <4>1
    <3>4. AnswersTypeOK'
      BY <3>1, <3>2 DEF AnswersInv, AnswersTypeOK
    <3>5. \A m \in Signed : UsedOnce(m) => UsedOnce(m)'
      <4>1. \A m \in Signed : signed'[m].life # life'
        <5>1. \A m \in Signed : signed'[m].life \in Int
          BY <2>0, <3>1 DEF SignedRecords
        <5> QED
          BY <3>2, <3>3, <5>1
      <4> QED
        BY <3>1, <4>1 DEF UsedOnce
    <3>6. \A m \in Signed : SignedSane(m)'
      BY <2>0, <3>1, <3>2, <3>3 DEF AnswersInv, SignedSane, SignedRecords
    <3>7. \A h \in Inbound : InFlight(h)'
      BY <3>2 DEF InFlight
    <3> QED
      BY <3>1, <3>2, <3>4, <3>5, <3>6, <3>7 DEF AnswersInv
  <2>12. CASE UNCHANGED answersVars
    BY <2>k, <2>12 DEF answersVars
  <2> QED
    BY <2>1, <2>2, <2>3, <2>4, <2>5, <2>6, <2>7, <2>8, <2>9, <2>10, <2>11, <2>12 DEF AnswersNext
<1>3. AnswersInv => AnswerDecidesOnce
  BY DEF AnswersInv, AnswersTypeOK, UsedOnce, AnswerDecidesOnce
<1> QED
  BY <1>1, <1>2, <1>3, PTL DEF AnswersSpec

-----------------------------------------------------------------------------
(* Pairing: authorization requests. *)

\* A row of the authorization requests.
RequestRows == [st : {"none", "live", "expired", "gone"}, dev : Devices \cup {NoDevice}]

\* A form of the authorize page that is being handled.
PostRecords == [pc : {"idle", "code", "issue"}, r : Reqs \cup {NoDevice}, d : Devices \cup {NoDevice}, bound : Devices \cup {NoDevice}]

\* A call of pairclaim.
ClaimRecords == [pc : {"idle", "look", "info", "register", "wait"}, r : Reqs \cup {NoDevice}, p : PairPrompts \cup {NoDevice}]

\* A pairing prompt.
PairRecords == [r : Reqs \cup {NoDevice}, closes : Nat, approved : BOOLEAN, old : BOOLEAN]

\* A yes on its way from the prompt to the request.
DecideRecords == [pc : {"idle", "approve", "close"}, p : PairPrompts \cup {NoDevice}]

\* The types of the state.
PairingTypeOK ==
  /\ req \in [Reqs -> RequestRows] /\ post \in [Posts -> PostRecords]
  /\ pairCall \in [Calls -> ClaimRecords]
  /\ pairPend \in [Reqs -> PairPrompts \cup {NoDevice}]
  /\ pairPrompt \in [PairPrompts -> PairRecords]
  /\ decide \in [Deciders -> DecideRecords]
  /\ codes \in [Reqs -> Nat]

\* Form h has taken request r and is not through with it.
Busy(h, r) == post[h].pc # "idle" /\ post[h].r = r

\* A request is in one place at a time: in its table, with one form, or turned into a code.
OneTaker ==
  /\ \A r \in Reqs : codes[r] <= 1
  /\ \A r \in Reqs : req[r].st \in {"none", "live"} => codes[r] = 0 /\ \A h \in Posts : ~Busy(h, r)
  /\ \A r \in Reqs : \A h \in Posts : Busy(h, r) => codes[r] = 0
  /\ \A r \in Reqs : \A h, g \in Posts : Busy(h, r) /\ Busy(g, r) => h = g

\* What a request, or the form that has taken it, is bound to was agreed to.
BoundIsAgreed ==
  /\ \A r \in Reqs : req[r].dev # NoDevice => <<r, req[r].dev>> \in agreed
  /\ \A h \in Posts : post[h].pc # "idle" =>
       /\ post[h].r \in Reqs
       /\ post[h].bound # NoDevice => <<post[h].r, post[h].bound>> \in agreed
       /\ post[h].pc = "issue" => <<post[h].r, post[h].d>> \in agreed
  /\ issued \subseteq agreed

\* A prompt belongs to one request for good, and a yes to it is a yes to that request.
PromptsHold ==
  /\ \A r \in Reqs : pairPend[r] # NoDevice => pairPend[r] \in PairPrompts /\ pairPrompt[pairPend[r]].r = r
  /\ \A k \in Calls : pairCall[k].pc # "idle" => pairCall[k].r \in Reqs
  /\ \A s \in Deciders : decide[s].pc # "idle" => decide[s].p \in PairPrompts /\ pairPrompt[decide[s].p].r \in Reqs
  /\ \A s \in Deciders : decide[s].pc = "approve" => <<pairPrompt[decide[s].p].r, Here>> \in agreed

\* The inductive invariant of pairing.
PairingInv == PairingTypeOK /\ OneTaker /\ BoundIsAgreed /\ PromptsHold

\* The table may lose a request; a form's step is another matter.
LEMMA TakerKept ==
  ASSUME OneTaker, UNCHANGED <<post, codes>>,
         \A r \in Reqs : req'[r].st \in {"none", "live"} => req[r].st \in {"none", "live"}
  PROVE  OneTaker'
BY DEF OneTaker, Busy

\* What was agreed to stays agreed to.
LEMMA BoundKept ==
  ASSUME BoundIsAgreed, UNCHANGED <<post, issued>>, agreed \subseteq agreed',
         \A r \in Reqs : req'[r].dev # NoDevice => req'[r].dev = req[r].dev \/ <<r, req'[r].dev>> \in agreed'
  PROVE  BoundIsAgreed'
BY DEF BoundIsAgreed

\* Prompts stay what they are.
LEMMA PromptsKept ==
  ASSUME PromptsHold, UNCHANGED decide, agreed \subseteq agreed',
         \A p \in PairPrompts : pairPrompt'[p].r = pairPrompt[p].r,
         \A r \in Reqs : pairPend'[r] # NoDevice => pairPend'[r] = pairPend[r],
         \A k \in Calls : pairCall'[k].pc # "idle" => pairCall'[k].r \in Reqs
  PROVE  PromptsHold'
BY DEF PromptsHold

\* Records at rest.
LEMMA IdleRecords ==
  /\ IdlePost \in PostRecords /\ IdlePost.pc = "idle"
  /\ IdlePairCall \in ClaimRecords /\ IdlePairCall.pc = "idle"
  /\ IdleDecide \in DecideRecords /\ IdleDecide.pc = "idle"
  /\ NoReq \in RequestRows /\ NoReq.st = "none" /\ NoReq.dev = NoDevice
BY DEF IdlePost, PostRecords, IdlePairCall, ClaimRecords, IdleDecide, DecideRecords, NoReq, RequestRows

\* A form's step: what becomes of its record and of the request it has.
LEMMA PostGoes ==
  ASSUME PairingTypeOK, NEW h \in Posts, NEW x \in PostRecords, post' = [post EXCEPT ![h] = x]
  PROVE  /\ post' \in [Posts -> PostRecords] /\ post'[h] = x
         /\ \A g \in Posts : g # h => post'[g] = post[g]
BY DEF PairingTypeOK

\* A request whose row is written.
LEMMA RequestGoes ==
  ASSUME PairingTypeOK, NEW r \in Reqs, NEW x \in RequestRows, req' = [req EXCEPT ![r] = x]
  PROVE  /\ req' \in [Reqs -> RequestRows] /\ req'[r] = x
         /\ \A q \in Reqs : q # r => req'[q] = req[q]
BY DEF PairingTypeOK

\* A call's step.
LEMMA ClaimGoes ==
  ASSUME PairingTypeOK, PromptsHold, NEW k \in Calls, NEW x \in ClaimRecords, pairCall' = [pairCall EXCEPT ![k] = x],
         x.pc # "idle" => x.r \in Reqs
  PROVE  /\ pairCall' \in [Calls -> ClaimRecords]
         /\ \A g \in Calls : pairCall'[g].pc # "idle" => pairCall'[g].r \in Reqs
<1>1. /\ pairCall' \in [Calls -> ClaimRecords] /\ pairCall'[k] = x
      /\ \A g \in Calls : g # k => pairCall'[g] = pairCall[g]
  BY DEF PairingTypeOK
<1> QED
  BY <1>1 DEF PromptsHold

\* An authorization request is turned into one code at most, and only for a device that was agreed to: the form
\* takes the row out of the table before it looks at it, and puts back only what it took.
THEOREM OneCodeAsAgreed == PairingSpec => []OneAgreedCode
<1>1. PairingInit => PairingInv
  <2> SUFFICES ASSUME PairingInit PROVE PairingInv
    OBVIOUS
  <2>1. [r |-> NoDevice, closes |-> 0, approved |-> FALSE, old |-> FALSE] \in PairRecords
    BY DEF PairRecords
  <2>2. PairingTypeOK
    BY <2>1, IdleRecords DEF PairingInit, PairingTypeOK
  <2>3. /\ \A r \in Reqs : codes[r] = 0 /\ req[r].dev = NoDevice /\ pairPend[r] = NoDevice
        /\ \A h \in Posts : post[h].pc = "idle"
        /\ \A k \in Calls : pairCall[k].pc = "idle"
        /\ \A s \in Deciders : decide[s].pc = "idle"
        /\ issued = {}
    BY IdleRecords DEF PairingInit
  <2>4. OneTaker /\ BoundIsAgreed /\ PromptsHold
    BY <2>3 DEF OneTaker, Busy, BoundIsAgreed, PromptsHold
  <2> QED
    BY <2>2, <2>4 DEF PairingInv
<1>2. PairingInv /\ [PairingNext]_pvars => PairingInv'
  <2> SUFFICES ASSUME PairingInv, [PairingNext]_pvars PROVE PairingInv'
    OBVIOUS
  <2>0. PairingTypeOK /\ OneTaker /\ BoundIsAgreed /\ PromptsHold
    BY DEF PairingInv
  <2>t. /\ \A r \in Reqs : req[r] \in RequestRows
        /\ \A h \in Posts : post[h] \in PostRecords
        /\ \A k \in Calls : pairCall[k] \in ClaimRecords
        /\ \A p \in PairPrompts : pairPrompt[p] \in PairRecords
        /\ \A s \in Deciders : decide[s] \in DecideRecords
    BY <2>0 DEF PairingTypeOK
  <2>k. ASSUME UNCHANGED <<req, post, pairPend, pairPrompt, decide, codes, issued, agreed>>,
               pairCall' \in [Calls -> ClaimRecords],
               \A k \in Calls : pairCall'[k].pc # "idle" => pairCall'[k].r \in Reqs
        PROVE  PairingInv'
    <3>1. PairingTypeOK'
      BY <2>0, <2>k DEF PairingTypeOK
    <3> QED
      BY <2>0, <2>k, <3>1, TakerKept, BoundKept, PromptsKept DEF PairingInv
  <2>u. ASSUME UNCHANGED <<req, post, pairCall, pairPend, pairPrompt, decide, codes, issued, agreed>> PROVE PairingInv'
    BY <2>0, <2>u, <2>k DEF PairingTypeOK, PromptsHold
  <2>r. ASSUME NEW r \in Reqs, NEW x \in RequestRows, req' = [req EXCEPT ![r] = x],
               x.st \in {"none", "live"} => req[r].st \in {"none", "live"},
               x.dev # NoDevice => x.dev = req[r].dev,
               UNCHANGED <<post, pairCall, pairPend, pairPrompt, decide, codes, issued, agreed>>
        PROVE  PairingInv'
    <3>1. /\ req' \in [Reqs -> RequestRows] /\ req'[r] = x
          /\ \A q \in Reqs : q # r => req'[q] = req[q]
      BY <2>0, <2>r, RequestGoes
    <3>2. PairingTypeOK'
      BY <2>0, <2>r, <3>1 DEF PairingTypeOK
    <3>3. OneTaker'
      BY <2>0, <2>r, <3>1, TakerKept
    <3>4. BoundIsAgreed'
      BY <2>0, <2>r, <3>1, BoundKept
    <3>5. PromptsHold'
      BY <2>0, <2>r DEF PromptsHold
    <3> QED
      BY <3>2, <3>3, <3>4, <3>5 DEF PairingInv
  <2>1. ASSUME NEW r \in Reqs, AuthorizeGet(r) PROVE PairingInv'
    <3>1. /\ req'[r] = [req[r] EXCEPT !.st = "live"] /\ req' = [req EXCEPT ![r] = req'[r]] /\ req[r].st = "none"
          /\ UNCHANGED <<post, pairCall, pairPend, pairPrompt, decide, codes, issued, agreed>>
      BY <2>0, <2>1 DEF AuthorizeGet, PairingTypeOK
    <3>2. req'[r] \in RequestRows /\ req'[r].dev = req[r].dev
      BY <2>t, <3>1 DEF RequestRows
    <3> QED
      BY <2>r, <3>1, <3>2
  <2>2. ASSUME NEW r \in Reqs, RequestExpires(r) PROVE PairingInv'
    <3>1. [st |-> "expired", dev |-> NoDevice] \in RequestRows
      BY DEF RequestRows
    <3>2. PICK x \in RequestRows : x = [st |-> "expired", dev |-> NoDevice]
      BY <3>1
    <3>3. req' = [req EXCEPT ![r] = x] /\ UNCHANGED <<post, pairCall, pairPend, pairPrompt, decide, codes, issued, agreed>>
      BY <2>2, <3>2 DEF RequestExpires
    <3>4. x.st = "expired" /\ x.dev = NoDevice
      BY <3>2
    <3> QED
      BY <2>r, <3>3, <3>4
  <2>3. ASSUME NEW r \in Reqs, PostMisses(r) \/ NoAnswer(r) \/ UseCode(r) \/ PageExpires(r) PROVE PairingInv'
    BY <2>u, <2>3 DEF PostMisses, NoAnswer, UseCode, PageExpires
  <2>4. ASSUME NEW d \in Devices, PairingCode(d) PROVE PairingInv'
    BY <2>u, <2>4 DEF PairingCode
  <2>q. ASSUME pairPrompt' \in [PairPrompts -> PairRecords], \A p \in PairPrompts : pairPrompt'[p].r = pairPrompt[p].r,
               pairPend' \in [Reqs -> PairPrompts \cup {NoDevice}],
               \A r \in Reqs : pairPend'[r] # NoDevice => pairPend'[r] = pairPend[r],
               UNCHANGED <<req, post, pairCall, decide, codes, issued, agreed>>
        PROVE  PairingInv'
    <3>1. PairingTypeOK'
      BY <2>0, <2>q DEF PairingTypeOK
    <3>2. OneTaker' /\ BoundIsAgreed'
      BY <2>0, <2>q, TakerKept, BoundKept
    <3>3. PromptsHold'
      BY <2>0, <2>q DEF PromptsHold
    <3> QED
      BY <3>1, <3>2, <3>3 DEF PairingInv
  <2>5. ASSUME NEW p \in PairPrompts, PromptAges(p) PROVE PairingInv'
    <3>1. /\ pairPrompt'[p] = [pairPrompt[p] EXCEPT !.old = TRUE] /\ pairPrompt' = [pairPrompt EXCEPT ![p] = pairPrompt'[p]]
          /\ UNCHANGED <<req, post, pairCall, pairPend, decide, codes, issued, agreed>>
      BY <2>0, <2>5 DEF PromptAges, PairingTypeOK
    <3>2. pairPrompt'[p] \in PairRecords /\ pairPrompt'[p].r = pairPrompt[p].r
      BY <2>t, <3>1 DEF PairRecords
    <3>3. pairPrompt' \in [PairPrompts -> PairRecords] /\ \A q \in PairPrompts : pairPrompt'[q].r = pairPrompt[q].r
      BY <2>0, <3>1, <3>2 DEF PairingTypeOK
    <3> QED
      BY <2>0, <2>q, <3>1, <3>3 DEF PairingTypeOK
  <2>p. /\ Pruned \in [PairPrompts -> PairRecords] /\ \A q \in PairPrompts : Pruned[q].r = pairPrompt[q].r
        /\ PendPruned \in [Reqs -> PairPrompts \cup {NoDevice}]
        /\ \A r \in Reqs : PendPruned[r] # NoDevice => PendPruned[r] = pairPend[r]
    <3>1. \A q \in PairPrompts : Pruned[q] \in PairRecords /\ Pruned[q].r = pairPrompt[q].r
      <4> SUFFICES ASSUME NEW q \in PairPrompts PROVE Pruned[q] \in PairRecords /\ Pruned[q].r = pairPrompt[q].r
        OBVIOUS
      <4>1. CASE Pruned[q] = pairPrompt[q]
        BY <2>t, <4>1
      <4>2. CASE Pruned[q] = [pairPrompt[q] EXCEPT !.closes = @ + 1]
        <5>1. pairPrompt[q].closes + 1 \in Nat
          BY <2>t DEF PairRecords
        <5> QED
          BY <2>t, <4>2, <5>1 DEF PairRecords
      <4> QED
        BY <4>1, <4>2 DEF Pruned
    <3>2. Pruned \in [PairPrompts -> PairRecords]
      BY <3>1 DEF Pruned
    <3>3. /\ PendPruned \in [Reqs -> PairPrompts \cup {NoDevice}]
          /\ \A r \in Reqs : PendPruned[r] # NoDevice => PendPruned[r] = pairPend[r]
      BY <2>0 DEF PairingTypeOK, PendPruned
    <3> QED
      BY <3>1, <3>2, <3>3
  <2>6. CASE OtherPageRegisters
    BY <2>p, <2>q, <2>6 DEF OtherPageRegisters
  <2>7. ASSUME NEW h \in Posts, NEW r \in Reqs, NEW x \in PostRecords, Take(r), Live(r), post[h].pc = "idle",
               post' = [post EXCEPT ![h] = x],
               x.pc = "idle" \/ (x.r = r /\ x.bound = req[r].dev),
               x.pc = "issue" => x.d = req[r].dev /\ x.d # NoDevice,
               UNCHANGED <<pairCall, pairPend, pairPrompt, decide, codes, issued, agreed>>
        PROVE  PairingInv'
    <3>1. post' \in [Posts -> PostRecords] /\ post'[h] = x /\ \A g \in Posts : g # h => post'[g] = post[g]
      BY <2>0, <2>7, PostGoes
    <3>2. [st |-> "gone", dev |-> NoDevice] \in RequestRows
      BY DEF RequestRows
    <3>3. PICK y \in RequestRows : y = [st |-> "gone", dev |-> NoDevice]
      BY <3>2
    <3>4. y.st = "gone" /\ y.dev = NoDevice
      BY <3>3
    <3>5. req' = [req EXCEPT ![r] = y]
      BY <2>7, <3>3 DEF Take
    <3>6. req' \in [Reqs -> RequestRows] /\ req'[r] = y /\ \A q \in Reqs : q # r => req'[q] = req[q]
      BY <2>0, <3>5, RequestGoes
    <3>7. PairingTypeOK'
      BY <2>0, <2>7, <3>1, <3>6 DEF PairingTypeOK
    <3>8. codes[r] = 0 /\ \A g \in Posts : ~Busy(g, r)
      BY <2>0, <2>7 DEF OneTaker, Live
    <3>9. \A g \in Posts, q \in Reqs : Busy(g, q)' => Busy(g, q) \/ (g = h /\ q = r)
      BY <2>7, <3>1 DEF Busy
    <3>10. OneTaker'
      BY <2>0, <2>7, <3>4, <3>6, <3>8, <3>9 DEF OneTaker
    <3>11. BoundIsAgreed'
      BY <2>0, <2>7, <3>1, <3>4, <3>6 DEF BoundIsAgreed
    <3>12. PromptsHold'
      BY <2>0, <2>7 DEF PromptsHold
    <3> QED
      BY <3>7, <3>10, <3>11, <3>12 DEF PairingInv
  <2>8. ASSUME NEW h \in Posts, NEW r \in Reqs, NEW d \in Devices, PostTakes(h, r, d) PROVE PairingInv'
    <3>1. [pc |-> "code", r |-> r, d |-> d, bound |-> req[r].dev] \in PostRecords
      BY <2>t DEF PostRecords, RequestRows
    <3>2. PICK x \in PostRecords : x = [pc |-> "code", r |-> r, d |-> d, bound |-> req[r].dev]
      BY <3>1
    <3>3. x.pc = "code" /\ x.r = r /\ x.bound = req[r].dev
      BY <3>2
    <3>4. /\ Take(r) /\ Live(r) /\ post[h].pc = "idle" /\ post' = [post EXCEPT ![h] = x]
          /\ UNCHANGED <<pairCall, pairPend, pairPrompt, decide, codes, issued, agreed>>
      BY <2>8, <3>2 DEF PostTakes
    <3> QED
      BY <2>7, <3>3, <3>4
  <2>9. ASSUME NEW h \in Posts, NEW r \in Reqs, NEW n \in Devices \cup {NoDevice}, PostContinues(h, r, n) PROVE PairingInv'
    <3>1. [pc |-> "issue", r |-> r, d |-> req[r].dev, bound |-> req[r].dev] \in PostRecords
      BY <2>t DEF PostRecords, RequestRows
    <3>2. PICK x \in PostRecords : x = IF Continues(req[r].dev, n)
                                       THEN [pc |-> "issue", r |-> r, d |-> req[r].dev, bound |-> req[r].dev] ELSE IdlePost
      BY <3>1, IdleRecords
    <3>3. /\ Take(r) /\ Live(r) /\ post[h].pc = "idle" /\ post' = [post EXCEPT ![h] = x]
          /\ UNCHANGED <<pairCall, pairPend, pairPrompt, decide, codes, issued, agreed>>
      BY <2>9, <3>2 DEF PostContinues
    <3>4. CASE Continues(req[r].dev, n)
      <4>1. x.pc = "issue" /\ x.r = r /\ x.bound = req[r].dev /\ x.d = req[r].dev /\ x.d # NoDevice
        BY <3>2, <3>4 DEF Continues
      <4> QED
        BY <2>7, <3>3, <4>1
    <3>5. CASE ~Continues(req[r].dev, n)
      <4>1. x.pc = "idle"
        BY <3>2, <3>5, IdleRecords
      <4> QED
        BY <2>7, <3>3, <4>1
    <3> QED
      BY <3>4, <3>5
  <2>10. ASSUME NEW h \in Posts, PostCodeGood(h) PROVE PairingInv'
    <3>1. /\ post[h].pc = "code" /\ post'[h] = [post[h] EXCEPT !.pc = "issue"] /\ post' = [post EXCEPT ![h] = post'[h]]
          /\ agreed' = agreed \cup {<<post[h].r, post[h].d>>}
          /\ UNCHANGED <<req, pairCall, pairPend, pairPrompt, decide, codes, issued>>
      BY <2>0, <2>10 DEF PostCodeGood, PairingTypeOK
    <3>2. /\ post'[h] \in PostRecords /\ post'[h].pc = "issue" /\ post'[h].r = post[h].r /\ post'[h].d = post[h].d
          /\ post'[h].bound = post[h].bound
      BY <2>t, <3>1 DEF PostRecords
    <3>3. post' \in [Posts -> PostRecords] /\ \A g \in Posts : g # h => post'[g] = post[g]
      BY <2>0, <3>1, <3>2, PostGoes
    <3>4. PairingTypeOK'
      BY <2>0, <3>1, <3>3 DEF PairingTypeOK
    <3>5. \A g \in Posts, q \in Reqs : Busy(g, q)' <=> Busy(g, q)
      BY <3>1, <3>2, <3>3 DEF Busy
    <3>6. OneTaker'
      BY <2>0, <3>1, <3>5 DEF OneTaker
    <3>7. BoundIsAgreed'
      BY <2>0, <3>1, <3>2, <3>3 DEF BoundIsAgreed
    <3>8. PromptsHold'
      BY <2>0, <3>1 DEF PromptsHold
    <3> QED
      BY <3>4, <3>6, <3>7, <3>8 DEF PairingInv
  <2>i. ASSUME NEW h \in Posts, post' = [post EXCEPT ![h] = IdlePost],
               UNCHANGED <<req, pairCall, pairPend, pairPrompt, decide, codes, issued, agreed>>
        PROVE  PairingInv'
    <3>1. post' \in [Posts -> PostRecords] /\ post'[h].pc = "idle" /\ \A g \in Posts : g # h => post'[g] = post[g]
      BY <2>0, <2>i, PostGoes, IdleRecords
    <3>2. \A g \in Posts, q \in Reqs : Busy(g, q)' => Busy(g, q)
      BY <3>1 DEF Busy
    <3>3. PairingTypeOK'
      BY <2>0, <2>i, <3>1 DEF PairingTypeOK
    <3>4. OneTaker'
      BY <2>0, <2>i, <3>2 DEF OneTaker
    <3>5. BoundIsAgreed'
      BY <2>0, <2>i, <3>1 DEF BoundIsAgreed
    <3>6. PromptsHold'
      BY <2>0, <2>i DEF PromptsHold
    <3> QED
      BY <3>3, <3>4, <3>5, <3>6 DEF PairingInv
  <2>11. ASSUME NEW h \in Posts, PostCodeWrong(h) PROVE PairingInv'
    <3>1. PICK r \in Reqs : r = post[h].r
      BY <2>0, <2>11 DEF PostCodeWrong, BoundIsAgreed
    <3>2. PICK dev \in Devices \cup {NoDevice} : dev = post[h].bound
      BY <2>t DEF PostRecords
    <3>3. /\ post[h].pc = "code" /\ post' = [post EXCEPT ![h] = IdlePost]
          /\ req' = [req EXCEPT ![r] = [st |-> "live", dev |-> dev]] \/ req' = req
          /\ UNCHANGED <<pairCall, pairPend, pairPrompt, decide, codes, issued, agreed>>
      BY <2>11, <3>1, <3>2 DEF PostCodeWrong
    <3>4. CASE req' = req
      BY <2>i, <3>3, <3>4
    <3>5. CASE req' = [req EXCEPT ![r] = [st |-> "live", dev |-> dev]]
      <4>1. [st |-> "live", dev |-> dev] \in RequestRows
        BY DEF RequestRows
      <4>2. PICK y \in RequestRows : y = [st |-> "live", dev |-> dev]
        BY <4>1
      <4>3. y.st = "live" /\ y.dev = dev
        BY <4>2
      <4>4. req' \in [Reqs -> RequestRows] /\ req'[r] = y /\ \A q \in Reqs : q # r => req'[q] = req[q]
        BY <2>0, <3>5, <4>2, RequestGoes
      <4>5. post' \in [Posts -> PostRecords] /\ post'[h].pc = "idle" /\ \A g \in Posts : g # h => post'[g] = post[g]
        BY <2>0, <3>3, PostGoes, IdleRecords
      <4>6. PairingTypeOK'
        BY <2>0, <3>3, <4>4, <4>5 DEF PairingTypeOK
      <4>7. \A g \in Posts, q \in Reqs : Busy(g, q)' => Busy(g, q) /\ g # h
        BY <4>5 DEF Busy
      <4>8. Busy(h, r)
        BY <3>1, <3>3 DEF Busy
      <4>9. OneTaker'
        BY <2>0, <3>3, <4>4, <4>7, <4>8 DEF OneTaker
      <4>10. BoundIsAgreed'
        BY <2>0, <3>1, <3>2, <3>3, <4>3, <4>4, <4>5 DEF BoundIsAgreed
      <4>11. PromptsHold'
        BY <2>0, <3>3 DEF PromptsHold
      <4> QED
        BY <4>6, <4>9, <4>10, <4>11 DEF PairingInv
    <3> QED
      BY <3>3, <3>4, <3>5
  <2>12. ASSUME NEW h \in Posts, PostFails(h) PROVE PairingInv'
    BY <2>12, <2>i DEF PostFails
  <2>13. ASSUME NEW h \in Posts, IssueAuthCode(h) PROVE PairingInv'
    <3>1. PICK r \in Reqs : r = post[h].r
      BY <2>0, <2>13 DEF IssueAuthCode, BoundIsAgreed
    <3>2. /\ post[h].pc = "issue" /\ post' = [post EXCEPT ![h] = IdlePost]
          /\ codes' = [codes EXCEPT ![r] = @ + 1] /\ issued' = issued \cup {<<r, post[h].d>>}
          /\ UNCHANGED <<req, pairCall, pairPend, pairPrompt, decide, agreed>>
      BY <2>13, <3>1 DEF IssueAuthCode
    <3>3. post' \in [Posts -> PostRecords] /\ post'[h].pc = "idle" /\ \A g \in Posts : g # h => post'[g] = post[g]
      BY <2>0, <3>2, PostGoes, IdleRecords
    <3>4. Busy(h, r)
      BY <3>1, <3>2 DEF Busy
    <3>5. codes[r] = 0
      BY <2>0, <3>4 DEF OneTaker
    <3>6. codes' \in [Reqs -> Nat] /\ codes'[r] = 1 /\ \A q \in Reqs : q # r => codes'[q] = codes[q]
      BY <2>0, <3>2, <3>5 DEF PairingTypeOK
    <3>7. \A g \in Posts, q \in Reqs : Busy(g, q)' => Busy(g, q) /\ g # h
      BY <3>3 DEF Busy
    <3>8. PairingTypeOK'
      BY <2>0, <3>2, <3>3, <3>6 DEF PairingTypeOK
    <3>9. OneTaker'
      <4>1. req[r].st \notin {"none", "live"} /\ \A g \in Posts : Busy(g, r) => g = h
        BY <2>0, <3>4 DEF OneTaker
      <4> QED
        BY <2>0, <3>2, <3>6, <3>7, <4>1 DEF OneTaker
    <3>10. BoundIsAgreed'
      <4>1. <<r, post[h].d>> \in agreed
        BY <2>0, <3>1, <3>2 DEF BoundIsAgreed
      <4> QED
        BY <2>0, <3>2, <3>3, <4>1 DEF BoundIsAgreed
    <3>11. PromptsHold'
      BY <2>0, <3>2 DEF PromptsHold
    <3> QED
      BY <3>8, <3>9, <3>10, <3>11 DEF PairingInv
  <2>14. ASSUME NEW r \in Reqs, NEW k \in Calls, Attempt(r, k) PROVE PairingInv'
    <3>1. [pc |-> "look", r |-> r, p |-> NoDevice] \in ClaimRecords
      BY DEF ClaimRecords
    <3>2. PICK x \in ClaimRecords : x = [pc |-> "look", r |-> r, p |-> NoDevice]
      BY <3>1
    <3>3. x.r = r
      BY <3>2
    <3>4. pairCall' = [pairCall EXCEPT ![k] = x] /\ UNCHANGED <<req, post, pairPend, pairPrompt, decide, codes, issued, agreed>>
      BY <2>14, <3>2 DEF Attempt
    <3> QED
      BY <2>0, <2>k, <3>3, <3>4, ClaimGoes
  <2>c. ASSUME NEW k \in Calls, pairCall' = [pairCall EXCEPT ![k] = IdlePairCall],
               UNCHANGED <<req, post, pairPend, pairPrompt, decide, codes, issued, agreed>>
        PROVE  PairingInv'
    BY <2>0, <2>c, <2>k, ClaimGoes, IdleRecords
  <2>15. ASSUME NEW k \in Calls, SubmitLooks(k) PROVE PairingInv'
    <3>1. /\ pairCall[k].pc = "look" /\ pairCall[k].r \in Reqs
          /\ UNCHANGED <<req, post, pairPend, pairPrompt, decide, codes, issued, agreed>>
      BY <2>0, <2>15 DEF SubmitLooks, PromptsHold
    <3>2. PICK n \in PairPrompts \cup {NoDevice} : n = pairPend[pairCall[k].r]
      BY <2>0, <3>1 DEF PairingTypeOK
    <3>3. /\ pairCall' = [pairCall EXCEPT ![k] = pairCall'[k]]
          /\ pairCall'[k] = [pairCall[k] EXCEPT !.pc = "wait", !.p = n] \/ pairCall'[k] = [pairCall[k] EXCEPT !.pc = "info"]
      BY <2>0, <2>15, <3>2 DEF SubmitLooks, PairingTypeOK
    <3>4. pairCall'[k] \in ClaimRecords /\ pairCall'[k].r = pairCall[k].r
      BY <2>t, <3>3 DEF ClaimRecords
    <3> QED
      BY <2>0, <2>k, <3>1, <3>3, <3>4, ClaimGoes
  <2>16. ASSUME NEW k \in Calls, SubmitAsksInfo(k) PROVE PairingInv'
    <3>1. CASE pairCall' = [pairCall EXCEPT ![k] = IdlePairCall]
      BY <2>16, <2>c, <3>1 DEF SubmitAsksInfo
    <3>2. CASE pairCall' = [pairCall EXCEPT ![k].pc = "register"]
      <4>1. /\ pairCall[k].pc = "info" /\ pairCall[k].r \in Reqs
            /\ UNCHANGED <<req, post, pairPend, pairPrompt, decide, codes, issued, agreed>>
        BY <2>0, <2>16 DEF SubmitAsksInfo, PromptsHold
      <4>2. pairCall' = [pairCall EXCEPT ![k] = pairCall'[k]] /\ pairCall'[k] = [pairCall[k] EXCEPT !.pc = "register"]
        BY <2>0, <3>2 DEF PairingTypeOK
      <4>3. pairCall'[k] \in ClaimRecords /\ pairCall'[k].r = pairCall[k].r
        BY <2>t, <4>2 DEF ClaimRecords
      <4> QED
        BY <2>0, <2>k, <4>1, <4>2, <4>3, ClaimGoes
    <3> QED
      BY <2>16, <3>1, <3>2 DEF SubmitAsksInfo
  <2>17. ASSUME NEW k \in Calls, SubmitRegisters(k) PROVE PairingInv'
    <3>1. PICK r \in Reqs : r = pairCall[k].r
      BY <2>0, <2>17 DEF SubmitRegisters, PromptsHold
    <3>2. PICK n \in PairPrompts, back \in {"attach", "raise"} :
            /\ pairCall' = [pairCall EXCEPT ![k].pc = "wait", ![k].p = n]
            /\ back = "attach" => UNCHANGED <<pairPend, pairPrompt>>
            /\ back = "raise" => pairPrompt[n].r = NoDevice /\ pairPend' = [PendPruned EXCEPT ![r] = n] /\ pairPrompt' = [Pruned EXCEPT ![n].r = r]
      BY <2>0, <2>17, <3>1 DEF SubmitRegisters, PromptsHold
    <3>3. UNCHANGED <<req, post, decide, codes, issued, agreed>>
      BY <2>17 DEF SubmitRegisters
    <3>4. pairCall' = [pairCall EXCEPT ![k] = pairCall'[k]] /\ pairCall'[k] = [pairCall[k] EXCEPT !.pc = "wait", !.p = n]
      BY <2>0, <3>2 DEF PairingTypeOK
    <3>5. pairCall'[k] \in ClaimRecords /\ pairCall'[k].r = r
      BY <2>t, <3>1, <3>4 DEF ClaimRecords
    <3>6. /\ pairCall' \in [Calls -> ClaimRecords]
          /\ \A g \in Calls : pairCall'[g].pc # "idle" => pairCall'[g].r \in Reqs
      BY <2>0, <3>4, <3>5, ClaimGoes
    <3>7. CASE back = "attach"
      BY <2>k, <3>2, <3>3, <3>6, <3>7
    <3>8. CASE back = "raise"
      <4>1. /\ pairPrompt'[n] = [Pruned[n] EXCEPT !.r = r] /\ pairPrompt' = [Pruned EXCEPT ![n] = pairPrompt'[n]]
            /\ Pruned[n] \in PairRecords
        BY <2>p, <3>2, <3>8
      <4>2. pairPrompt'[n] \in PairRecords /\ pairPrompt'[n].r = r
        BY <4>1 DEF PairRecords
      <4>3. pairPrompt' \in [PairPrompts -> PairRecords] /\ \A q \in PairPrompts : q # n => pairPrompt'[q].r = pairPrompt[q].r
        BY <2>p, <4>1, <4>2
      <4>4. /\ pairPend' \in [Reqs -> PairPrompts \cup {NoDevice}] /\ pairPend'[r] = n
            /\ \A q \in Reqs : q # r /\ pairPend'[q] # NoDevice => pairPend'[q] = pairPend[q]
        BY <2>p, <3>2, <3>8
      <4>5. PairingTypeOK'
        BY <2>0, <3>3, <3>6, <4>3, <4>4 DEF PairingTypeOK
      <4>6. OneTaker' /\ BoundIsAgreed'
        BY <2>0, <3>3, TakerKept, BoundKept
      <4>7. \A q \in Reqs : pairPend[q] # NoDevice => pairPend[q] # n
        BY <2>0, <3>2, <3>8, PairingAssumption DEF PromptsHold
      <4>8. \A s \in Deciders : decide[s].pc # "idle" => decide[s].p # n
        BY <2>0, <3>2, <3>8, PairingAssumption DEF PromptsHold
      <4>9. PromptsHold'
        BY <2>0, <3>3, <3>6, <4>2, <4>3, <4>4, <4>7, <4>8 DEF PromptsHold
      <4> QED
        BY <4>5, <4>6, <4>9 DEF PairingInv
    <3> QED
      BY <3>7, <3>8
  <2>18. ASSUME NEW k \in Calls, SubmitReturns(k) PROVE PairingInv'
    BY <2>18, <2>c DEF SubmitReturns
  <2>d. ASSUME NEW s \in Deciders, NEW r \in Reqs, NEW pc \in {"approve", "close"}, pairPend[r] # NoDevice, ResolveTakes(r),
               decide' = [decide EXCEPT ![s] = [pc |-> pc, p |-> pairPend[r]]],
               agreed \subseteq agreed', pc = "approve" => <<r, Here>> \in agreed',
               UNCHANGED <<req, post, pairCall, pairPrompt, codes, issued>>
        PROVE  PairingInv'
    <3>1. PICK n \in PairPrompts : n = pairPend[r] /\ pairPrompt[n].r = r
      BY <2>0, <2>d DEF PromptsHold
    <3>2. [pc |-> pc, p |-> n] \in DecideRecords
      BY DEF DecideRecords
    <3>3. PICK x \in DecideRecords : x = [pc |-> pc, p |-> n]
      BY <3>2
    <3>4. x.pc = pc /\ x.p = n
      BY <3>3
    <3>5. decide' \in [Deciders -> DecideRecords] /\ decide'[s] = x /\ \A t \in Deciders : t # s => decide'[t] = decide[t]
      BY <2>0, <2>d, <3>1, <3>3 DEF PairingTypeOK
    <3>6. /\ pairPend' \in [Reqs -> PairPrompts \cup {NoDevice}]
          /\ \A q \in Reqs : pairPend'[q] # NoDevice => pairPend'[q] = pairPend[q]
      BY <2>0, <2>d DEF ResolveTakes, PairingTypeOK
    <3>7. PairingTypeOK'
      BY <2>0, <2>d, <3>5, <3>6 DEF PairingTypeOK
    <3>8. OneTaker' /\ BoundIsAgreed'
      BY <2>0, <2>d, TakerKept, BoundKept
    <3>9. PromptsHold'
      BY <2>0, <2>d, <3>1, <3>4, <3>5, <3>6 DEF PromptsHold
    <3> QED
      BY <3>7, <3>8, <3>9 DEF PairingInv
  <2>19. ASSUME NEW s \in Deciders, NEW r \in Reqs, CancelArrives(s, r) PROVE PairingInv'
    <3>1. CASE UNCHANGED <<pairPend, decide>>
      BY <2>19, <2>u, <3>1 DEF CancelArrives
    <3>2. CASE pairPend[r] # NoDevice /\ ResolveTakes(r) /\ decide' = [decide EXCEPT ![s] = [pc |-> "close", p |-> pairPend[r]]]
      BY <2>19, <2>d, <3>2 DEF CancelArrives
    <3> QED
      BY <2>19, <3>1, <3>2 DEF CancelArrives
  <2>20. ASSUME NEW s \in Deciders, NEW r \in Reqs, NEW yes \in BOOLEAN, Decide(s, r, yes) PROVE PairingInv'
    <3>1. PICK pc \in {"approve", "close"} : pc = (IF yes THEN "approve" ELSE "close") /\ (pc = "approve" <=> yes)
      OBVIOUS
    <3>2. /\ pairPend[r] # NoDevice /\ ResolveTakes(r)
          /\ decide' = [decide EXCEPT ![s] = [pc |-> pc, p |-> pairPend[r]]]
          /\ agreed \subseteq agreed' /\ (pc = "approve" => <<r, Here>> \in agreed')
          /\ UNCHANGED <<req, post, pairCall, pairPrompt, codes, issued>>
      BY <2>20, <3>1 DEF Decide
    <3> QED
      BY <2>d, <3>2
  <2>21. ASSUME NEW s \in Deciders, ResolveApproves(s) PROVE PairingInv'
    <3>1. PICK n \in PairPrompts : n = decide[s].p /\ pairPrompt[n].r \in Reqs /\ <<pairPrompt[n].r, Here>> \in agreed
      BY <2>0, <2>21 DEF ResolveApproves, PromptsHold
    <3>2. PICK r \in Reqs : r = pairPrompt[n].r
      BY <3>1
    <3>3. /\ decide[s].pc = "approve" /\ decide' = [decide EXCEPT ![s] = decide'[s]]
          /\ decide'[s] = [decide[s] EXCEPT !.pc = "close"]
          /\ UNCHANGED <<post, pairCall, pairPend, codes, issued, agreed>>
      BY <2>0, <2>21 DEF ResolveApproves, PairingTypeOK
    <3>4. decide'[s] \in DecideRecords /\ decide'[s].pc = "close" /\ decide'[s].p = n
      BY <2>t, <3>1, <3>3 DEF DecideRecords
    <3>5. decide' \in [Deciders -> DecideRecords] /\ \A t \in Deciders : t # s => decide'[t] = decide[t]
      BY <2>0, <3>3, <3>4 DEF PairingTypeOK
    <3>6. /\ req' = req \/ req' = [req EXCEPT ![r].dev = Here]
          /\ pairPrompt' = pairPrompt \/ pairPrompt' = [pairPrompt EXCEPT ![n].approved = TRUE]
      <4>1. /\ req' = req \/ req' = [req EXCEPT ![pairPrompt[decide[s].p].r].dev = Here]
            /\ pairPrompt' = pairPrompt \/ pairPrompt' = [pairPrompt EXCEPT ![decide[s].p].approved = TRUE]
        BY <2>21 DEF ResolveApproves
      <4> QED
        BY <3>1, <3>2, <4>1
    <3>7. pairPrompt' \in [PairPrompts -> PairRecords] /\ \A q \in PairPrompts : pairPrompt'[q].r = pairPrompt[q].r
      <4>1. CASE pairPrompt' = pairPrompt
        BY <2>0, <4>1 DEF PairingTypeOK
      <4>2. CASE pairPrompt' = [pairPrompt EXCEPT ![n].approved = TRUE]
        <5>1. pairPrompt'[n] = [pairPrompt[n] EXCEPT !.approved = TRUE] /\ pairPrompt' = [pairPrompt EXCEPT ![n] = pairPrompt'[n]]
          BY <2>0, <4>2 DEF PairingTypeOK
        <5>2. pairPrompt'[n] \in PairRecords /\ pairPrompt'[n].r = pairPrompt[n].r
          BY <2>t, <5>1 DEF PairRecords
        <5> QED
          BY <2>0, <5>1, <5>2 DEF PairingTypeOK
      <4> QED
        BY <3>6, <4>1, <4>2
    <3>8. /\ req' \in [Reqs -> RequestRows]
          /\ \A q \in Reqs : req'[q].st = req[q].st
          /\ \A q \in Reqs : req'[q].dev # NoDevice => req'[q].dev = req[q].dev \/ <<q, req'[q].dev>> \in agreed
      <4>1. CASE req' = req
        BY <2>0, <4>1 DEF PairingTypeOK
      <4>2. CASE req' = [req EXCEPT ![r].dev = Here]
        <5>1. req'[r] = [req[r] EXCEPT !.dev = Here] /\ req' = [req EXCEPT ![r] = req'[r]]
          BY <2>0, <4>2 DEF PairingTypeOK
        <5>2. req'[r] \in RequestRows /\ req'[r].st = req[r].st /\ req'[r].dev = Here
          BY <2>t, <5>1, PairingAssumption DEF RequestRows
        <5>3. req' \in [Reqs -> RequestRows] /\ \A q \in Reqs : q # r => req'[q] = req[q]
          BY <2>0, <5>1, <5>2, RequestGoes
        <5> QED
          BY <3>1, <3>2, <5>2, <5>3
      <4> QED
        BY <3>6, <4>1, <4>2
    <3>9. PairingTypeOK'
      BY <2>0, <3>3, <3>5, <3>7, <3>8 DEF PairingTypeOK
    <3>10. OneTaker'
      BY <2>0, <3>3, <3>8, TakerKept
    <3>11. BoundIsAgreed'
      BY <2>0, <3>3, <3>8, BoundKept
    <3>12. PromptsHold'
      <4>1. \A t \in Deciders : decide'[t].p = decide[t].p /\ (decide'[t].pc # "idle" => decide[t].pc # "idle")
                               /\ (decide'[t].pc = "approve" => decide[t].pc = "approve")
        BY <3>1, <3>3, <3>4, <3>5
      <4>2. /\ \A r1 \in Reqs : pairPend'[r1] # NoDevice => pairPend'[r1] \in PairPrompts /\ pairPrompt'[pairPend'[r1]].r = r1
            /\ \A k \in Calls : pairCall'[k].pc # "idle" => pairCall'[k].r \in Reqs
        BY <2>0, <3>3, <3>7 DEF PromptsHold
      <4>3. \A t \in Deciders : decide'[t].pc # "idle" => decide'[t].p \in PairPrompts /\ pairPrompt'[decide'[t].p].r \in Reqs
        BY <2>0, <3>7, <4>1 DEF PromptsHold
      <4>4. \A t \in Deciders : decide'[t].pc = "approve" => <<pairPrompt'[decide'[t].p].r, Here>> \in agreed'
        BY <2>0, <3>3, <3>7, <4>1 DEF PromptsHold
      <4> QED
        BY <4>2, <4>3, <4>4 DEF PromptsHold
    <3> QED
      BY <3>9, <3>10, <3>11, <3>12 DEF PairingInv
  <2>22. ASSUME NEW s \in Deciders, ResolveCloses(s) PROVE PairingInv'
    <3>1. PICK n \in PairPrompts : n = decide[s].p
      BY <2>0, <2>22 DEF ResolveCloses, PromptsHold
    <3>2. /\ pairPrompt'[n] = [pairPrompt[n] EXCEPT !.closes = @ + 1] /\ pairPrompt' = [pairPrompt EXCEPT ![n] = pairPrompt'[n]]
          /\ decide' = [decide EXCEPT ![s] = IdleDecide] /\ UNCHANGED <<req, post, pairCall, pairPend, codes, issued, agreed>>
      BY <2>0, <2>22, <3>1 DEF ResolveCloses, PairingTypeOK
    <3>3. pairPrompt[n].closes + 1 \in Nat
      BY <2>t DEF PairRecords
    <3>4. pairPrompt'[n] \in PairRecords /\ pairPrompt'[n].r = pairPrompt[n].r
      BY <2>t, <3>2, <3>3 DEF PairRecords
    <3>5. pairPrompt' \in [PairPrompts -> PairRecords] /\ \A q \in PairPrompts : pairPrompt'[q].r = pairPrompt[q].r
      BY <2>0, <3>2, <3>4 DEF PairingTypeOK
    <3>6. decide' \in [Deciders -> DecideRecords] /\ decide'[s].pc = "idle" /\ \A t \in Deciders : t # s => decide'[t] = decide[t]
      BY <2>0, <3>2, IdleRecords DEF PairingTypeOK
    <3>7. PairingTypeOK'
      BY <2>0, <3>2, <3>5, <3>6 DEF PairingTypeOK
    <3>8. OneTaker' /\ BoundIsAgreed'
      BY <2>0, <3>2, TakerKept, BoundKept
    <3>9. PromptsHold'
      BY <2>0, <3>2, <3>5, <3>6 DEF PromptsHold
    <3> QED
      BY <3>7, <3>8, <3>9 DEF PairingInv
  <2>23. CASE UNCHANGED pvars
    BY <2>23, <2>u DEF pvars
  <2> QED
    BY <2>1, <2>2, <2>3, <2>4, <2>5, <2>6, <2>8, <2>9, <2>10, <2>11, <2>12, <2>13, <2>14, <2>15, <2>16, <2>17, <2>18, <2>19,
       <2>20, <2>21, <2>22, <2>23 DEF PairingNext
<1>3. PairingInv => OneAgreedCode
  BY DEF PairingInv, OneTaker, BoundIsAgreed, OneAgreedCode
<1> QED
  BY <1>1, <1>2, <1>3, PTL DEF PairingSpec

-----------------------------------------------------------------------------
(* Tokens: refresh tokens. *)

\* A row of refresh_tokens.
RefreshRows == [fam : Codes \cup {NoFamily}, used : BOOLEAN, revoked : BOOLEAN, old : BOOLEAN]

\* A token handler between two calls of the store.
TokenHandlers == [pc : {"idle", "mark", "revoke", "access", "refresh"}, fam : Codes \cup {NoFamily},
                  from : Pairs \cup {0}, pair : Pairs \cup {0}]

\* The types of the state.
TokensTypeOK ==
  /\ code \in [Codes -> {"live", "gone"}]
  /\ refresh \in [Pairs -> RefreshRows]
  /\ handler \in [Handlers -> TokenHandlers]
  /\ sent \subseteq Pairs

\* A handler on its way from its token (or code) to a new row.
Making(h, f) == handler[h].pc \in {"access", "refresh"} /\ handler[h].fam = f

\* A handler that has read an unused token of the family and is about to mark it.
MarkingIn(h, f) == handler[h].pc = "mark" /\ handler[h].fam = f

\* A token of the family that is still good for a rotation.
Unused(p, f) == refresh[p].fam = f /\ ~refresh[p].used

\* Rows not written yet are empty, and what was sent was written.
RowsWhole ==
  /\ \A p \in Pairs : refresh[p].fam = NoFamily => ~refresh[p].used
  /\ \A p \in sent : refresh[p].fam # NoFamily

\* A handler has a token of its family in hand, or an empty row nobody else has.
HandlersKnow ==
  /\ \A h \in Handlers : handler[h].pc \in {"mark", "revoke"} =>
       handler[h].from \in Pairs /\ handler[h].fam \in Codes /\ refresh[handler[h].from].fam = handler[h].fam
  /\ \A h \in Handlers : handler[h].pc \in {"access", "refresh"} =>
       handler[h].pair \in Pairs /\ handler[h].fam \in Codes /\ refresh[handler[h].pair].fam = NoFamily
  /\ \A h, g \in Handlers : handler[h].pc \in {"access", "refresh"} /\ handler[g].pc \in {"access", "refresh"}
                            /\ handler[h].pair = handler[g].pair => h = g

\* A code that can still be exchanged has no family yet.
CodeFirst ==
  \A c \in Codes : code[c] = "live" =>
    /\ \A p \in Pairs : refresh[p].fam # c
    /\ \A h \in Handlers : handler[h].pc # "idle" => handler[h].fam # c
    /\ c \notin revoked

\* Of a family whose tokens came one at a time there is one unused token, or one handler
\* that is making it.
OneCarrier ==
  \A f \in Codes : f \notin doubled =>
    /\ \A p, q \in Pairs : Unused(p, f) /\ Unused(q, f) => p = q
    /\ \A p \in Pairs, h \in Handlers : ~(Unused(p, f) /\ Making(h, f))
    /\ \A h, g \in Handlers : Making(h, f) /\ Making(g, f) => h = g
    /\ \A h \in Handlers : MarkingIn(h, f) => ~refresh[handler[h].from].used
    /\ \A h, g \in Handlers : MarkingIn(h, f) /\ MarkingIn(g, f) => h = g

\* A family revoked while no rotation was under way stays revoked.
RevokedStays ==
  \A f \in Codes : f \in revoked /\ f \notin late =>
    /\ \A p \in Pairs : refresh[p].fam = f => refresh[p].revoked
    /\ \A h \in Handlers : ~MarkingIn(h, f) /\ ~Making(h, f)

\* The inductive invariant of the token endpoint.
TokensInv == TokensTypeOK /\ RowsWhole /\ HandlersKnow /\ CodeFirst /\ OneCarrier /\ RevokedStays

\* A handler at rest is a handler.
LEMMA IdleHandler == Idle \in TokenHandlers /\ Idle.pc = "idle"
BY DEF Idle, TokenHandlers

\* A new token gets a row of its own.
LEMMA DrawIsFresh == Fresh # {} => Draw \in Fresh
BY DEF Draw

\* The parts of a handler's step, with one record in and one out.
LEMMA HandlerGoes ==
  ASSUME TokensTypeOK, NEW h \in Handlers, NEW r \in TokenHandlers, handler' = [handler EXCEPT ![h] = r]
  PROVE  /\ handler' \in [Handlers -> TokenHandlers] /\ handler'[h] = r
         /\ \A g \in Handlers : g # h => handler'[g] = handler[g]
BY DEF TokensTypeOK

\* A handler that ends, or goes on to the next write, leaves the tables alone.
LEMMA HandlerOnly ==
  ASSUME TokensInv, NEW h \in Handlers, NEW r \in TokenHandlers, handler' = [handler EXCEPT ![h] = r],
         UNCHANGED <<code, refresh, sent, revoked, doubled, late>>,
         r.pc = "idle" \/ (r.pc \in {"access", "refresh"} /\ handler[h].pc \in {"access", "refresh"}
                           /\ r.fam = handler[h].fam /\ r.pair = handler[h].pair)
  PROVE  TokensInv'
<1>1. /\ handler' \in [Handlers -> TokenHandlers] /\ handler'[h] = r
      /\ \A g \in Handlers : g # h => handler'[g] = handler[g]
  BY HandlerGoes DEF TokensInv
<1>2. TokensTypeOK' /\ RowsWhole'
  BY <1>1 DEF TokensInv, TokensTypeOK, RowsWhole
<1>3. HandlersKnow'
  BY <1>1 DEF TokensInv, HandlersKnow
<1>4. CodeFirst'
  BY <1>1 DEF TokensInv, CodeFirst
<1>5. \A g \in Handlers, f \in Codes : /\ Making(g, f)' => Making(g, f)
                                       /\ MarkingIn(g, f)' => MarkingIn(g, f) /\ handler'[g] = handler[g]
  BY <1>1 DEF Making, MarkingIn
<1>6. \A p \in Pairs, f \in Codes : Unused(p, f)' <=> Unused(p, f)
  BY DEF Unused
<1>7. OneCarrier'
  BY <1>5, <1>6 DEF TokensInv, OneCarrier
<1>8. RevokedStays'
  BY <1>5 DEF TokensInv, RevokedStays
<1> QED
  BY <1>2, <1>3, <1>4, <1>7, <1>8 DEF TokensInv

\* Of one authorization at most one refresh token is usable, and after a reuse none is, unless two rotations of
\* one token were under way at once (which the code does not exclude, and the model records): rotation marks
\* before it writes, and reuse revokes the family.
THEOREM RotationHolds == TokensSpec => []OneUsableToken
<1>1. TokensInit => TokensInv
  <2> SUFFICES ASSUME TokensInit PROVE TokensInv
    OBVIOUS
  <2>1. /\ \A h \in Handlers : handler[h] = Idle
        /\ \A p \in Pairs : refresh[p] = NoRow /\ refresh[p].fam = NoFamily /\ ~refresh[p].used
        /\ sent = {} /\ revoked = {} /\ NoRow \in RefreshRows
    BY DEF TokensInit, NoRow, RefreshRows
  <2>2. TokensTypeOK
    BY <2>1, IdleHandler DEF TokensInit, TokensTypeOK
  <2>3. RowsWhole /\ HandlersKnow /\ RevokedStays
    BY <2>1, IdleHandler DEF RowsWhole, HandlersKnow, RevokedStays
  <2>4. CodeFirst /\ OneCarrier
    BY <2>1, IdleHandler, TokensAssumption DEF CodeFirst, OneCarrier, Unused, Making, MarkingIn
  <2> QED
    BY <2>2, <2>3, <2>4 DEF TokensInv
<1>2. TokensInv /\ [TokensNext]_tvars => TokensInv'
  <2> SUFFICES ASSUME TokensInv, [TokensNext]_tvars PROVE TokensInv'
    OBVIOUS
  <2>0. /\ \A h \in Handlers : handler[h] \in TokenHandlers
        /\ \A p \in Pairs : refresh[p] \in RefreshRows
    BY DEF TokensInv, TokensTypeOK
  <2>k. ASSUME UNCHANGED <<code, refresh, handler, sent, revoked, doubled, late>> PROVE TokensInv'
    BY <2>k DEF TokensInv, TokensTypeOK, RowsWhole, HandlersKnow, CodeFirst, OneCarrier, RevokedStays, Unused, Making, MarkingIn
  <2>c. ASSUME NEW c \in Codes, TakeAuthCode(c), UNCHANGED <<refresh, handler, sent, revoked, doubled, late>> PROVE TokensInv'
    <3>1. code' \in [Codes -> {"live", "gone"}] /\ \A x \in Codes : code'[x] = "live" => code[x] = "live"
      BY <2>c DEF TakeAuthCode, TokensInv, TokensTypeOK
    <3> QED
      BY <2>c, <3>1 DEF TokensInv, TokensTypeOK, RowsWhole, HandlersKnow, CodeFirst, OneCarrier, RevokedStays, Unused, Making, MarkingIn
  <2>1. ASSUME NEW h \in Handlers, NEW c \in Codes, NEW good \in BOOLEAN, TokenFromCode(h, c, good) PROVE TokensInv'
    <3>1. CASE ~good
      BY <2>c, <2>1, <3>1 DEF TokenFromCode
    <3>2. CASE good
      <4>1. PICK p \in Pairs : p = Draw /\ p \in Fresh
        BY <2>1, DrawIsFresh DEF TokenFromCode, Fresh
      <4>2. [pc |-> "access", fam |-> c, from |-> 0, pair |-> p] \in TokenHandlers
        BY DEF TokenHandlers
      <4>3. PICK r \in TokenHandlers : r = [pc |-> "access", fam |-> c, from |-> 0, pair |-> p]
        BY <4>2
      <4>4. /\ handler' = [handler EXCEPT ![h] = r] /\ TakeAuthCode(c) /\ code[c] = "live"
            /\ UNCHANGED <<refresh, sent, revoked, doubled, late>>
        BY <2>1, <3>2, <4>1, <4>3 DEF TokenFromCode
      <4>5. /\ handler' \in [Handlers -> TokenHandlers] /\ handler'[h] = r
            /\ \A g \in Handlers : g # h => handler'[g] = handler[g]
        BY <4>4, HandlerGoes DEF TokensInv
      <4>6. r.pc = "access" /\ r.fam = c /\ r.pair = p
        BY <4>3
      <4>7. code' \in [Codes -> {"live", "gone"}] /\ \A x \in Codes : code'[x] = "live" => code[x] = "live" /\ x # c
        BY <4>4 DEF TakeAuthCode, TokensInv, TokensTypeOK
      <4>8. refresh[p].fam = NoFamily /\ \A g \in Handlers : handler[g].pair # p
        BY <4>1 DEF Fresh
      <4>9. /\ \A q \in Pairs : refresh[q].fam # c
            /\ \A g \in Handlers : handler[g].pc # "idle" => handler[g].fam # c
            /\ c \notin revoked
        BY <4>4 DEF TokensInv, CodeFirst
      <4>10. TokensTypeOK' /\ RowsWhole'
        BY <4>4, <4>5, <4>7 DEF TokensInv, TokensTypeOK, RowsWhole
      <4>11. HandlersKnow'
        BY <4>4, <4>5, <4>6, <4>8 DEF TokensInv, HandlersKnow
      <4>12. CodeFirst'
        BY <4>4, <4>5, <4>6, <4>7 DEF TokensInv, CodeFirst
      <4>13. \A f \in Codes : /\ \A g \in Handlers : g # h => (Making(g, f)' <=> Making(g, f)) /\ (MarkingIn(g, f)' <=> MarkingIn(g, f))
                              /\ ~MarkingIn(h, f)' /\ (Making(h, f)' => f = c)
                              /\ \A q \in Pairs : Unused(q, f)' <=> Unused(q, f)
        BY <4>4, <4>5, <4>6 DEF Making, MarkingIn, Unused
      <4>14. /\ \A q \in Pairs : ~Unused(q, c)
             /\ \A g \in Handlers : ~Making(g, c) /\ ~MarkingIn(g, c)
        BY <4>9 DEF Making, MarkingIn, Unused
      <4>15. OneCarrier'
        BY <4>4, <4>5, <4>13, <4>14 DEF TokensInv, OneCarrier
      <4>16. RevokedStays'
        BY <4>4, <4>9, <4>13 DEF TokensInv, RevokedStays
      <4> QED
        BY <4>10, <4>11, <4>12, <4>15, <4>16 DEF TokensInv
    <3> QED
      BY <3>1, <3>2
  <2>2. ASSUME NEW h \in Handlers, NEW p \in Pairs, TokenFromRefresh(h, p) PROVE TokensInv'
    <3>1. PICK pc \in {"mark", "revoke"} : (pc = "mark" <=> ~refresh[p].used) /\ pc = (IF refresh[p].used THEN "revoke" ELSE "mark")
      OBVIOUS
    <3>2. PICK f \in Codes : f = refresh[p].fam
      <4>1. refresh[p].fam # NoFamily
        BY <2>2 DEF TokenFromRefresh, TokensInv, RowsWhole
      <4> QED
        BY <2>0, <4>1 DEF RefreshRows
    <3>3. [pc |-> pc, fam |-> f, from |-> p, pair |-> 0] \in TokenHandlers
      BY DEF TokenHandlers
    <3>4. PICK r \in TokenHandlers : r = [pc |-> pc, fam |-> f, from |-> p, pair |-> 0]
      BY <3>3
    <3>5. /\ handler' = [handler EXCEPT ![h] = r] /\ ~refresh[p].revoked
          /\ UNCHANGED <<code, refresh, sent, revoked, late>>
          /\ doubled \subseteq doubled'
          /\ f \notin doubled' => \A g \in Handlers : ~(handler[g].pc = "mark" /\ handler[g].from = p)
      BY <2>2, <3>1, <3>2, <3>4 DEF TokenFromRefresh, Accepts
    <3>6. /\ handler' \in [Handlers -> TokenHandlers] /\ handler'[h] = r
          /\ \A g \in Handlers : g # h => handler'[g] = handler[g]
      BY <3>5, HandlerGoes DEF TokensInv
    <3>7. r.pc = pc /\ r.fam = f /\ r.from = p
      BY <3>4
    <3>8. TokensTypeOK' /\ RowsWhole'
      BY <3>5, <3>6 DEF TokensInv, TokensTypeOK, RowsWhole
    <3>9. HandlersKnow'
      BY <3>2, <3>5, <3>6, <3>7 DEF TokensInv, HandlersKnow
    <3>10. CodeFirst'
      BY <3>2, <3>5, <3>6, <3>7 DEF TokensInv, CodeFirst
    <3>11. \A x \in Codes : /\ \A g \in Handlers : g # h => (Making(g, x)' <=> Making(g, x)) /\ (MarkingIn(g, x)' <=> MarkingIn(g, x))
                            /\ ~Making(h, x)' /\ (MarkingIn(h, x)' => x = f /\ ~refresh[p].used)
                            /\ \A q \in Pairs : Unused(q, x)' <=> Unused(q, x)
      BY <3>1, <3>5, <3>6, <3>7 DEF Making, MarkingIn, Unused
    <3>12. OneCarrier'
      <4> SUFFICES ASSUME NEW x \in Codes, x \notin doubled'
                   PROVE  /\ \A a, q \in Pairs : Unused(a, x)' /\ Unused(q, x)' => a = q
                          /\ \A a \in Pairs, g \in Handlers : ~(Unused(a, x)' /\ Making(g, x)')
                          /\ \A g, k \in Handlers : Making(g, x)' /\ Making(k, x)' => g = k
                          /\ \A g \in Handlers : MarkingIn(g, x)' => ~refresh'[handler'[g].from].used
                          /\ \A g, k \in Handlers : MarkingIn(g, x)' /\ MarkingIn(k, x)' => g = k
        BY DEF OneCarrier
      <4>0. x \notin doubled
        BY <3>5
      <4>1. \A a, q \in Pairs : Unused(a, x)' /\ Unused(q, x)' => a = q
        BY <3>11, <4>0 DEF TokensInv, OneCarrier
      <4>2. \A a \in Pairs, g \in Handlers : ~(Unused(a, x)' /\ Making(g, x)')
        BY <3>11, <4>0 DEF TokensInv, OneCarrier
      <4>3. \A g, k \in Handlers : Making(g, x)' /\ Making(k, x)' => g = k
        BY <3>11, <4>0 DEF TokensInv, OneCarrier
      <4>4. \A g \in Handlers : MarkingIn(g, x)' => ~refresh'[handler'[g].from].used
        BY <3>5, <3>6, <3>7, <3>11, <4>0 DEF TokensInv, OneCarrier
      <4>5. ASSUME NEW g \in Handlers, g # h, MarkingIn(g, x)', MarkingIn(h, x)' PROVE FALSE
        <5>1. x = f /\ ~refresh[p].used /\ MarkingIn(g, x)
          BY <3>11, <4>5
        <5>2. handler[g].from \in Pairs /\ refresh[handler[g].from].fam = x
          BY <5>1 DEF TokensInv, HandlersKnow, MarkingIn
        <5>3. Unused(handler[g].from, x) /\ Unused(p, x)
          BY <3>2, <4>0, <5>1, <5>2 DEF TokensInv, OneCarrier, Unused
        <5>4. handler[g].from = p
          BY <4>0, <5>2, <5>3 DEF TokensInv, OneCarrier
        <5> QED
          BY <3>5, <5>1, <5>4 DEF MarkingIn
      <4>6. \A g, k \in Handlers : MarkingIn(g, x)' /\ MarkingIn(k, x)' => g = k
        BY <3>11, <4>0, <4>5 DEF TokensInv, OneCarrier
      <4> QED
        BY <4>1, <4>2, <4>3, <4>4, <4>6
    <3>13. RevokedStays'
      BY <3>2, <3>5, <3>11 DEF TokensInv, RevokedStays
    <3> QED
      BY <3>8, <3>9, <3>10, <3>12, <3>13 DEF TokensInv
  <2>3. ASSUME NEW h \in Handlers, RevokeFamily(h) PROVE TokensInv'
    <3>1. PICK f \in Codes : f = handler[h].fam
      BY <2>3 DEF RevokeFamily, TokensInv, HandlersKnow
    <3>2. /\ handler' = [handler EXCEPT ![h] = Idle] /\ handler[h].pc = "revoke"
          /\ refresh' = [p \in Pairs |-> IF refresh[p].fam = f THEN [refresh[p] EXCEPT !.revoked = TRUE] ELSE refresh[p]]
          /\ revoked' = revoked \cup {f} /\ late \subseteq late'
          /\ f \notin late' => \A g \in Handlers : ~(handler[g].pc \in Steps /\ handler[g].fam = f)
          /\ UNCHANGED <<code, sent, doubled>>
      BY <2>3, <3>1 DEF RevokeFamily
    <3>3. /\ handler' \in [Handlers -> TokenHandlers] /\ handler'[h].pc = "idle"
          /\ \A g \in Handlers : g # h => handler'[g] = handler[g]
      BY <3>2, IdleHandler, HandlerGoes DEF TokensInv
    <3>4. \A p \in Pairs : /\ refresh'[p] \in RefreshRows /\ refresh'[p].fam = refresh[p].fam /\ refresh'[p].used = refresh[p].used
                           /\ refresh[p].revoked => refresh'[p].revoked
                           /\ refresh[p].fam = f => refresh'[p].revoked
      <4> SUFFICES ASSUME NEW p \in Pairs
                   PROVE  /\ refresh'[p] \in RefreshRows /\ refresh'[p].fam = refresh[p].fam /\ refresh'[p].used = refresh[p].used
                          /\ refresh[p].revoked => refresh'[p].revoked
                          /\ refresh[p].fam = f => refresh'[p].revoked
        OBVIOUS
      <4>1. CASE refresh[p].fam = f
        <5>1. refresh'[p] = [refresh[p] EXCEPT !.revoked = TRUE] /\ refresh[p] \in RefreshRows
          BY <2>0, <3>2, <4>1
        <5> QED
          BY <5>1 DEF RefreshRows
      <4>2. CASE refresh[p].fam # f
        BY <2>0, <3>2, <4>2
      <4> QED
        BY <4>1, <4>2
    <3>5. refresh' \in [Pairs -> RefreshRows]
      BY <3>2, <3>4
    <3>6. TokensTypeOK' /\ RowsWhole'
      BY <3>2, <3>3, <3>4, <3>5 DEF TokensInv, TokensTypeOK, RowsWhole
    <3>7. HandlersKnow'
      BY <3>3, <3>4 DEF TokensInv, HandlersKnow
    <3>8. CodeFirst'
      BY <3>1, <3>2, <3>3, <3>4 DEF TokensInv, CodeFirst
    <3>9. \A x \in Codes : /\ \A g \in Handlers : /\ Making(g, x)' => Making(g, x)
                                                  /\ MarkingIn(g, x)' => MarkingIn(g, x) /\ handler'[g] = handler[g]
                           /\ \A q \in Pairs : Unused(q, x)' <=> Unused(q, x)
      BY <3>3, <3>4 DEF Making, MarkingIn, Unused
    <3>10. OneCarrier'
      <4>1. \A g \in Handlers, x \in Codes : MarkingIn(g, x) => refresh'[handler[g].from].used = refresh[handler[g].from].used
        BY <3>4 DEF TokensInv, HandlersKnow, MarkingIn
      <4> QED
        BY <3>2, <3>9, <4>1 DEF TokensInv, OneCarrier
    <3>11. RevokedStays'
      <4> SUFFICES ASSUME NEW x \in Codes, x \in revoked', x \notin late'
                   PROVE  /\ \A p \in Pairs : refresh'[p].fam = x => refresh'[p].revoked
                          /\ \A g \in Handlers : ~MarkingIn(g, x)' /\ ~Making(g, x)'
        BY DEF RevokedStays
      <4>1. CASE x = f
        BY <3>2, <3>4, <3>9, <4>1 DEF Making, MarkingIn, Steps
      <4>2. CASE x # f
        BY <3>2, <3>4, <3>9, <4>2 DEF TokensInv, RevokedStays
      <4> QED
        BY <4>1, <4>2
    <3> QED
      BY <3>6, <3>7, <3>8, <3>10, <3>11 DEF TokensInv
  <2>4. ASSUME NEW h \in Handlers, MarkUsed(h) PROVE TokensInv'
    <3>1. PICK f \in Codes, p \in Pairs : f = handler[h].fam /\ p = handler[h].from /\ refresh[p].fam = f
      BY <2>4 DEF MarkUsed, TokensInv, HandlersKnow
    <3>2. PICK n \in Pairs : n = Draw /\ n \in Fresh
      BY <2>4, DrawIsFresh DEF MarkUsed, Fresh
    <3>3. /\ handler[h].pc = "mark" /\ refresh' = [refresh EXCEPT ![p].used = TRUE]
          /\ handler' = [handler EXCEPT ![h].pc = "access", ![h].pair = n]
          /\ UNCHANGED <<code, sent, revoked, doubled, late>>
      BY <2>4, <3>1, <3>2 DEF MarkUsed, Mark
    <3>4. handler'[h] = [handler[h] EXCEPT !.pc = "access", !.pair = n] /\ handler' = [handler EXCEPT ![h] = handler'[h]]
      BY <3>3 DEF TokensInv, TokensTypeOK
    <3>5. handler'[h] \in TokenHandlers /\ handler'[h].pc = "access" /\ handler'[h].pair = n /\ handler'[h].fam = f
      BY <2>0, <3>1, <3>4 DEF TokenHandlers
    <3>6. handler' \in [Handlers -> TokenHandlers] /\ \A g \in Handlers : g # h => handler'[g] = handler[g]
      BY <3>4, <3>5, HandlerGoes DEF TokensInv
    <3>7. refresh'[p] = [refresh[p] EXCEPT !.used = TRUE] /\ refresh' = [refresh EXCEPT ![p] = refresh'[p]]
      BY <3>3 DEF TokensInv, TokensTypeOK
    <3>8. refresh'[p] \in RefreshRows /\ refresh'[p].fam = f /\ refresh'[p].used /\ refresh'[p].revoked = refresh[p].revoked
      BY <2>0, <3>1, <3>7 DEF RefreshRows
    <3>9. refresh' \in [Pairs -> RefreshRows] /\ \A q \in Pairs : q # p => refresh'[q] = refresh[q]
      BY <3>7, <3>8 DEF TokensInv, TokensTypeOK
    <3>10. refresh[n].fam = NoFamily /\ (\A g \in Handlers : handler[g].pair # n) /\ n # p /\ f # NoFamily
      BY <3>1, <3>2, TokensAssumption DEF Fresh
    <3>11. TokensTypeOK' /\ RowsWhole'
      BY <3>1, <3>3, <3>6, <3>8, <3>9, <3>10 DEF TokensInv, TokensTypeOK, RowsWhole
    <3>12. HandlersKnow'
      <4>1. \A q \in Pairs : refresh'[q].fam = refresh[q].fam
        BY <3>1, <3>8, <3>9
      <4> QED
        BY <3>5, <3>6, <3>10, <4>1 DEF TokensInv, HandlersKnow
    <3>13. CodeFirst'
      BY <3>1, <3>3, <3>5, <3>6, <3>8, <3>9 DEF TokensInv, CodeFirst
    <3>14. \A x \in Codes : /\ \A g \in Handlers : g # h => (Making(g, x)' <=> Making(g, x)) /\ (MarkingIn(g, x)' <=> MarkingIn(g, x))
                            /\ ~MarkingIn(h, x)' /\ (Making(h, x)' => x = f)
                            /\ \A q \in Pairs : Unused(q, x)' <=> Unused(q, x) /\ q # p
      BY <3>1, <3>5, <3>6, <3>8, <3>9 DEF Making, MarkingIn, Unused
    <3>15. MarkingIn(h, f)
      BY <3>1, <3>3 DEF MarkingIn
    <3>16. f \notin doubled => /\ Unused(p, f) /\ \A g \in Handlers : ~Making(g, f)
                               /\ \A q \in Pairs : Unused(q, f) => q = p
                               /\ \A g \in Handlers : MarkingIn(g, f) => g = h
      <4>1. f \notin doubled => Unused(p, f)
        BY <3>1, <3>15 DEF TokensInv, OneCarrier, Unused
      <4> QED
        BY <3>15, <4>1 DEF TokensInv, OneCarrier
    <3>17. OneCarrier'
      <4> SUFFICES ASSUME NEW x \in Codes, x \notin doubled
                   PROVE  /\ \A a, q \in Pairs : Unused(a, x)' /\ Unused(q, x)' => a = q
                          /\ \A a \in Pairs, g \in Handlers : ~(Unused(a, x)' /\ Making(g, x)')
                          /\ \A g, k \in Handlers : Making(g, x)' /\ Making(k, x)' => g = k
                          /\ \A g \in Handlers : MarkingIn(g, x)' => ~refresh'[handler'[g].from].used
                          /\ \A g, k \in Handlers : MarkingIn(g, x)' /\ MarkingIn(k, x)' => g = k
        BY <3>3 DEF OneCarrier
      <4>1. CASE x = f
        BY <3>14, <3>16, <4>1
      <4>2. CASE x # f
        <5>1. \A g \in Handlers : MarkingIn(g, x)' => ~refresh'[handler'[g].from].used
          <6> SUFFICES ASSUME NEW g \in Handlers, MarkingIn(g, x)' PROVE ~refresh'[handler'[g].from].used
            OBVIOUS
          <6>1. g # h /\ MarkingIn(g, x) /\ handler'[g] = handler[g]
            BY <3>6, <3>14
          <6>2. handler[g].from \in Pairs /\ refresh[handler[g].from].fam = x
            BY <6>1 DEF TokensInv, HandlersKnow, MarkingIn
          <6>3. handler[g].from # p
            BY <3>1, <4>2, <6>2
          <6> QED
            BY <3>9, <6>1, <6>2, <6>3 DEF TokensInv, OneCarrier
        <5> QED
          BY <3>14, <4>2, <5>1 DEF TokensInv, OneCarrier
      <4> QED
        BY <4>1, <4>2
    <3>18. RevokedStays'
      BY <3>1, <3>3, <3>8, <3>9, <3>14, <3>15 DEF TokensInv, RevokedStays
    <3> QED
      BY <3>11, <3>12, <3>13, <3>17, <3>18 DEF TokensInv
  <2>5. ASSUME NEW h \in Handlers, PutAccess(h) PROVE TokensInv'
    <3>1. /\ handler[h].pc = "access" /\ handler' = [handler EXCEPT ![h].pc = "refresh"]
          /\ UNCHANGED <<code, refresh, sent, revoked, doubled, late>>
      BY <2>5 DEF PutAccess
    <3>2. handler'[h] = [handler[h] EXCEPT !.pc = "refresh"] /\ handler' = [handler EXCEPT ![h] = handler'[h]]
      BY <3>1 DEF TokensInv, TokensTypeOK
    <3>3. /\ handler'[h] \in TokenHandlers /\ handler'[h].pc = "refresh"
          /\ handler'[h].fam = handler[h].fam /\ handler'[h].pair = handler[h].pair
      BY <2>0, <3>2 DEF TokenHandlers
    <3> QED
      BY <3>1, <3>2, <3>3, HandlerOnly
  <2>6. ASSUME NEW h \in Handlers, PutRefresh(h) PROVE TokensInv'
    <3>1. PICK f \in Codes, p \in Pairs : f = handler[h].fam /\ p = handler[h].pair /\ refresh[p].fam = NoFamily
      BY <2>6 DEF PutRefresh, TokensInv, HandlersKnow
    <3>2. /\ handler[h].pc = "refresh" /\ refresh' = [refresh EXCEPT ![p].fam = f] /\ sent' = sent \cup {p}
          /\ handler' = [handler EXCEPT ![h] = Idle] /\ UNCHANGED <<code, revoked, doubled, late>>
      BY <2>6, <3>1 DEF PutRefresh
    <3>3. /\ handler' \in [Handlers -> TokenHandlers] /\ handler'[h].pc = "idle"
          /\ \A g \in Handlers : g # h => handler'[g] = handler[g]
      BY <3>2, IdleHandler, HandlerGoes DEF TokensInv
    <3>4. refresh'[p] = [refresh[p] EXCEPT !.fam = f] /\ refresh' = [refresh EXCEPT ![p] = refresh'[p]]
      BY <3>2 DEF TokensInv, TokensTypeOK
    <3>5. refresh'[p] \in RefreshRows /\ refresh'[p].fam = f
      BY <2>0, <3>1, <3>4 DEF RefreshRows
    <3>6. refresh' \in [Pairs -> RefreshRows] /\ \A q \in Pairs : q # p => refresh'[q] = refresh[q]
      BY <3>4, <3>5 DEF TokensInv, TokensTypeOK
    <3>7. f # NoFamily
      BY TokensAssumption
    <3>8. TokensTypeOK' /\ RowsWhole'
      BY <3>2, <3>3, <3>5, <3>6, <3>7 DEF TokensInv, TokensTypeOK, RowsWhole
    <3>9. \A q \in Pairs : refresh[q].fam # NoFamily => q # p
      BY <3>1
    <3>10. HandlersKnow'
      <4>1. \A g \in Handlers : g # h /\ handler[g].pc \in {"access", "refresh"} => handler[g].pair # p
        BY <3>1, <3>2 DEF TokensInv, HandlersKnow
      <4>2. \A g \in Handlers : handler[g].pc \in {"mark", "revoke"} => handler[g].from # p
        BY <3>1, TokensAssumption DEF TokensInv, HandlersKnow
      <4> QED
        BY <3>3, <3>6, <4>1, <4>2 DEF TokensInv, HandlersKnow
    <3>11. Making(h, f)
      BY <3>1, <3>2 DEF Making
    <3>12. CodeFirst'
      <4>1. code[f] # "live"
        BY <3>1, <3>2 DEF TokensInv, CodeFirst
      <4> QED
        BY <3>2, <3>3, <3>5, <3>6, <4>1 DEF TokensInv, CodeFirst
    <3>13. \A x \in Codes : /\ \A g \in Handlers : /\ Making(g, x)' => Making(g, x) /\ g # h
                                                   /\ MarkingIn(g, x)' => MarkingIn(g, x) /\ handler'[g] = handler[g]
                            /\ \A q \in Pairs : Unused(q, x)' => (Unused(q, x) /\ q # p) \/ (q = p /\ x = f)
      <4>2. \A x \in Codes : Unused(p, x)' => x = f
        BY <3>5 DEF Unused
      <4>3. \A x \in Codes, q \in Pairs : q # p => (Unused(q, x)' <=> Unused(q, x))
        BY <3>6 DEF Unused
      <4> QED
        BY <3>3, <4>2, <4>3 DEF Making, MarkingIn
    <3>14. f \notin doubled => /\ \A q \in Pairs : ~Unused(q, f)
                               /\ \A g \in Handlers : Making(g, f) => g = h
                               /\ \A g \in Handlers : ~MarkingIn(g, f)
      <4>1. f \notin doubled => \A q \in Pairs : ~Unused(q, f)
        BY <3>11 DEF TokensInv, OneCarrier
      <4>2. f \notin doubled => \A g \in Handlers : ~MarkingIn(g, f)
        BY <4>1 DEF TokensInv, OneCarrier, HandlersKnow, MarkingIn, Unused
      <4> QED
        BY <3>11, <4>1, <4>2 DEF TokensInv, OneCarrier
    <3>15. OneCarrier'
      <4> SUFFICES ASSUME NEW x \in Codes, x \notin doubled
                   PROVE  /\ \A a, q \in Pairs : Unused(a, x)' /\ Unused(q, x)' => a = q
                          /\ \A a \in Pairs, g \in Handlers : ~(Unused(a, x)' /\ Making(g, x)')
                          /\ \A g, k \in Handlers : Making(g, x)' /\ Making(k, x)' => g = k
                          /\ \A g \in Handlers : MarkingIn(g, x)' => ~refresh'[handler'[g].from].used
                          /\ \A g, k \in Handlers : MarkingIn(g, x)' /\ MarkingIn(k, x)' => g = k
        BY <3>2 DEF OneCarrier
      <4>1. CASE x = f
        BY <3>13, <3>14, <4>1
      <4>2. CASE x # f
        <5>1. \A g \in Handlers : MarkingIn(g, x)' => ~refresh'[handler'[g].from].used
          <6> SUFFICES ASSUME NEW g \in Handlers, MarkingIn(g, x)' PROVE ~refresh'[handler'[g].from].used
            OBVIOUS
          <6>1. MarkingIn(g, x) /\ handler'[g] = handler[g]
            BY <3>13
          <6>2. handler[g].from \in Pairs /\ refresh[handler[g].from].fam = x
            BY <6>1 DEF TokensInv, HandlersKnow, MarkingIn
          <6>3. handler[g].from # p
            BY <3>1, <6>2, TokensAssumption
          <6> QED
            BY <3>6, <6>1, <6>2, <6>3 DEF TokensInv, OneCarrier
        <5> QED
          BY <3>13, <4>2, <5>1 DEF TokensInv, OneCarrier
      <4> QED
        BY <4>1, <4>2
    <3>16. RevokedStays'
      <4>1. f \in revoked => f \in late
        BY <3>11 DEF TokensInv, RevokedStays
      <4> QED
        BY <3>2, <3>5, <3>6, <3>13, <4>1 DEF TokensInv, RevokedStays
    <3> QED
      BY <3>8, <3>10, <3>12, <3>15, <3>16 DEF TokensInv
  <2>7. ASSUME NEW h \in Handlers, StoreFails(h) PROVE TokensInv'
    BY <2>7, IdleHandler, HandlerOnly DEF StoreFails
  <2>8. CASE Expires
    <3>1. CASE UNCHANGED <<code, refresh>>
      BY <2>8, <2>k, <3>1 DEF Expires
    <3>2. CASE UNCHANGED refresh /\ \E c \in Codes : TakeAuthCode(c)
      BY <2>8, <2>c, <3>2 DEF Expires
    <3>3. ASSUME NEW p \in Pairs, refresh' = [refresh EXCEPT ![p].old = TRUE], UNCHANGED code PROVE TokensInv'
      <4>1. refresh'[p] = [refresh[p] EXCEPT !.old = TRUE] /\ refresh' = [refresh EXCEPT ![p] = refresh'[p]]
        BY <3>3 DEF TokensInv, TokensTypeOK
      <4>2. /\ refresh'[p] \in RefreshRows /\ refresh'[p].fam = refresh[p].fam /\ refresh'[p].used = refresh[p].used
            /\ refresh'[p].revoked = refresh[p].revoked
        BY <2>0, <4>1 DEF RefreshRows
      <4>3. refresh' \in [Pairs -> RefreshRows]
        BY <4>1, <4>2 DEF TokensInv, TokensTypeOK
      <4>4. \A q \in Pairs : /\ refresh'[q].fam = refresh[q].fam /\ refresh'[q].used = refresh[q].used
                             /\ refresh'[q].revoked = refresh[q].revoked
        BY <4>1, <4>2 DEF TokensInv, TokensTypeOK
      <4>5. UNCHANGED <<code, handler, sent, revoked, doubled, late>>
        BY <2>8, <3>3 DEF Expires
      <4>6. TokensTypeOK' /\ RowsWhole' /\ HandlersKnow' /\ CodeFirst'
        BY <4>3, <4>4, <4>5 DEF TokensInv, TokensTypeOK, RowsWhole, HandlersKnow, CodeFirst
      <4>7. \A x \in Codes : /\ \A g \in Handlers : (Making(g, x)' <=> Making(g, x)) /\ (MarkingIn(g, x)' <=> MarkingIn(g, x))
                             /\ \A q \in Pairs : Unused(q, x)' <=> Unused(q, x)
        BY <4>4, <4>5 DEF Making, MarkingIn, Unused
      <4>8. \A g \in Handlers, x \in Codes : MarkingIn(g, x) => refresh'[handler[g].from].used = refresh[handler[g].from].used
        BY <4>4 DEF TokensInv, HandlersKnow, MarkingIn
      <4>9. OneCarrier' /\ RevokedStays'
        BY <4>4, <4>5, <4>7, <4>8 DEF TokensInv, OneCarrier, RevokedStays
      <4> QED
        BY <4>6, <4>9 DEF TokensInv
    <3> QED
      BY <2>8, <3>1, <3>2, <3>3 DEF Expires
  <2>9. CASE UNCHANGED tvars
    BY <2>9, <2>k DEF tvars
  <2> QED
    BY <2>1, <2>2, <2>3, <2>4, <2>5, <2>6, <2>7, <2>8, <2>9 DEF TokensNext
<1>3. TokensInv => OneUsableToken
  <2> SUFFICES ASSUME TokensInv, NEW p \in Pairs, Usable(p)
               PROVE  /\ refresh[p].fam \in revoked => refresh[p].fam \in late
                      /\ \A q \in Pairs \ {p} : Usable(q) /\ refresh[q].fam = refresh[p].fam => refresh[p].fam \in doubled
    BY DEF OneUsableToken
  <2>1. refresh[p].fam \in Codes
    BY DEF TokensInv, TokensTypeOK, RefreshRows, Usable
  <2>2. refresh[p].fam \in revoked => refresh[p].fam \in late
    BY <2>1 DEF TokensInv, RevokedStays, Usable
  <2>3. \A q \in Pairs \ {p} : Usable(q) /\ refresh[q].fam = refresh[p].fam => refresh[p].fam \in doubled
    BY <2>1 DEF TokensInv, OneCarrier, Unused, Usable
  <2> QED
    BY <2>2, <2>3
<1> QED
  BY <1>1, <1>2, <1>3, PTL DEF TokensSpec

-----------------------------------------------------------------------------
(* Tunnel: forwarded responses. *)

\* A frame of a response, on the wire or in a readLoop's hand.
Frames == [who : Fwds, n : -1..EndFrame]

\* The frames of a response channel, and whether it was closed.
Channels == [buf : Seq(-1..EndFrame), closed : BOOLEAN]

\* A forward goroutine.
FwdRecords == [pc : {"idle", "start", "send", "wait", "whole", "returned", "failed", "gaveup"}, conn : 0..MaxConns,
               status : BOOLEAN, got : Nat, gap : BOOLEAN]

\* An answer goroutine of the Companion.
WorkRecords == [conn : 0..MaxConns, next : 0..(EndFrame + 1), kept : BOOLEAN]

\* The types of the state.
TunnelTypeOK ==
  /\ reg \in 0..MaxConns /\ old \in [Conns -> 0..MaxConns] /\ pend \in [Conns -> SUBSET Fwds]
  /\ reading \in [Conns -> Frames \cup {NoFrame}] /\ wire \in [Conns -> Seq(Frames)]
  /\ chan \in [Fwds -> Channels] /\ fwd \in [Fwds -> FwdRecords] /\ work \in [Fwds -> WorkRecords]

\* A readLoop's hand holds a frame of f.
IsOf(h, f) == h.n >= Keepalive /\ h.who = f

\* The last frame that went out to the caller, heartbeats left aside; the header is number 0.
Low(k) == IF k.status THEN k.got ELSE -1

\* Before the request of f is out.
Early == {"idle", "start", "send"}

\* Frames of f travel on its own connection, and none do before its request is out.
TravelsAlone(f) ==
  /\ \A c \in Conns :
       /\ f \in pend[c] => c = fwd[f].conn /\ fwd[f].pc \in {"send", "wait"}
       /\ IsOf(reading[c], f) => c = fwd[f].conn /\ fwd[f].pc \notin Early
       /\ \A i \in DOMAIN wire[c] : wire[c][i].who = f => c = fwd[f].conn /\ fwd[f].pc \notin Early
  /\ fwd[f].pc # "idle" => fwd[f].conn \in Conns
  /\ fwd[f].pc \in Early => work[f] = NoWork /\ chan[f].buf = <<>> /\ ~fwd[f].status
  /\ ~fwd[f].status => fwd[f].got = 0
  /\ work[f].conn \in {0, fwd[f].conn}

\* Of what was sent to f, in its channel b, in the readLoop's hand h and on the wire w, nothing is there twice.
NoCopies(f, b, h, w, next) ==
  /\ \A i \in DOMAIN b : b[i] < next
  /\ \A i, j \in DOMAIN b : i # j /\ b[i] = b[j] => b[i] = Keepalive
  /\ IsOf(h, f) => h.n < next /\ \A j \in DOMAIN b : b[j] = h.n => h.n = Keepalive
  /\ \A i \in DOMAIN w : w[i].who = f =>
       /\ w[i].n < next
       /\ \A j \in DOMAIN b : b[j] = w[i].n => w[i].n = Keepalive
       /\ IsOf(h, f) /\ h.n = w[i].n => w[i].n = Keepalive
       /\ \A j \in DOMAIN w : j # i /\ w[j].who = f /\ w[j].n = w[i].n => w[i].n = Keepalive

\* Frame v went out, or is in the channel.
Arrived(b, low, v) == v = low \/ (v # Keepalive /\ \E j \in DOMAIN b : b[j] = v)

\* Or is in the hand of the readLoop.
Near(f, b, h, low, v) == Arrived(b, low, v) \/ (v # Keepalive /\ IsOf(h, f) /\ h.n = v)

\* Or is at place i on the wire.
Sent(w, i, f, v) == v # Keepalive /\ w[i].who = f /\ w[i].n = v

\* In the channel every frame comes after its predecessor.
ChannelHolds(b, low) ==
  \A i \in DOMAIN b : b[i] # Keepalive => b[i] = low + 1 \/ \E j \in DOMAIN b : j < i /\ b[j] # Keepalive /\ b[j] = b[i] - 1

\* So does the one in the hand of the readLoop.
HandHolds(f, b, h, low) == IsOf(h, f) /\ h.n # Keepalive => Arrived(b, low, h.n - 1)

\* So do those on the wire, and the one that the Companion will send next.
WireHolds(f, b, h, w, next, low) ==
  /\ \A i \in DOMAIN w : w[i].who = f /\ w[i].n # Keepalive =>
       Near(f, b, h, low, w[i].n - 1) \/ \E j \in DOMAIN w : j < i /\ Sent(w, j, f, w[i].n - 1)
  /\ Near(f, b, h, low, next - 1) \/ \E i \in DOMAIN w : Sent(w, i, f, next - 1)

\* The stream of f has no hole: in its channel, in the hand as long as the channel is open, and further back as long as
\* frames of f are still let through.
NoHoles(f, b, h, w, next, low, shut, served) ==
  /\ ChannelHolds(b, low)
  /\ ~shut => HandHolds(f, b, h, low)
  /\ ~shut /\ f \in served => WireHolds(f, b, h, w, next, low)

\* A caller that waits.
StreamFits(f) ==
  LET c == fwd[f].conn IN
  fwd[f].pc = "wait" =>
    /\ NoCopies(f, chan[f].buf, reading[c], wire[c], work[f].next)
    /\ NoHoles(f, chan[f].buf, reading[c], wire[c], work[f].next, Low(fwd[f]), chan[f].closed, pend[c])

\* The inductive invariant of the tunnel.
TunnelInv == TunnelTypeOK /\ StreamIsIntact /\ \A f \in Fwds : TravelsAlone(f) /\ StreamFits(f)

\* A sequence that grew by one.
LEMMA AppendFact ==
  ASSUME NEW S, NEW s \in Seq(S), NEW x \in S, NEW t, t = Append(s, x)
  PROVE  /\ t \in Seq(S) /\ Len(s) \in Nat /\ DOMAIN s = 1..Len(s) /\ DOMAIN t = 1..(Len(s) + 1)
         /\ t[Len(s) + 1] = x /\ \A i \in 1..Len(s) : t[i] = s[i]
OBVIOUS

\* A sequence without its head.
LEMMA TailFact ==
  ASSUME NEW S, NEW s \in Seq(S), s # <<>>, NEW t, t = Tail(s)
  PROVE  /\ t \in Seq(S) /\ Len(s) \in Nat \ {0} /\ DOMAIN s = 1..Len(s) /\ DOMAIN t = 1..(Len(s) - 1)
         /\ Head(s) = s[1] /\ Head(s) \in S /\ \A i \in 1..(Len(s) - 1) : t[i] = s[i + 1]
OBVIOUS

\* The number of a frame.
LEMMA FrameFact ==
  /\ \A x \in Frames : x.n \in Int /\ x.n >= -1 /\ x.n <= Chunks + 1 /\ x.who \in Fwds
  /\ NoFrame.n = -2 /\ Chunks \in Nat \ {0}
BY TunnelAssumption DEF Frames, EndFrame, NoFrame

\* What is nobody's or somebody else's does not count.
LEMMA NobodysFrame ==
  ASSUME NEW f
  PROVE  ~IsOf(NoFrame, f)
BY DEF IsOf, NoFrame, Keepalive

\* d is b with one more at its end.
Extends(d, b, x) == d = Append(b, x)

\* The Companion sends the next frame, or a heartbeat.
LEMMA SendHolds ==
  ASSUME NEW f, NEW b \in Seq(Int), NEW h, NEW w \in Seq(Frames), NEW next \in Nat, NEW low \in Int, NEW m \in Nat,
         NEW x \in Frames, x.who = f, (x.n = next /\ m = next + 1) \/ (x.n = Keepalive /\ m = next), NEW v, Extends(v, w, x),
         NEW shut, NEW served,
         NoCopies(f, b, h, w, next), NoHoles(f, b, h, w, next, low, shut, served), h.n \in Int
  PROVE  NoCopies(f, b, h, v, m) /\ NoHoles(f, b, h, v, m, low, shut, served)
<1>1. /\ Len(w) \in Nat /\ DOMAIN w = 1..Len(w) /\ DOMAIN v = 1..(Len(w) + 1)
      /\ v[Len(w) + 1] = x /\ \A i \in 1..Len(w) : v[i] = w[i]
  BY AppendFact DEF Extends
<1>2. /\ \A i \in DOMAIN b : b[i] \in Int
      /\ \A i \in DOMAIN w : w[i].n \in Int
  BY <1>1, FrameFact
<1>3. Keepalive = -1 /\ m >= next /\ x.n < m
  BY DEF Keepalive
<1>4. \A i \in DOMAIN v : i \in DOMAIN w \/ i = Len(w) + 1
  BY <1>1
<1>5. NoCopies(f, b, h, v, m)
  <2>1. /\ \A i \in DOMAIN b : b[i] < m
        /\ \A i, j \in DOMAIN b : i # j /\ b[i] = b[j] => b[i] = Keepalive
        /\ IsOf(h, f) => h.n < m /\ \A j \in DOMAIN b : b[j] = h.n => h.n = Keepalive
    BY <1>2, <1>3 DEF NoCopies
  <2>2. ASSUME NEW i \in DOMAIN v, v[i].who = f
        PROVE  /\ v[i].n < m
               /\ \A j \in DOMAIN b : b[j] = v[i].n => v[i].n = Keepalive
               /\ IsOf(h, f) /\ h.n = v[i].n => v[i].n = Keepalive
               /\ \A j \in DOMAIN v : j # i /\ v[j].who = f /\ v[j].n = v[i].n => v[i].n = Keepalive
    <3>1. CASE i \in DOMAIN w
      BY <1>1, <1>2, <1>3, <1>4, <2>2, <3>1 DEF NoCopies
    <3>2. CASE i = Len(w) + 1
      BY <1>1, <1>2, <1>3, <1>4, <2>2, <3>2 DEF NoCopies
    <3> QED
      BY <1>4, <3>1, <3>2
  <2> QED
    BY <2>1, <2>2 DEF NoCopies
<1>6. ASSUME WireHolds(f, b, h, w, next, low) PROVE WireHolds(f, b, h, v, m, low)
  <2>1. ASSUME NEW i \in DOMAIN v, v[i].who = f, v[i].n # Keepalive
        PROVE  Near(f, b, h, low, v[i].n - 1) \/ \E j \in DOMAIN v : j < i /\ Sent(v, j, f, v[i].n - 1)
    <3>1. CASE i \in DOMAIN w
      <4>1. w[i] = v[i] /\ \A j \in DOMAIN w : j \in DOMAIN v /\ v[j] = w[j]
        BY <1>1, <3>1
      <4>2. Near(f, b, h, low, v[i].n - 1) \/ \E j \in DOMAIN w : j < i /\ Sent(w, j, f, v[i].n - 1)
        BY <1>6, <2>1, <3>1, <4>1 DEF WireHolds
      <4> QED
        BY <4>1, <4>2 DEF Sent
    <3>2. CASE i = Len(w) + 1
      <4>1. v[i].n = next
        BY <1>1, <2>1, <3>2
      <4>2. CASE Near(f, b, h, low, next - 1)
        BY <4>1, <4>2
      <4>3. ASSUME NEW j \in DOMAIN w, Sent(w, j, f, next - 1)
            PROVE  j \in DOMAIN v /\ j < i /\ Sent(v, j, f, v[i].n - 1)
        BY <1>1, <3>2, <4>1, <4>3 DEF Sent
      <4> QED
        BY <1>6, <4>2, <4>3 DEF WireHolds, Sent
    <3> QED
      BY <1>4, <2>1, <3>1, <3>2
  <2>2. Near(f, b, h, low, m - 1) \/ \E i \in DOMAIN v : Sent(v, i, f, m - 1)
    <3>1. CASE x.n = next /\ m = next + 1
      <4>1. Len(w) + 1 \in DOMAIN v /\ Sent(v, Len(w) + 1, f, m - 1)
        BY <1>1, <3>1 DEF Sent, Keepalive
      <4> QED
        BY <4>1
    <3>2. CASE m = next
      BY <1>1, <1>6, <3>2 DEF WireHolds, Sent
    <3> QED
      BY <3>1, <3>2
  <2> QED
    BY <2>1, <2>2 DEF WireHolds, Sent
<1> QED
  BY <1>5, <1>6 DEF NoHoles

\* Somebody else's frame goes on the same wire.
LEMMA OthersSendHolds ==
  ASSUME NEW f, NEW b \in Seq(Int), NEW h, NEW w \in Seq(Frames), NEW next \in Nat, NEW low \in Int,
         NEW x \in Frames, x.who # f, NEW v, Extends(v, w, x), NEW shut, NEW served,
         NoCopies(f, b, h, w, next), NoHoles(f, b, h, w, next, low, shut, served)
  PROVE  NoCopies(f, b, h, v, next) /\ NoHoles(f, b, h, v, next, low, shut, served)
<1>1. /\ Len(w) \in Nat /\ DOMAIN w = 1..Len(w) /\ DOMAIN v = 1..(Len(w) + 1)
      /\ v[Len(w) + 1] = x /\ \A i \in 1..Len(w) : v[i] = w[i]
  BY AppendFact DEF Extends
<1>2. /\ \A i \in DOMAIN v : v[i].who = f => i \in DOMAIN w /\ v[i] = w[i]
      /\ \A i \in DOMAIN w : i \in DOMAIN v /\ v[i] = w[i]
  BY <1>1
<1>3. NoCopies(f, b, h, v, next)
  BY <1>2 DEF NoCopies
<1>4. ASSUME WireHolds(f, b, h, w, next, low) PROVE WireHolds(f, b, h, v, next, low)
  <2>1. ASSUME NEW i \in DOMAIN v, v[i].who = f, v[i].n # Keepalive
        PROVE  Near(f, b, h, low, v[i].n - 1) \/ \E j \in DOMAIN v : j < i /\ Sent(v, j, f, v[i].n - 1)
    <3>1. i \in DOMAIN w /\ w[i] = v[i]
      BY <1>2, <2>1
    <3>2. Near(f, b, h, low, v[i].n - 1) \/ \E j \in DOMAIN w : j < i /\ Sent(w, j, f, v[i].n - 1)
      BY <1>4, <2>1, <3>1 DEF WireHolds, Sent
    <3> QED
      BY <1>2, <3>2 DEF Sent
  <2>2. Near(f, b, h, low, next - 1) \/ \E i \in DOMAIN v : Sent(v, i, f, next - 1)
    BY <1>2, <1>4 DEF WireHolds, Sent
  <2> QED
    BY <2>1, <2>2 DEF WireHolds, Sent
<1> QED
  BY <1>3, <1>4 DEF NoHoles

\* readLoop takes the first frame off the wire: f's own into its hand, as long as f is served.
LEMMA ReadHolds ==
  ASSUME NEW f, NEW b \in Seq(Int), NEW h, ~IsOf(h, f), NEW w \in Seq(Frames), w # <<>>, NEW v, v = Tail(w),
         NEW g, NEW next \in Nat, NEW low \in Int, NEW shut, NEW served,
         IF w[1].who = f THEN (f \in served => g = w[1]) /\ (g = w[1] \/ ~IsOf(g, f)) ELSE ~IsOf(g, f),
         NoCopies(f, b, h, w, next), NoHoles(f, b, h, w, next, low, shut, served), IsOf(g, f) => f \in served
  PROVE  NoCopies(f, b, g, v, next) /\ NoHoles(f, b, g, v, next, low, shut, served)
<1>1. /\ Len(w) \in Nat \ {0} /\ DOMAIN w = 1..Len(w) /\ DOMAIN v = 1..(Len(w) - 1)
      /\ w[1] \in Frames /\ \A i \in 1..(Len(w) - 1) : v[i] = w[i + 1]
  BY TailFact
<1>2. /\ \A i \in DOMAIN v : i + 1 \in DOMAIN w /\ v[i] = w[i + 1] /\ i \in Int
      /\ 1 \in DOMAIN w /\ \A i \in DOMAIN w : i = 1 \/ (i - 1 \in DOMAIN v /\ v[i - 1] = w[i] /\ i \in Int)
  BY <1>1
<1>3. IsOf(g, f) => g = w[1] /\ w[1].who = f
  OBVIOUS
<1>4. NoCopies(f, b, g, v, next)
  <2>1. /\ \A i \in DOMAIN b : b[i] < next
        /\ \A i, j \in DOMAIN b : i # j /\ b[i] = b[j] => b[i] = Keepalive
        /\ IsOf(g, f) => g.n < next /\ \A j \in DOMAIN b : b[j] = g.n => g.n = Keepalive
    BY <1>2, <1>3 DEF NoCopies
  <2>2. ASSUME NEW i \in DOMAIN v, v[i].who = f
        PROVE  /\ v[i].n < next
               /\ \A j \in DOMAIN b : b[j] = v[i].n => v[i].n = Keepalive
               /\ IsOf(g, f) /\ g.n = v[i].n => v[i].n = Keepalive
               /\ \A j \in DOMAIN v : j # i /\ v[j].who = f /\ v[j].n = v[i].n => v[i].n = Keepalive
    <3>1. i + 1 # 1 /\ \A j \in DOMAIN v : j # i => j + 1 # i + 1
      BY <1>2
    <3> QED
      BY <1>2, <1>3, <2>2, <3>1 DEF NoCopies
  <2> QED
    BY <2>1, <2>2 DEF NoCopies
<1>5. ASSUME NEW k, Near(f, b, h, low, k) PROVE Near(f, b, g, low, k)
  BY <1>5 DEF Near
<1>6. ASSUME f \in served, WireHolds(f, b, h, w, next, low) PROVE HandHolds(f, b, g, low)
  <2> SUFFICES ASSUME IsOf(g, f), g.n # Keepalive PROVE Arrived(b, low, g.n - 1)
    BY DEF HandHolds
  <2>1. g = w[1] /\ w[1].who = f /\ \A j \in DOMAIN w : ~(j < 1)
    BY <1>1, <1>3
  <2> QED
    BY <1>2, <1>6, <2>1 DEF WireHolds, Sent, Near
<1>7. ASSUME f \in served, WireHolds(f, b, h, w, next, low) PROVE WireHolds(f, b, g, v, next, low)
  <2>1. w[1].who = f => IsOf(g, f)
    BY <1>1, <1>7, FrameFact DEF IsOf, Keepalive
  <2>2. ASSUME NEW i \in DOMAIN v, v[i].who = f, v[i].n # Keepalive
        PROVE  Near(f, b, g, low, v[i].n - 1) \/ \E j \in DOMAIN v : j < i /\ Sent(v, j, f, v[i].n - 1)
    <3>1. CASE Near(f, b, h, low, v[i].n - 1)
      BY <1>5, <3>1
    <3>2. ASSUME NEW j \in DOMAIN w, j < i + 1, Sent(w, j, f, v[i].n - 1)
          PROVE  Near(f, b, g, low, v[i].n - 1) \/ \E k \in DOMAIN v : k < i /\ Sent(v, k, f, v[i].n - 1)
      <4>1. CASE j = 1
        BY <1>7, <2>1, <3>2, <4>1 DEF Near, Sent
      <4>2. CASE j # 1
        <5>1. j - 1 \in DOMAIN v /\ v[j - 1] = w[j] /\ j - 1 < i
          BY <1>2, <3>2, <4>2
        <5> QED
          BY <3>2, <5>1 DEF Sent
      <4> QED
        BY <4>1, <4>2
    <3>3. i + 1 \in DOMAIN w /\ w[i + 1] = v[i]
      BY <1>2
    <3> QED
      BY <1>7, <2>2, <3>1, <3>2, <3>3 DEF WireHolds, Sent
  <2>3. Near(f, b, g, low, next - 1) \/ \E i \in DOMAIN v : Sent(v, i, f, next - 1)
    <3>1. CASE Near(f, b, h, low, next - 1)
      BY <1>5, <3>1
    <3>2. ASSUME NEW j \in DOMAIN w, Sent(w, j, f, next - 1)
          PROVE  Near(f, b, g, low, next - 1) \/ \E k \in DOMAIN v : Sent(v, k, f, next - 1)
      <4>1. CASE j = 1
        BY <1>7, <2>1, <3>2, <4>1 DEF Near, Sent
      <4>2. CASE j # 1
        BY <1>2, <3>2, <4>2 DEF Sent
      <4> QED
        BY <4>1, <4>2
    <3> QED
      BY <1>7, <3>1, <3>2 DEF WireHolds, Sent
  <2> QED
    BY <2>2, <2>3 DEF WireHolds, Sent
<1>8. ~IsOf(g, f) => HandHolds(f, b, g, low)
  BY DEF HandHolds
<1> QED
  BY <1>3, <1>4, <1>6, <1>7, <1>8 DEF NoHoles

\* readLoop puts the frame in its hand into f's channel.
LEMMA DispatchHolds ==
  ASSUME NEW f, NEW b \in Seq(Int), NEW h \in Frames, h.who = f, NEW w \in Seq(Frames), NEW next \in Nat, NEW low \in Int,
         NEW d, Extends(d, b, h.n), NEW g, ~IsOf(g, f), NEW shut, shut = FALSE, NEW served,
         NoCopies(f, b, h, w, next), NoHoles(f, b, h, w, next, low, shut, served)
  PROVE  NoCopies(f, d, g, w, next) /\ NoHoles(f, d, g, w, next, low, shut, served)
<1>1. h.n \in Int /\ IsOf(h, f)
  BY FrameFact DEF IsOf, Keepalive
<1>2. /\ Len(b) \in Nat /\ DOMAIN b = 1..Len(b) /\ DOMAIN d = 1..(Len(b) + 1)
      /\ d[Len(b) + 1] = h.n /\ \A i \in 1..Len(b) : d[i] = b[i]
  BY <1>1, AppendFact DEF Extends
<1>3. /\ \A i \in DOMAIN d : (i \in DOMAIN b /\ d[i] = b[i]) \/ (i = Len(b) + 1 /\ d[i] = h.n)
      /\ \A i \in DOMAIN b : i \in DOMAIN d /\ d[i] = b[i] /\ i < Len(b) + 1
      /\ Len(b) + 1 \in DOMAIN d
  BY <1>2
<1>4. NoCopies(f, d, g, w, next)
  <2>1. \A i \in DOMAIN d : d[i] < next
    BY <1>1, <1>3 DEF NoCopies
  <2>2. \A i, j \in DOMAIN d : i # j /\ d[i] = d[j] => d[i] = Keepalive
    BY <1>1, <1>3 DEF NoCopies
  <2>3. ASSUME NEW i \in DOMAIN w, w[i].who = f
        PROVE  /\ w[i].n < next
               /\ \A j \in DOMAIN d : d[j] = w[i].n => w[i].n = Keepalive
               /\ \A j \in DOMAIN w : j # i /\ w[j].who = f /\ w[j].n = w[i].n => w[i].n = Keepalive
    BY <1>1, <1>3, <2>3 DEF NoCopies
  <2> QED
    BY <2>1, <2>2, <2>3 DEF NoCopies
<1>5. ASSUME NEW k, Near(f, b, h, low, k) PROVE Arrived(d, low, k)
  BY <1>1, <1>3, <1>5 DEF Near, Arrived
<1>6. ChannelHolds(d, low)
  <2> SUFFICES ASSUME NEW i \in DOMAIN d, d[i] # Keepalive
               PROVE  d[i] = low + 1 \/ \E j \in DOMAIN d : j < i /\ d[j] # Keepalive /\ d[j] = d[i] - 1
    BY DEF ChannelHolds
  <2>1. CASE i \in DOMAIN b /\ d[i] = b[i]
    BY <1>3, <2>1 DEF NoHoles, ChannelHolds
  <2>2. CASE i = Len(b) + 1 /\ d[i] = h.n
    <3>1. Arrived(b, low, h.n - 1)
      BY <1>1, <2>2 DEF NoHoles, HandHolds
    <3>2. CASE h.n - 1 = low
      BY <1>1, <2>2, <3>2
    <3>3. CASE h.n - 1 # Keepalive /\ \E j \in DOMAIN b : b[j] = h.n - 1
      BY <1>3, <2>2, <3>3
    <3> QED
      BY <3>1, <3>2, <3>3 DEF Arrived
  <2> QED
    BY <1>3, <2>1, <2>2
<1>7. ASSUME WireHolds(f, b, h, w, next, low) PROVE WireHolds(f, d, g, w, next, low)
  <2>1. \A k : Near(f, b, h, low, k) => Near(f, d, g, low, k)
    BY <1>5 DEF Near
  <2> QED
    BY <1>7, <2>1 DEF WireHolds, Sent
<1> QED
  BY <1>4, <1>6, <1>7 DEF NoHoles, HandHolds

\* d is b without its head, which moves what went out last from low to up.
Passes(b, d, low, up) == d = Tail(b) /\ up = IF b[1] = Keepalive THEN low ELSE b[1]

\* The caller takes a frame from its channel: a heartbeat, or exactly the one after the last.
LEMMA DeliverHolds ==
  ASSUME NEW f, NEW b \in Seq(Int), b # <<>>, NEW d, NEW h, NEW w \in Seq(Frames), NEW next \in Nat,
         NEW low \in Int, NEW up \in Int, Passes(b, d, low, up), h.n \in Int, NEW shut, NEW served,
         NoCopies(f, b, h, w, next), NoHoles(f, b, h, w, next, low, shut, served)
  PROVE  /\ b[1] = Keepalive \/ b[1] = low + 1
         /\ NoCopies(f, d, h, w, next) /\ NoHoles(f, d, h, w, next, up, shut, served)
<1>1. d = Tail(b) /\ up = IF b[1] = Keepalive THEN low ELSE b[1]
  BY DEF Passes
<1>2. /\ Len(b) \in Nat \ {0} /\ DOMAIN b = 1..Len(b) /\ DOMAIN d = 1..(Len(b) - 1)
      /\ b[1] \in Int /\ \A i \in 1..(Len(b) - 1) : d[i] = b[i + 1]
  BY <1>1, TailFact
<1>3. /\ \A i \in DOMAIN d : i + 1 \in DOMAIN b /\ d[i] = b[i + 1] /\ i \in Int /\ i + 1 # 1
      /\ 1 \in DOMAIN b /\ \A i \in DOMAIN b : i = 1 \/ (i - 1 \in DOMAIN d /\ d[i - 1] = b[i] /\ i \in Int)
      /\ \A i \in DOMAIN b : ~(i < 1) /\ b[i] \in Int
  <2>1. \A i \in DOMAIN b : b[i] \in Int
    OBVIOUS
  <2> QED
    BY <1>2, <2>1
<1>4. b[1] = Keepalive \/ b[1] = low + 1
  BY <1>3 DEF NoHoles, ChannelHolds
<1>5. NoCopies(f, d, h, w, next)
  <2>1. \A i \in DOMAIN d : d[i] < next
    BY <1>3 DEF NoCopies
  <2>2. \A i, j \in DOMAIN d : i # j /\ d[i] = d[j] => d[i] = Keepalive
    <3>1. \A i, j \in DOMAIN d : i # j => i + 1 # j + 1
      BY <1>3
    <3> QED
      BY <1>3, <3>1 DEF NoCopies
  <2>3. IsOf(h, f) => h.n < next /\ \A j \in DOMAIN d : d[j] = h.n => h.n = Keepalive
    BY <1>3 DEF NoCopies
  <2>4. ASSUME NEW i \in DOMAIN w, w[i].who = f
        PROVE  /\ w[i].n < next
               /\ \A j \in DOMAIN d : d[j] = w[i].n => w[i].n = Keepalive
               /\ IsOf(h, f) /\ h.n = w[i].n => w[i].n = Keepalive
               /\ \A j \in DOMAIN w : j # i /\ w[j].who = f /\ w[j].n = w[i].n => w[i].n = Keepalive
    BY <1>3, <2>4 DEF NoCopies
  <2> QED
    BY <2>1, <2>2, <2>3, <2>4 DEF NoCopies
<1>6. ASSUME NEW k \in Int, Arrived(b, low, k), b[1] # Keepalive => k + 1 # b[1]
      PROVE  Arrived(d, up, k)
  <2>1. CASE k = low
    BY <1>1, <1>4, <1>6, <2>1 DEF Arrived
  <2>2. ASSUME NEW j \in DOMAIN b, b[j] = k, k # Keepalive PROVE Arrived(d, up, k)
    <3>1. CASE j = 1
      BY <1>1, <2>2, <3>1 DEF Arrived
    <3>2. CASE j # 1
      BY <1>3, <2>2, <3>2 DEF Arrived
    <3> QED
      BY <3>1, <3>2
  <2> QED
    BY <1>6, <2>1, <2>2 DEF Arrived
<1>7. ChannelHolds(d, up)
  <2> SUFFICES ASSUME NEW i \in DOMAIN d, d[i] # Keepalive
               PROVE  d[i] = up + 1 \/ \E j \in DOMAIN d : j < i /\ d[j] # Keepalive /\ d[j] = d[i] - 1
    BY DEF ChannelHolds
  <2>1. i + 1 \in DOMAIN b /\ b[i + 1] = d[i] /\ i + 1 # 1 /\ d[i] \in Int
    BY <1>3
  <2>2. b[1] # Keepalive => d[i] # b[1]
    BY <1>3, <2>1 DEF NoCopies
  <2>3. CASE d[i] = low + 1
    BY <1>1, <1>4, <2>2, <2>3
  <2>4. ASSUME NEW j \in DOMAIN b, j < i + 1, b[j] # Keepalive, b[j] = d[i] - 1
        PROVE  d[i] = up + 1 \/ \E k \in DOMAIN d : k < i /\ d[k] # Keepalive /\ d[k] = d[i] - 1
    <3>1. CASE j = 1
      BY <1>1, <2>1, <2>4, <3>1
    <3>2. CASE j # 1
      <4>1. j - 1 \in DOMAIN d /\ d[j - 1] = b[j] /\ j \in Int /\ i \in Int
        BY <1>3, <2>4, <3>2
      <4>2. j - 1 < i
        BY <2>4, <4>1
      <4> QED
        BY <2>4, <4>1, <4>2
    <3> QED
      BY <3>1, <3>2
  <2> QED
    BY <2>1, <2>3, <2>4 DEF NoHoles, ChannelHolds
<1>8. ASSUME HandHolds(f, b, h, low), h.n \in Int PROVE HandHolds(f, d, h, up)
  <2> SUFFICES ASSUME IsOf(h, f), h.n # Keepalive PROVE Arrived(d, up, h.n - 1)
    BY DEF HandHolds
  <2>1. Arrived(b, low, h.n - 1)
    BY <1>8 DEF HandHolds
  <2>2. h.n # b[1]
    BY <1>3 DEF NoCopies
  <2> QED
    BY <1>3, <1>6, <1>8, <2>1, <2>2
<1>9. ASSUME NEW k \in Int, Near(f, b, h, low, k), b[1] # Keepalive => k + 1 # b[1] PROVE Near(f, d, h, up, k)
  BY <1>6, <1>9 DEF Near
<1>10. ASSUME WireHolds(f, b, h, w, next, low) PROVE WireHolds(f, d, h, w, next, up)
  <2>1. ASSUME NEW i \in DOMAIN w, w[i].who = f, w[i].n # Keepalive
        PROVE  Near(f, d, h, up, w[i].n - 1) \/ \E j \in DOMAIN w : j < i /\ Sent(w, j, f, w[i].n - 1)
    <3>1. w[i].n # b[1] /\ w[i].n \in Int
      BY <1>3, <2>1, FrameFact DEF NoCopies
    <3> QED
      BY <1>9, <1>10, <2>1, <3>1 DEF WireHolds
  <2>2. Near(f, d, h, up, next - 1) \/ \E i \in DOMAIN w : Sent(w, i, f, next - 1)
    <3>1. b[1] < next
      BY <1>3 DEF NoCopies
    <3> QED
      BY <1>3, <1>9, <1>10, <3>1 DEF WireHolds
  <2> QED
    BY <2>1, <2>2 DEF WireHolds
<1> QED
  BY <1>4, <1>5, <1>7, <1>8, <1>10 DEF NoHoles

\* A channel that closes, a caller that is no longer served and a frame that is dropped with its channel do no harm.
LEMMA LoosenHolds ==
  ASSUME NEW f, NEW b, NEW h, NEW g, NEW w, NEW next, NEW low, NEW shut, NEW served, NEW shut2, NEW served2,
         shut => shut2, f \in served2 => f \in served, g = h \/ (~IsOf(g, f) /\ (IsOf(h, f) => shut2)),
         NoCopies(f, b, h, w, next), NoHoles(f, b, h, w, next, low, shut, served)
  PROVE  NoCopies(f, b, g, w, next) /\ NoHoles(f, b, g, w, next, low, shut2, served2)
<1>1. CASE g = h
  BY <1>1 DEF NoHoles
<1>2. CASE ~IsOf(g, f) /\ (IsOf(h, f) => shut2)
  <2>1. NoCopies(f, b, g, w, next)
    BY <1>2 DEF NoCopies
  <2>2. HandHolds(f, b, g, low)
    BY <1>2 DEF HandHolds
  <2>3. ASSUME ~shut2, f \in served2 PROVE WireHolds(f, b, g, w, next, low)
    <3>1. ~IsOf(h, f) /\ WireHolds(f, b, h, w, next, low)
      BY <1>2, <2>3 DEF NoHoles
    <3>2. \A v : Near(f, b, h, low, v) => Near(f, b, g, low, v)
      BY <1>2, <3>1 DEF Near
    <3> QED
      BY <3>1, <3>2 DEF WireHolds
  <2> QED
    BY <2>1, <2>2, <2>3 DEF NoHoles
<1> QED
  BY <1>1, <1>2

\* What the types say of one caller and its connection.
LEMMA TunnelFacts ==
  ASSUME TunnelTypeOK, NEW f \in Fwds
  PROVE  /\ fwd[f] \in FwdRecords /\ work[f] \in WorkRecords /\ chan[f] \in Channels
         /\ chan[f].buf \in Seq(Int) /\ chan[f].closed \in BOOLEAN /\ work[f].next \in Nat /\ Low(fwd[f]) \in Int
         /\ fwd[f].got \in Int /\ fwd[f].status \in BOOLEAN
         /\ \A c \in Conns : wire[c] \in Seq(Frames) /\ reading[c] \in Frames \cup {NoFrame} /\ reading[c].n \in Int
<1>1. fwd[f] \in FwdRecords /\ work[f] \in WorkRecords /\ chan[f] \in Channels
  BY DEF TunnelTypeOK
<1>2. chan[f].buf \in Seq(-1..EndFrame) /\ chan[f].closed \in BOOLEAN /\ -1..EndFrame \subseteq Int
  BY <1>1, FrameFact DEF Channels, EndFrame
<1>3. chan[f].buf \in Seq(Int)
  BY <1>2, SeqMonotonic
<1>4. work[f].next \in Nat
  BY <1>1, FrameFact DEF WorkRecords, EndFrame
<1>5. Low(fwd[f]) \in Int /\ fwd[f].got \in Int /\ fwd[f].status \in BOOLEAN
  BY <1>1 DEF Low, FwdRecords
<1>6. \A c \in Conns : wire[c] \in Seq(Frames) /\ reading[c] \in Frames \cup {NoFrame} /\ reading[c].n \in Int
  BY FrameFact DEF TunnelTypeOK
<1> QED
  BY <1>1, <1>2, <1>3, <1>4, <1>5, <1>6

\* A caller that does not move, whose connection does not, and which is served no longer than before.
LEMMA StreamKept ==
  ASSUME TunnelInv, NEW f \in Fwds, fwd'[f] = fwd[f], work'[f] = work[f],
         chan'[f].buf = chan[f].buf, chan[f].closed => chan'[f].closed,
         \A c \in Conns : /\ wire'[c] = wire[c] /\ (f \in pend'[c] => f \in pend[c])
                          /\ \/ reading'[c] = reading[c]
                             \/ ~IsOf(reading'[c], f) /\ (IsOf(reading[c], f) => chan'[f].closed)
  PROVE  TravelsAlone(f)' /\ StreamFits(f)'
<1>1. TravelsAlone(f)'
  BY DEF TunnelInv, TravelsAlone
<1>2. ASSUME fwd[f].pc = "wait" PROVE StreamFits(f)'
  <2>1. PICK c \in Conns : c = fwd[f].conn
    BY <1>2 DEF TunnelInv, TravelsAlone
  <2>2. /\ NoCopies(f, chan[f].buf, reading[c], wire[c], work[f].next)
        /\ NoHoles(f, chan[f].buf, reading[c], wire[c], work[f].next, Low(fwd[f]), chan[f].closed, pend[c])
    BY <1>2, <2>1 DEF TunnelInv, StreamFits
  <2>3. ASSUME NEW b, NEW h, NEW g, NEW w, NEW next, NEW low, NEW shut, NEW shut2, NEW served, NEW served2,
               b = chan[f].buf, h = reading[c], g = reading'[c], w = wire[c], next = work[f].next, low = Low(fwd[f]),
               shut = chan[f].closed, shut2 = chan'[f].closed, served = pend[c], served2 = pend'[c]
        PROVE  NoCopies(f, b, g, w, next) /\ NoHoles(f, b, g, w, next, low, shut2, served2)
    <3>1. NoCopies(f, b, h, w, next) /\ NoHoles(f, b, h, w, next, low, shut, served)
      BY <2>2, <2>3
    <3>2. (shut => shut2) /\ (f \in served2 => f \in served) /\ (g = h \/ (~IsOf(g, f) /\ (IsOf(h, f) => shut2)))
      BY <2>3
    <3> QED
      BY <3>1, <3>2, LoosenHolds
  <2>4. /\ NoCopies(f, chan[f].buf, reading'[c], wire[c], work[f].next)
        /\ NoHoles(f, chan[f].buf, reading'[c], wire[c], work[f].next, Low(fwd[f]), chan'[f].closed, pend'[c])
    BY <2>3
  <2> QED
    BY <2>1, <2>4 DEF StreamFits
<1>3. fwd[f].pc # "wait" => StreamFits(f)'
  BY DEF StreamFits
<1> QED
  BY <1>1, <1>2, <1>3

\* Connections come, go and are closed, and channels with them.
LEMMA LoosenFits ==
  ASSUME TunnelInv, reg' \in 0..MaxConns, old' \in [Conns -> 0..MaxConns], UNCHANGED <<fwd, work, wire>>,
         pend' \in [Conns -> SUBSET Fwds], \A c \in Conns : pend'[c] \subseteq pend[c],
         chan' \in [Fwds -> Channels], \A f \in Fwds : chan'[f].buf = chan[f].buf /\ (chan[f].closed => chan'[f].closed),
         reading' \in [Conns -> Frames \cup {NoFrame}],
         \A c \in Conns : reading'[c] = reading[c] \/ (reading'[c] = NoFrame /\ chan'[reading[c].who].closed)
  PROVE  TunnelInv'
<1>1. TunnelTypeOK' /\ StreamIsIntact'
  BY DEF TunnelInv, TunnelTypeOK, StreamIsIntact
<1>2. ASSUME NEW f \in Fwds PROVE TravelsAlone(f)' /\ StreamFits(f)'
  <2>1. \A c \in Conns : \/ reading'[c] = reading[c]
                         \/ ~IsOf(reading'[c], f) /\ (IsOf(reading[c], f) => chan'[f].closed)
    BY NobodysFrame DEF IsOf
  <2> QED
    BY <2>1, StreamKept
<1> QED
  BY <1>1, <1>2 DEF TunnelInv

\* close ends a connection: its callers are no longer served.
LEMMA CloseFact ==
  ASSUME TunnelTypeOK, NEW c \in Conns, CloseConn(c)
  PROVE  pend' \in [Conns -> SUBSET Fwds] /\ \A b \in Conns : pend'[b] \subseteq pend[b]
BY DEF CloseConn, TunnelTypeOK

\* The steps of HandleTunnel and of readLoop that only take away.
LEMMA ConnectionsFit ==
  ASSUME TunnelInv, NEW c \in Conns,
         \/ Dial(c) \/ LinkBreaks(c) \/ ReplaceOld(c) \/ OnConnect(c) \/ FallsBehind(c)
         \/ ReadFails(c) \/ Leave(c) \/ OnDisconnect(c)
         \/ \E f \in Fwds : CloseChannel(c, f)
  PROVE  TunnelInv'
<1>1. /\ reg \in 0..MaxConns /\ old \in [Conns -> 0..MaxConns] /\ pend \in [Conns -> SUBSET Fwds]
      /\ chan \in [Fwds -> Channels] /\ reading \in [Conns -> Frames \cup {NoFrame}]
      /\ c \in 0..MaxConns /\ 0 \in 0..MaxConns /\ TunnelTypeOK /\ \A x \in 0..MaxConns : x # 0 => x \in Conns
  <2>1. c \in 0..MaxConns /\ 0 \in 0..MaxConns /\ \A x \in 0..MaxConns : x # 0 => x \in Conns
    BY TunnelAssumption DEF Conns
  <2> QED
    BY <2>1 DEF TunnelInv, TunnelTypeOK
<1>2. CASE Dial(c)
  BY <1>1, <1>2, LoosenFits DEF Dial, callVars
<1>3. CASE LinkBreaks(c) \/ OnConnect(c) \/ FallsBehind(c) \/ Leave(c) \/ OnDisconnect(c)
  BY <1>1, <1>3, LoosenFits DEF LinkBreaks, OnConnect, FallsBehind, Leave, OnDisconnect, callVars, serverVars
<1>4. CASE ReplaceOld(c)
  <2>1. UNCHANGED <<reg, old, reading, chan, fwd, work, wire>>
    BY <1>4 DEF ReplaceOld, callVars
  <2>2. pend' \in [Conns -> SUBSET Fwds] /\ \A b \in Conns : pend'[b] \subseteq pend[b]
    BY <1>1, <1>4, CloseFact DEF ReplaceOld
  <2> QED
    BY <1>1, <2>1, <2>2, LoosenFits
<1>5. CASE ReadFails(c)
  <2>1. UNCHANGED <<reg, old, reading, chan, fwd, work, wire>>
    BY <1>5 DEF ReadFails, callVars
  <2>2. pend' \in [Conns -> SUBSET Fwds] /\ \A b \in Conns : pend'[b] \subseteq pend[b]
    BY <1>1, <1>5, CloseFact DEF ReadFails
  <2> QED
    BY <1>1, <2>1, <2>2, LoosenFits
<1>6. ASSUME NEW f \in Fwds, CloseChannel(c, f) PROVE TunnelInv'
  <2>1. UNCHANGED <<reg, old, reading, pend, fwd, work, wire>> /\ chan' = [chan EXCEPT ![f].closed = TRUE]
    BY <1>6 DEF CloseChannel, callVars, serverVars
  <2>2. chan' \in [Fwds -> Channels] /\ \A g \in Fwds : chan'[g].buf = chan[g].buf /\ (chan[g].closed => chan'[g].closed)
    BY <1>1, <2>1 DEF Channels
  <2> QED
    BY <1>1, <2>1, <2>2, LoosenFits
<1> QED
  BY <1>2, <1>3, <1>4, <1>5, <1>6

\* A frame is read off the wire.
LEMMA ReadFrameFits ==
  ASSUME TunnelInv, NEW c \in Conns, ReadFrame(c)
  PROVE  TunnelInv'
<1>1. PICK w \in Seq(Frames) : w = wire[c]
  BY DEF TunnelInv, TunnelTypeOK
<1>2. PICK v : v = Tail(w)
  OBVIOUS
<1>3. PICK x : x = Head(w)
  OBVIOUS
<1>4. w # <<>> /\ reading[c] = NoFrame
  BY <1>1 DEF ReadFrame
<1>5. /\ v \in Seq(Frames) /\ Len(w) \in Nat \ {0} /\ DOMAIN w = 1..Len(w) /\ DOMAIN v = 1..(Len(w) - 1)
      /\ x = w[1] /\ x \in Frames /\ \A i \in 1..(Len(w) - 1) : v[i] = w[i + 1]
  BY <1>1, <1>2, <1>3, <1>4, TailFact
<1>6. PICK g : g = IF x.who \in pend[c] THEN x ELSE NoFrame
  OBVIOUS
<1>7. /\ wire' = [wire EXCEPT ![c] = v] /\ reading' = [reading EXCEPT ![c] = g]
      /\ UNCHANGED <<reg, old, pend, chan, fwd, work>>
  BY <1>1, <1>2, <1>3, <1>6 DEF ReadFrame, callVars, serverVars
<1>8. TunnelTypeOK' /\ StreamIsIntact'
  BY <1>5, <1>6, <1>7 DEF TunnelInv, TunnelTypeOK, StreamIsIntact
<1>9. /\ \A b \in Conns : wire'[b] = (IF b = c THEN v ELSE wire[b]) /\ reading'[b] = (IF b = c THEN g ELSE reading[b])
  BY <1>7 DEF TunnelInv, TunnelTypeOK
<1>10. ASSUME NEW f \in Fwds PROVE TravelsAlone(f)' /\ StreamFits(f)'
  <2>1. CASE fwd[f].conn # c
    <3>1. ~IsOf(g, f)
      <4>1. x.who # f
        BY <1>1, <1>5, <2>1 DEF TunnelInv, TravelsAlone
      <4> QED
        BY <1>6, <4>1, NobodysFrame DEF IsOf
    <3>2. TravelsAlone(f)'
      <4>1. \A i \in DOMAIN v : v[i].who # f
        BY <1>1, <1>5, <2>1 DEF TunnelInv, TravelsAlone
      <4> QED
        BY <1>7, <1>9, <3>1, <4>1 DEF TunnelInv, TravelsAlone
    <3>3. ASSUME fwd[f].pc = "wait" PROVE StreamFits(f)'
      <4>1. fwd[f].conn \in Conns
        BY <3>3 DEF TunnelInv, TravelsAlone
      <4> QED
        BY <1>7, <1>9, <2>1, <4>1 DEF TunnelInv, StreamFits
    <3> QED
      BY <1>7, <3>2, <3>3 DEF StreamFits
  <2>2. CASE fwd[f].conn = c
    <3>1. TravelsAlone(f)'
      <4>1. \A i \in DOMAIN v : v[i].who = f => fwd[f].pc \notin Early
        BY <1>1, <1>5, <2>2 DEF TunnelInv, TravelsAlone
      <4>2. IsOf(g, f) => fwd[f].pc \notin Early
        BY <1>1, <1>5, <1>6, <2>2, NobodysFrame DEF TunnelInv, TravelsAlone, IsOf
      <4> QED
        BY <1>7, <1>9, <2>2, <4>1, <4>2 DEF TunnelInv, TravelsAlone
    <3>2. ASSUME fwd[f].pc = "wait" PROVE StreamFits(f)'
      <4>1. ASSUME NEW b, NEW h, NEW next, NEW low, NEW shut, NEW served,
                   b = chan[f].buf, h = reading[c], next = work[f].next, low = Low(fwd[f]), shut = chan[f].closed, served = pend[c]
            PROVE  NoCopies(f, b, g, v, next) /\ NoHoles(f, b, g, v, next, low, shut, served)
        <5>1. NoCopies(f, b, h, w, next) /\ NoHoles(f, b, h, w, next, low, shut, served)
          BY <1>1, <2>2, <3>2, <4>1 DEF TunnelInv, StreamFits
        <5>2. b \in Seq(Int) /\ next \in Nat /\ low \in Int
          BY <4>1, TunnelFacts DEF TunnelInv
        <5>3. ~IsOf(h, f)
          BY <1>4, <4>1, NobodysFrame
        <5>4. /\ IF w[1].who = f THEN (f \in served => g = w[1]) /\ (g = w[1] \/ ~IsOf(g, f)) ELSE ~IsOf(g, f)
              /\ IsOf(g, f) => f \in served
          BY <1>5, <1>6, <4>1, NobodysFrame DEF IsOf
        <5> QED
          BY <1>2, <1>4, <5>1, <5>2, <5>3, <5>4, ReadHolds
      <4> QED
        BY <1>7, <1>9, <2>2, <4>1 DEF StreamFits
    <3> QED
      BY <1>7, <3>1, <3>2 DEF StreamFits
  <2> QED
    BY <2>1, <2>2
<1> QED
  BY <1>8, <1>10 DEF TunnelInv

\* readLoop's select: into the channel, or the channel is closed, or it is full and the caller is dropped.
LEMMA DispatchFits ==
  ASSUME TunnelInv, NEW c \in Conns, Dispatch(c)
  PROVE  TunnelInv'
<1>1. PICK h : h = reading[c]
  OBVIOUS
<1>2. PICK f : f = h.who
  OBVIOUS
<1>3. /\ h # NoFrame /\ h \in Frames /\ f \in Fwds /\ h.n \in -1..EndFrame
  BY <1>1, <1>2 DEF TunnelInv, TunnelTypeOK, Dispatch, Frames
<1>4. /\ reg \in 0..MaxConns /\ old \in [Conns -> 0..MaxConns] /\ pend \in [Conns -> SUBSET Fwds]
      /\ chan \in [Fwds -> Channels] /\ reading \in [Conns -> Frames \cup {NoFrame}]
  BY DEF TunnelInv, TunnelTypeOK
<1>5. reading' = [reading EXCEPT ![c] = NoFrame] /\ UNCHANGED <<reg, old, fwd, work, wire>>
  BY DEF Dispatch, callVars
<1>6. /\ reading' \in [Conns -> Frames \cup {NoFrame}]
      /\ \A b \in Conns : reading'[b] = IF b = c THEN NoFrame ELSE reading[b]
  BY <1>4, <1>5
<1>7. CASE chan[f].closed /\ UNCHANGED <<pend, chan>>
  <2>1. \A b \in Conns : reading'[b] = reading[b] \/ (reading'[b] = NoFrame /\ chan'[reading[b].who].closed)
    BY <1>1, <1>2, <1>6, <1>7
  <2> QED
    BY <1>4, <1>5, <1>6, <1>7, <2>1, LoosenFits
<1>8. CASE Overflow(c, f)
  <2>1. pend' = [pend EXCEPT ![c] = @ \ {f}] /\ chan' = [chan EXCEPT ![f].closed = TRUE]
    BY <1>8 DEF Overflow
  <2>2. pend' \in [Conns -> SUBSET Fwds] /\ \A b \in Conns : pend'[b] \subseteq pend[b]
    BY <1>4, <2>1
  <2>3. /\ chan' \in [Fwds -> Channels] /\ chan'[f].closed
        /\ \A g \in Fwds : chan'[g].buf = chan[g].buf /\ (chan[g].closed => chan'[g].closed)
    BY <1>3, <1>4, <2>1 DEF Channels
  <2>4. \A b \in Conns : reading'[b] = reading[b] \/ (reading'[b] = NoFrame /\ chan'[reading[b].who].closed)
    BY <1>1, <1>2, <1>6, <2>3
  <2> QED
    BY <1>4, <1>5, <1>6, <2>2, <2>3, <2>4, LoosenFits
<1>9. CASE /\ ~chan[f].closed /\ chan' = [chan EXCEPT ![f].buf = Append(@, h.n)] /\ pend' = pend
  <2>1. PICK b : b = chan[f].buf
    OBVIOUS
  <2>2. PICK d : d = Append(b, h.n)
    OBVIOUS
  <2>3. b \in Seq(-1..EndFrame) /\ d \in Seq(-1..EndFrame)
    <3>1. b \in Seq(-1..EndFrame)
      BY <1>3, <1>4, <2>1 DEF Channels
    <3> QED
      BY <1>3, <2>2, <3>1
  <2>4. \A g \in Fwds : chan'[g].closed = chan[g].closed /\ chan'[g].buf = IF g = f THEN d ELSE chan[g].buf
    BY <1>4, <1>9, <2>1, <2>2 DEF Channels
  <2>5. chan' \in [Fwds -> Channels]
    BY <1>4, <1>9, <2>1, <2>2, <2>3 DEF Channels
  <2>6. TunnelTypeOK' /\ StreamIsIntact'
    BY <1>5, <1>6, <1>9, <2>5 DEF TunnelInv, TunnelTypeOK, StreamIsIntact
  <2>7. ASSUME NEW g \in Fwds, g # f PROVE TravelsAlone(g)' /\ StreamFits(g)'
    <3>1. \A x \in Conns : reading'[x] = reading[x] \/ (~IsOf(reading'[x], g) /\ (IsOf(reading[x], g) => chan'[g].closed))
      BY <1>1, <1>2, <1>6, <2>7, NobodysFrame DEF IsOf
    <3> QED
      BY <1>5, <1>9, <2>4, <2>7, <3>1, StreamKept
  <2>8. IsOf(h, f) /\ fwd[f].conn = c /\ fwd[f].pc \notin Early
    <3>1. IsOf(h, f)
      BY <1>2, <1>3, FrameFact DEF IsOf, Keepalive
    <3> QED
      BY <1>1, <1>3, <3>1 DEF TunnelInv, TravelsAlone
  <2>9. TravelsAlone(f)'
    BY <1>3, <1>5, <1>6, <1>9, <2>8, NobodysFrame DEF TunnelInv, TravelsAlone
  <2>10. ASSUME fwd[f].pc = "wait" PROVE StreamFits(f)'
    <3>1. ASSUME NEW w, NEW next, NEW low, NEW shut, NEW served, w = wire[c], next = work[f].next, low = Low(fwd[f]),
                 shut = chan[f].closed, served = pend[c]
          PROVE  NoCopies(f, d, NoFrame, w, next) /\ NoHoles(f, d, NoFrame, w, next, low, shut, served)
      <4>1. NoCopies(f, b, h, w, next) /\ NoHoles(f, b, h, w, next, low, shut, served)
        BY <1>1, <1>3, <2>1, <2>8, <2>10, <3>1 DEF TunnelInv, StreamFits
      <4>2. b \in Seq(Int) /\ next \in Nat /\ low \in Int /\ w \in Seq(Frames)
        <5>1. /\ chan[f].buf \in Seq(Int) /\ work[f].next \in Nat /\ Low(fwd[f]) \in Int
              /\ \A x \in Conns : wire[x] \in Seq(Frames)
          BY <1>3, TunnelFacts DEF TunnelInv
        <5> QED
          BY <2>1, <3>1, <5>1
      <4>3. PICK g : g = NoFrame
        OBVIOUS
      <4>4. shut = FALSE /\ ~IsOf(g, f) /\ h \in Frames /\ h.who = f
        BY <1>2, <1>3, <1>4, <1>9, <3>1, <4>3, NobodysFrame DEF Channels
      <4>5. Extends(d, b, h.n)
        BY <2>2 DEF Extends
      <4>6. NoCopies(f, d, g, w, next) /\ NoHoles(f, d, g, w, next, low, shut, served)
        BY <4>1, <4>2, <4>4, <4>5, DispatchHolds
      <4> QED
        BY <4>3, <4>6
    <3>2. chan'[f].closed = chan[f].closed
      BY <1>3, <2>4
    <3>3. /\ NoCopies(f, d, NoFrame, wire[c], work[f].next)
          /\ NoHoles(f, d, NoFrame, wire[c], work[f].next, Low(fwd[f]), chan[f].closed, pend[c])
      BY <3>1
    <3>4. /\ chan'[f].buf = d /\ reading'[c] = NoFrame /\ pend' = pend
          /\ wire' = wire /\ work' = work /\ fwd' = fwd
      BY <1>3, <1>5, <1>6, <1>9, <2>4
    <3> QED
      BY <2>8, <3>2, <3>3, <3>4 DEF StreamFits
  <2> QED
    BY <1>3, <1>5, <2>6, <2>7, <2>9, <2>10 DEF TunnelInv, StreamFits
<1> QED
  BY <1>1, <1>2, <1>7, <1>8, <1>9 DEF Dispatch

\* Callers that a step does not concern.
LEMMA BystandersFit ==
  ASSUME TunnelInv, NEW f \in Fwds, UNCHANGED <<reading, wire>>,
         \A g \in Fwds \ {f} : fwd'[g] = fwd[g] /\ work'[g] = work[g] /\ chan'[g] = chan[g],
         \A c \in Conns : pend'[c] \ {f} \subseteq pend[c]
  PROVE  \A g \in Fwds \ {f} : TravelsAlone(g)' /\ StreamFits(g)'
<1> SUFFICES ASSUME NEW g \in Fwds \ {f} PROVE TravelsAlone(g)' /\ StreamFits(g)'
  OBVIOUS
<1> QED
  BY StreamKept

\* A caller comes, registers, sends its request, or leaves.
LEMMA CallersFit ==
  ASSUME TunnelInv, NEW f \in Fwds,
         ForwardLooks(f) \/ StartRequest(f) \/ SendRequest(f) \/ StreamCut(f) \/ GiveUpForward(f)
  PROVE  TunnelInv'
<1>1. /\ pend \in [Conns -> SUBSET Fwds] /\ fwd \in [Fwds -> FwdRecords] /\ work \in [Fwds -> WorkRecords] /\ reg \in 0..MaxConns
      /\ fwd[f] \in FwdRecords /\ work[f] \in WorkRecords /\ TravelsAlone(f) /\ ~fwd[f].gap
  BY DEF TunnelInv, TunnelTypeOK, StreamIsIntact
<1>2. UNCHANGED <<reg, old, reading, chan, wire>>
  BY DEF ForwardLooks, StartRequest, SendRequest, StreamCut, GiveUpForward, serverVars
<1>3. ASSUME NEW k \in FwdRecords, fwd' = [fwd EXCEPT ![f] = k], ~k.gap, NEW l \in WorkRecords, work' = [work EXCEPT ![f] = l],
             pend' \in [Conns -> SUBSET Fwds], \A c \in Conns : pend'[c] \ {f} \subseteq pend[c],
             TravelsAlone(f)', StreamFits(f)'
      PROVE  TunnelInv'
  <2>1. \A g \in Fwds \ {f} : fwd'[g] = fwd[g] /\ work'[g] = work[g] /\ chan'[g] = chan[g]
    BY <1>1, <1>2, <1>3
  <2>2. \A g \in Fwds \ {f} : TravelsAlone(g)' /\ StreamFits(g)'
    BY <1>2, <1>3, <2>1, BystandersFit
  <2>3. TunnelTypeOK' /\ StreamIsIntact'
    BY <1>1, <1>2, <1>3 DEF TunnelInv, TunnelTypeOK, StreamIsIntact
  <2> QED
    BY <1>3, <2>2, <2>3 DEF TunnelInv
<1>4. ASSUME NEW pc, pc \in {"wait", "returned", "failed", "gaveup", "send"},
             NEW k, k = [fwd[f] EXCEPT !.pc = pc]
      PROVE  /\ k \in FwdRecords /\ ~k.gap /\ k.pc = pc /\ k.conn = fwd[f].conn /\ k.status = fwd[f].status /\ k.got = fwd[f].got
  BY <1>1, <1>4 DEF FwdRecords
<1>5. CASE ForwardLooks(f)
  <2>1. PICK k : k = [fwd[f] EXCEPT !.pc = "start", !.conn = reg]
    OBVIOUS
  <2>2. /\ fwd' = [fwd EXCEPT ![f] = k] /\ pend' = pend /\ work' = work /\ reg \in Conns /\ fwd[f].pc = "idle"
    <3>1. fwd' = [fwd EXCEPT ![f] = k] /\ pend' = pend /\ work' = work /\ reg # 0 /\ fwd[f].pc = "idle"
      BY <1>1, <1>5, <2>1 DEF ForwardLooks
    <3>2. reg \in Conns
      BY <1>1, <3>1, TunnelAssumption DEF Conns
    <3> QED
      BY <3>1, <3>2
  <2>3. k \in FwdRecords /\ ~k.gap /\ k.pc = "start" /\ k.conn = reg /\ k.status = fwd[f].status /\ k.got = fwd[f].got
    BY <1>1, <2>1 DEF FwdRecords
  <2>4. fwd'[f] = k
    BY <1>1, <2>2
  <2>5. TravelsAlone(f)'
    BY <1>1, <1>2, <2>2, <2>3, <2>4 DEF TravelsAlone, Early, NoWork
  <2>6. StreamFits(f)'
    BY <2>3, <2>4 DEF StreamFits
  <2>7. work' = [work EXCEPT ![f] = work[f]]
    BY <1>1, <2>2
  <2> QED
    BY <1>1, <1>3, <2>2, <2>3, <2>5, <2>6, <2>7
<1>6. ASSUME NEW pc \in {"returned", "failed", "gaveup"}, fwd[f].pc \in {"send", "wait"},
             fwd' = [fwd EXCEPT ![f].pc = pc], work' = work, FinishRequest(f)
      PROVE  TunnelInv'
  <2>1. PICK k : k = [fwd[f] EXCEPT !.pc = pc]
    OBVIOUS
  <2>2. k \in FwdRecords /\ ~k.gap /\ k.pc = pc /\ k.conn = fwd[f].conn /\ k.status = fwd[f].status /\ k.got = fwd[f].got
    BY <1>4, <2>1
  <2>3. fwd' = [fwd EXCEPT ![f] = k] /\ fwd'[f] = k /\ work' = [work EXCEPT ![f] = work[f]]
    BY <1>1, <1>6, <2>1
  <2>4. /\ pend' \in [Conns -> SUBSET Fwds]
        /\ \A c \in Conns : pend'[c] \subseteq pend[c] /\ f \notin pend'[c]
    BY <1>1, <1>6 DEF FinishRequest, TravelsAlone
  <2>5. TravelsAlone(f)'
    BY <1>1, <1>2, <1>6, <2>2, <2>3, <2>4 DEF TravelsAlone, Early
  <2>6. StreamFits(f)'
    BY <1>6, <2>2, <2>3 DEF StreamFits
  <2> QED
    BY <1>1, <1>3, <2>2, <2>3, <2>4, <2>5, <2>6
<1>7. CASE StartRequest(f)
  <2>1. CASE Open(fwd[f].conn)
    <3>1. PICK k : k = [fwd[f] EXCEPT !.pc = "send"]
      OBVIOUS
    <3>2. k \in FwdRecords /\ ~k.gap /\ k.pc = "send" /\ k.conn = fwd[f].conn /\ k.status = fwd[f].status /\ k.got = fwd[f].got
      BY <1>4, <3>1
    <3>3. /\ fwd' = [fwd EXCEPT ![f] = k] /\ fwd'[f] = k /\ work' = [work EXCEPT ![f] = work[f]] /\ work' = work
          /\ fwd[f].pc = "start" /\ pend' = [pend EXCEPT ![fwd[f].conn] = @ \cup {f}]
      BY <1>1, <1>7, <2>1, <3>1 DEF StartRequest
    <3>4. /\ pend' \in [Conns -> SUBSET Fwds]
          /\ \A c \in Conns : pend'[c] \ {f} \subseteq pend[c] /\ (f \in pend'[c] => c = fwd[f].conn)
      BY <1>1, <3>3 DEF TravelsAlone
    <3>5. TravelsAlone(f)'
      BY <1>1, <1>2, <3>2, <3>3, <3>4 DEF TravelsAlone, Early
    <3>6. StreamFits(f)'
      BY <3>2, <3>3 DEF StreamFits
    <3> QED
      BY <1>1, <1>3, <3>2, <3>3, <3>4, <3>5, <3>6
  <2>2. CASE ~Open(fwd[f].conn)
    <3>1. PICK k : k = [fwd[f] EXCEPT !.pc = "failed"]
      OBVIOUS
    <3>2. k \in FwdRecords /\ ~k.gap /\ k.pc = "failed" /\ k.conn = fwd[f].conn /\ k.status = fwd[f].status /\ k.got = fwd[f].got
      BY <1>4, <3>1
    <3>3. /\ fwd' = [fwd EXCEPT ![f] = k] /\ fwd'[f] = k /\ work' = [work EXCEPT ![f] = work[f]] /\ work' = work
          /\ fwd[f].pc = "start" /\ pend' = pend
      BY <1>1, <1>7, <2>2, <3>1 DEF StartRequest
    <3>4. TravelsAlone(f)'
      BY <1>1, <1>2, <3>2, <3>3 DEF TravelsAlone, Early
    <3>5. StreamFits(f)'
      BY <3>2, <3>3 DEF StreamFits
    <3> QED
      BY <1>1, <1>3, <3>2, <3>3, <3>4, <3>5
  <2> QED
    BY <2>1, <2>2
<1>8. CASE SendRequest(f)
  <2>1. CASE FinishRequest(f) /\ fwd' = [fwd EXCEPT ![f].pc = "failed"] /\ work' = work
    BY <1>6, <1>8, <2>1 DEF SendRequest
  <2>2. CASE fwd' = [fwd EXCEPT ![f].pc = "wait"] /\ work' = [work EXCEPT ![f].conn = fwd[f].conn] /\ pend' = pend
    <3>1. PICK k : k = [fwd[f] EXCEPT !.pc = "wait"]
      OBVIOUS
    <3>2. k \in FwdRecords /\ ~k.gap /\ k.pc = "wait" /\ k.conn = fwd[f].conn /\ k.status = fwd[f].status /\ k.got = fwd[f].got
      BY <1>4, <3>1
    <3>3. PICK l : l = [work[f] EXCEPT !.conn = fwd[f].conn]
      OBVIOUS
    <3>4. l \in WorkRecords /\ l.conn = fwd[f].conn /\ l.next = work[f].next
      BY <1>1, <3>3 DEF FwdRecords, WorkRecords
    <3>5. fwd[f].pc = "send"
      BY <1>8 DEF SendRequest
    <3>6. fwd' = [fwd EXCEPT ![f] = k] /\ fwd'[f] = k /\ work' = [work EXCEPT ![f] = l] /\ work'[f] = l
      BY <1>1, <2>2, <3>1, <3>3
    <3>7. work[f].next = 0 /\ chan[f].buf = <<>> /\ ~fwd[f].status /\ fwd[f].conn \in Conns
      BY <1>1, <3>5 DEF TravelsAlone, Early, NoWork
    <3>8. TravelsAlone(f)'
      BY <1>1, <1>2, <2>2, <3>2, <3>4, <3>5, <3>6, <3>7 DEF TravelsAlone, Early
    <3>9. StreamFits(f)'
      <4>1. ASSUME NEW b, NEW h, NEW w, NEW low, NEW shut, NEW served, b = <<>>, h = reading[fwd[f].conn], w = wire[fwd[f].conn],
                   low = -1
            PROVE  NoCopies(f, b, h, w, 0) /\ NoHoles(f, b, h, w, 0, low, shut, served)
        <5>1. DOMAIN b = {} /\ ~IsOf(h, f) /\ \A i \in DOMAIN w : w[i].who # f
          BY <1>1, <3>5, <3>7, <4>1 DEF TravelsAlone, Early
        <5>2. NoCopies(f, b, h, w, 0)
          BY <5>1 DEF NoCopies
        <5>3. ChannelHolds(b, low) /\ HandHolds(f, b, h, low)
          BY <5>1 DEF ChannelHolds, HandHolds
        <5>4. WireHolds(f, b, h, w, 0, low)
          BY <4>1, <5>1 DEF WireHolds, Near, Arrived
        <5> QED
          BY <5>2, <5>3, <5>4 DEF NoHoles
      <4>2. Low(k) = -1
        BY <3>2, <3>7 DEF Low
      <4>3. /\ NoCopies(f, <<>>, reading[fwd[f].conn], wire[fwd[f].conn], 0)
            /\ NoHoles(f, <<>>, reading[fwd[f].conn], wire[fwd[f].conn], 0, -1, chan[f].closed, pend[fwd[f].conn])
        BY <4>1
      <4> QED
        BY <1>2, <2>2, <3>2, <3>4, <3>6, <3>7, <4>2, <4>3 DEF StreamFits
    <3> QED
      BY <1>1, <1>3, <2>2, <3>2, <3>4, <3>6, <3>8, <3>9
  <2> QED
    BY <1>8, <2>1, <2>2 DEF SendRequest
<1>9. CASE StreamCut(f)
  BY <1>6, <1>9 DEF StreamCut
<1>10. CASE GiveUpForward(f)
  BY <1>6, <1>10 DEF GiveUpForward
<1> QED
  BY <1>5, <1>7, <1>8, <1>9, <1>10

\* forward takes a frame from its channel.
LEMMA DeliverFits ==
  ASSUME TunnelInv, NEW f \in Fwds, Deliver(f)
  PROVE  TunnelInv'
<1>1. PICK b : b = chan[f].buf
  OBVIOUS
<1>2. PICK n : n = Head(b)
  OBVIOUS
<1>3. PICK d : d = Tail(b)
  OBVIOUS
<1>4. PICK c \in Conns : c = fwd[f].conn
  BY DEF Deliver, TunnelInv, TravelsAlone
<1>5. /\ fwd[f].pc = "wait" /\ b # <<>> /\ fwd[f] \in FwdRecords /\ work[f] \in WorkRecords /\ chan[f] \in Channels
      /\ pend \in [Conns -> SUBSET Fwds] /\ chan \in [Fwds -> Channels] /\ fwd \in [Fwds -> FwdRecords]
      /\ work \in [Fwds -> WorkRecords] /\ TravelsAlone(f) /\ ~fwd[f].gap
  BY <1>1 DEF Deliver, TunnelInv, TunnelTypeOK, StreamIsIntact
<1>6. /\ b \in Seq(-1..EndFrame) /\ d \in Seq(-1..EndFrame) /\ n = b[1] /\ n \in -1..EndFrame
  <2>1. b \in Seq(-1..EndFrame)
    BY <1>1, <1>5 DEF Channels
  <2> QED
    BY <1>2, <1>3, <1>5, <2>1, TailFact
<1>7. n \in Int /\ EndFrame = Chunks + 1 /\ Chunks \in Nat \ {0}
  BY <1>6, FrameFact DEF EndFrame
<1>8. PICK k : k = Taken(fwd[f], n)
  OBVIOUS
<1>9. fwd' = [fwd EXCEPT ![f] = k]
  BY <1>1, <1>2, <1>8 DEF Deliver
<1>10. /\ chan' = [chan EXCEPT ![f].buf = d] /\ fwd' = [fwd EXCEPT ![f] = k]
       /\ IF n = EndFrame THEN FinishRequest(f) ELSE UNCHANGED pend
       /\ UNCHANGED <<reg, old, reading, work, wire>>
  BY <1>1, <1>2, <1>3, <1>9 DEF Deliver, serverVars
<1>11. PICK up : up = IF b[1] = Keepalive THEN Low(fwd[f]) ELSE b[1]
  OBVIOUS
<1>12. ASSUME NEW h, NEW w, NEW next, NEW low, NEW shut, NEW served, h = reading[c], w = wire[c], next = work[f].next,
              low = Low(fwd[f]), shut = chan[f].closed, served = pend[c]
       PROVE  /\ n = Keepalive \/ n = low + 1
              /\ NoCopies(f, d, h, w, next) /\ NoHoles(f, d, h, w, next, up, shut, served)
  <2>1. NoCopies(f, b, h, w, next) /\ NoHoles(f, b, h, w, next, low, shut, served)
    BY <1>1, <1>4, <1>5, <1>12 DEF TunnelInv, StreamFits
  <2>2. b \in Seq(Int) /\ w \in Seq(Frames) /\ next \in Nat /\ low \in Int /\ h.n \in Int
    <3>1. /\ chan[f].buf \in Seq(Int) /\ work[f].next \in Nat /\ Low(fwd[f]) \in Int
          /\ \A x \in Conns : wire[x] \in Seq(Frames) /\ reading[x].n \in Int
      BY TunnelFacts DEF TunnelInv
    <3> QED
      BY <1>1, <1>12, <3>1
  <2>3. up \in Int /\ up = IF b[1] = Keepalive THEN low ELSE b[1]
    BY <1>6, <1>7, <1>11, <1>12, <2>2
  <2>4. /\ b[1] = Keepalive \/ b[1] = low + 1
        /\ NoCopies(f, d, h, w, next) /\ NoHoles(f, d, h, w, next, up, shut, served)
    <3>1. b \in Seq(Int) /\ b # <<>> /\ d = Tail(b) /\ w \in Seq(Frames) /\ next \in Nat /\ low \in Int /\ up \in Int /\ h.n \in Int
      BY <1>3, <1>5, <2>2, <2>3
    <3>2. Passes(b, d, low, up)
      BY <1>3, <2>3 DEF Passes
    <3> QED
      BY <2>1, <3>1, <3>2, DeliverHolds
  <2> QED
    BY <1>6, <2>4
<1>13. n = Keepalive \/ n = Low(fwd[f]) + 1
  BY <1>12
<1>14. /\ k.pc = (IF n # EndFrame THEN "wait" ELSE IF fwd[f].status THEN "whole" ELSE "failed") /\ k.conn = fwd[f].conn
       /\ k.got = (IF n \in 1..Chunks /\ fwd[f].status THEN n ELSE fwd[f].got)
       /\ k.status <=> fwd[f].status \/ n = 0
       /\ k.gap <=> (n \in 1..Chunks /\ fwd[f].status /\ n # fwd[f].got + 1) \/ (n = EndFrame /\ fwd[f].got # Chunks)
  BY <1>5, <1>8 DEF FwdRecords, Taken
<1>15. k \in FwdRecords
  <2>1. n \in 1..Chunks => n \in Nat
    BY <1>7
  <2> QED
    BY <1>5, <1>8, <2>1 DEF FwdRecords, Taken
<1>16. fwd[f].status \in BOOLEAN /\ fwd[f].got \in Nat /\ (~fwd[f].status => fwd[f].got = 0)
  BY <1>5 DEF FwdRecords, TravelsAlone
<1>17. ~k.gap /\ (n # EndFrame => up = Low(k))
  <2>1. CASE fwd[f].status
    <3>1. Low(fwd[f]) = fwd[f].got /\ k.status /\ Low(k) = k.got
      BY <1>14, <2>1 DEF Low
    <3>2. n = -1 \/ n = fwd[f].got + 1
      BY <1>13, <3>1 DEF Keepalive
    <3>3. ~k.gap
      BY <1>7, <1>14, <1>16, <3>2
    <3>4. ASSUME n # EndFrame PROVE up = k.got
      <4>1. n = -1 => up = fwd[f].got /\ k.got = fwd[f].got
        BY <1>6, <1>11, <1>14, <3>1 DEF Keepalive
      <4>2. n # -1 => up = n
        BY <1>6, <1>11 DEF Keepalive
      <4>3. n # 0
        BY <1>16, <3>2
      <4>4. n # -1 => n \in 1..Chunks
        BY <1>6, <1>7, <3>4, <4>3
      <4> QED
        BY <1>14, <2>1, <3>2, <4>1, <4>2, <4>4
    <3> QED
      BY <3>1, <3>3, <3>4
  <2>2. CASE ~fwd[f].status
    <3>1. Low(fwd[f]) = -1 /\ (n = -1 \/ n = 0)
      BY <1>13, <2>2 DEF Low, Keepalive
    <3> QED
      BY <1>6, <1>7, <1>11, <1>14, <1>16, <2>2, <3>1 DEF Low, Keepalive
  <2> QED
    BY <2>1, <2>2
<1>18. ~k.status => k.got = 0
  BY <1>14, <1>16
<1>19. /\ pend' \in [Conns -> SUBSET Fwds] /\ \A x \in Conns : pend'[x] \subseteq pend[x]
       /\ n = EndFrame => \A x \in Conns : f \notin pend'[x]
  BY <1>5, <1>10 DEF FinishRequest, TravelsAlone
<1>20. fwd'[f] = k /\ chan'[f].buf = d /\ chan'[f].closed = chan[f].closed
  BY <1>5, <1>10 DEF Channels
<1>21. chan' \in [Fwds -> Channels]
  BY <1>5, <1>6, <1>10 DEF Channels
<1>22. TunnelTypeOK' /\ StreamIsIntact'
  BY <1>5, <1>10, <1>15, <1>17, <1>19, <1>21 DEF TunnelInv, TunnelTypeOK, StreamIsIntact
<1>23. \A g \in Fwds \ {f} : TravelsAlone(g)' /\ StreamFits(g)'
  <2>1. \A g \in Fwds \ {f} : fwd'[g] = fwd[g] /\ work'[g] = work[g] /\ chan'[g] = chan[g]
    BY <1>5, <1>10
  <2> QED
    BY <1>10, <1>19, <2>1, BystandersFit
<1>24. TravelsAlone(f)'
  BY <1>5, <1>10, <1>14, <1>18, <1>19, <1>20 DEF TravelsAlone, Early
<1>25. StreamFits(f)'
  <2> SUFFICES ASSUME n # EndFrame PROVE StreamFits(f)'
    BY <1>14, <1>20 DEF StreamFits
  <2>1. /\ NoCopies(f, d, reading[c], wire[c], work[f].next)
        /\ NoHoles(f, d, reading[c], wire[c], work[f].next, up, chan[f].closed, pend[c])
    BY <1>12
  <2>2. /\ up = Low(fwd'[f]) /\ pend' = pend /\ reading' = reading /\ wire' = wire /\ work' = work /\ fwd'[f].conn = c
    BY <1>4, <1>10, <1>14, <1>17, <1>20
  <2> QED
    BY <1>20, <2>1, <2>2 DEF StreamFits
<1> QED
  BY <1>22, <1>23, <1>24, <1>25 DEF TunnelInv

\* The Companion sends the next frame of an answer, or a heartbeat.
LEMMA SendsFit ==
  ASSUME TunnelInv, NEW f \in Fwds, NEW x \in Frames, x.who = f, NEW l \in WorkRecords, l.conn = work[f].conn,
         work[f].conn # 0,
         (x.n = work[f].next /\ l.next = work[f].next + 1) \/ (x.n = Keepalive /\ l.next = work[f].next),
         wire' = [wire EXCEPT ![work[f].conn] = Append(@, x)], work' = [work EXCEPT ![f] = l],
         UNCHANGED <<reg, old, pend, reading, chan, fwd>>
  PROVE  TunnelInv'
<1>1. /\ work \in [Fwds -> WorkRecords] /\ wire \in [Conns -> Seq(Frames)] /\ fwd[f] \in FwdRecords /\ TravelsAlone(f)
  BY DEF TunnelInv, TunnelTypeOK
<1>2. work[f].conn = fwd[f].conn /\ fwd[f].pc \notin Early /\ fwd[f].conn \in Conns
  BY <1>1 DEF TravelsAlone, NoWork, Early
<1>3. PICK c \in Conns : c = fwd[f].conn
  BY <1>2
<1>4. PICK v : v = Append(wire[c], x)
  OBVIOUS
<1>5. v \in Seq(Frames) /\ Extends(v, wire[c], x)
  BY <1>1, <1>4 DEF Extends
<1>6. work'[f] = l /\ \A b \in Conns : wire'[b] = IF b = c THEN v ELSE wire[b]
  BY <1>1, <1>2, <1>3, <1>4
<1>7. /\ Len(wire[c]) \in Nat /\ DOMAIN wire[c] = 1..Len(wire[c]) /\ DOMAIN v = 1..(Len(wire[c]) + 1)
      /\ v[Len(wire[c]) + 1] = x /\ \A i \in 1..Len(wire[c]) : v[i] = wire[c][i]
  BY <1>1, <1>4, AppendFact
<1>8. \A i \in DOMAIN v : (i \in DOMAIN wire[c] /\ v[i] = wire[c][i]) \/ v[i] = x
  BY <1>7
<1>9. wire' \in [Conns -> Seq(Frames)]
  BY <1>1, <1>2, <1>3, <1>4, <1>5
<1>10. TunnelTypeOK' /\ StreamIsIntact'
  BY <1>1, <1>9 DEF TunnelInv, TunnelTypeOK, StreamIsIntact
<1>11. ASSUME NEW g \in Fwds PROVE TravelsAlone(g)'
  <2>1. \A b \in Conns : \A i \in DOMAIN wire'[b] : wire'[b][i].who = g => b = fwd[g].conn /\ fwd[g].pc \notin Early
    BY <1>2, <1>3, <1>6, <1>8 DEF TunnelInv, TravelsAlone
  <2>2. g # f => work'[g] = work[g]
    BY <1>1
  <2>3. work'[g].conn = work[g].conn /\ (fwd[g].pc \in Early => work'[g] = work[g])
    BY <1>2, <1>6, <2>2
  <2> QED
    BY <2>1, <2>3 DEF TunnelInv, TravelsAlone
<1>12. ASSUME NEW g \in Fwds, fwd[g].pc = "wait" PROVE StreamFits(g)'
  <2>1. ASSUME NEW b, NEW h, NEW w, NEW next, NEW low, NEW shut, NEW served, b = chan[g].buf, h = reading[c], w = wire[c],
               next = work[g].next, low = Low(fwd[g]), shut = chan[g].closed, served = pend[c], fwd[g].conn = c
        PROVE  NoCopies(g, b, h, v, work'[g].next) /\ NoHoles(g, b, h, v, work'[g].next, low, shut, served)
    <3>1. NoCopies(g, b, h, w, next) /\ NoHoles(g, b, h, w, next, low, shut, served)
      BY <1>12, <2>1 DEF TunnelInv, StreamFits
    <3>2. b \in Seq(Int) /\ w \in Seq(Frames) /\ next \in Nat /\ low \in Int /\ h.n \in Int /\ Extends(v, w, x)
      <4>1. /\ chan[g].buf \in Seq(Int) /\ work[g].next \in Nat /\ Low(fwd[g]) \in Int
            /\ \A y \in Conns : wire[y] \in Seq(Frames) /\ reading[y].n \in Int
        BY TunnelFacts DEF TunnelInv
      <4> QED
        BY <1>5, <2>1, <4>1
    <3>3. CASE g = f
      <4>1. PICK m : m = l.next
        OBVIOUS
      <4>2. m \in Nat /\ ((x.n = next /\ m = next + 1) \/ (x.n = Keepalive /\ m = next)) /\ work'[g].next = m
        BY <1>6, <2>1, <3>2, <3>3, <4>1
      <4>3. NoCopies(g, b, h, v, m) /\ NoHoles(g, b, h, v, m, low, shut, served)
        BY <3>1, <3>2, <3>3, <4>2, SendHolds
      <4> QED
        BY <4>2, <4>3
    <3>4. CASE g # f
      <4>1. x.who # g /\ work'[g].next = next
        BY <1>1, <2>1, <3>4
      <4>2. NoCopies(g, b, h, v, next) /\ NoHoles(g, b, h, v, next, low, shut, served)
        BY <3>1, <3>2, <4>1, OthersSendHolds
      <4> QED
        BY <4>1, <4>2
    <3> QED
      BY <3>3, <3>4
  <2>2. CASE fwd[g].conn = c
    <3>1. /\ NoCopies(g, chan[g].buf, reading[c], v, work'[g].next)
          /\ NoHoles(g, chan[g].buf, reading[c], v, work'[g].next, Low(fwd[g]), chan[g].closed, pend[c])
      BY <2>1, <2>2
    <3> QED
      BY <1>6, <2>2, <3>1 DEF StreamFits
  <2>3. CASE fwd[g].conn # c
    <3>1. g # f /\ work'[g] = work[g] /\ fwd[g].conn \in Conns
      BY <1>1, <1>3, <1>12, <2>3 DEF TunnelInv, TravelsAlone
    <3>2. \A b \in Conns : b # c => wire'[b] = wire[b]
      BY <1>6
    <3> QED
      BY <2>3, <3>1, <3>2 DEF TunnelInv, StreamFits
  <2> QED
    BY <2>2, <2>3
<1> QED
  BY <1>10, <1>11, <1>12 DEF TunnelInv, StreamFits

\* answer and keepaliveLoop.
LEMMA CompanionFits ==
  ASSUME TunnelInv, link \subseteq Conns, NEW f \in Fwds, AnswerSends(f) \/ KeepsAlive(f)
  PROVE  TunnelInv'
<1>1. work[f] \in WorkRecords /\ work \in [Fwds -> WorkRecords] /\ wire \in [Conns -> Seq(Frames)] /\ Chunks \in Nat \ {0}
  BY FrameFact DEF TunnelInv, TunnelTypeOK
<1>2. CASE AnswerSends(f) /\ work[f].conn \in link
  <2>1. PICK x : x = [who |-> f, n |-> work[f].next]
    OBVIOUS
  <2>2. PICK l : l = [work[f] EXCEPT !.next = @ + 1]
    OBVIOUS
  <2>3. work[f].next <= EndFrame /\ work[f].conn # 0
    BY <1>2 DEF AnswerSends
  <2>4. x \in Frames /\ x.who = f /\ x.n = work[f].next
    BY <1>1, <2>1, <2>3 DEF Frames, WorkRecords, EndFrame
  <2>5. l \in WorkRecords /\ l.conn = work[f].conn /\ l.next = work[f].next + 1
    BY <1>1, <2>2, <2>3 DEF WorkRecords, EndFrame
  <2>6. /\ wire' = [wire EXCEPT ![work[f].conn] = Append(@, x)] /\ work' = [work EXCEPT ![f] = l]
        /\ UNCHANGED <<reg, old, pend, reading, chan, fwd>>
    BY <1>1, <1>2, <2>1, <2>2 DEF AnswerSends, serverVars
  <2> QED
    BY <2>3, <2>4, <2>5, <2>6, SendsFit
<1>3. CASE AnswerSends(f) /\ work[f].conn \notin link
  <2>1. /\ work' = [work EXCEPT ![f].conn = 0] /\ UNCHANGED <<reg, old, pend, reading, chan, fwd, wire>> /\ work[f].conn # 0
    BY <1>3 DEF AnswerSends, serverVars
  <2>2. /\ work' \in [Fwds -> WorkRecords] /\ \A g \in Fwds : work'[g].next = work[g].next /\ (g # f => work'[g] = work[g])
        /\ work'[f].conn = 0
    <3>1. PICK l : l = [work[f] EXCEPT !.conn = 0]
      OBVIOUS
    <3>2. l \in WorkRecords /\ l.conn = 0 /\ l.next = work[f].next
      BY <1>1, <3>1, TunnelAssumption DEF WorkRecords
    <3>3. work' = [work EXCEPT ![f] = l]
      BY <2>1, <3>1
    <3> QED
      BY <1>1, <3>2, <3>3
  <2>3. TunnelTypeOK' /\ StreamIsIntact'
    BY <2>1, <2>2 DEF TunnelInv, TunnelTypeOK, StreamIsIntact
  <2>4. \A g \in Fwds : TravelsAlone(g)'
    <3>1. fwd[f].pc \notin Early
      BY <2>1 DEF TunnelInv, TravelsAlone, NoWork
    <3> QED
      BY <2>1, <2>2, <3>1 DEF TunnelInv, TravelsAlone
  <2>5. \A g \in Fwds : StreamFits(g)'
    BY <2>1, <2>2 DEF TunnelInv, StreamFits
  <2> QED
    BY <2>3, <2>4, <2>5 DEF TunnelInv
<1>4. CASE KeepsAlive(f)
  <2>1. PICK x : x = [who |-> f, n |-> IF work[f].next = 0 THEN 0 ELSE Keepalive]
    OBVIOUS
  <2>2. PICK l : l = [work[f] EXCEPT !.kept = TRUE, !.next = IF @ = 0 THEN 1 ELSE @]
    OBVIOUS
  <2>3. x \in Frames /\ x.who = f /\ x.n = IF work[f].next = 0 THEN 0 ELSE Keepalive
    BY <1>1, <2>1 DEF Frames, EndFrame, Keepalive
  <2>4. l \in WorkRecords /\ l.conn = work[f].conn /\ l.next = IF work[f].next = 0 THEN 1 ELSE work[f].next
    <3>1. 1 \in 0..(EndFrame + 1)
      BY <1>1 DEF EndFrame
    <3> QED
      BY <1>1, <2>2, <3>1 DEF WorkRecords
  <2>5. /\ wire' = [wire EXCEPT ![work[f].conn] = Append(@, x)] /\ work' = [work EXCEPT ![f] = l]
        /\ UNCHANGED <<reg, old, pend, reading, chan, fwd>>
    BY <1>1, <1>4, <2>1, <2>2 DEF KeepsAlive, serverVars
  <2>6. work[f].conn # 0
    BY <1>4 DEF KeepsAlive, Conns
  <2>7. (x.n = work[f].next /\ l.next = work[f].next + 1) \/ (x.n = Keepalive /\ l.next = work[f].next)
    BY <2>3, <2>4
  <2> QED
    BY <2>3, <2>4, <2>5, <2>6, <2>7, SendsFit
<1> QED
  BY <1>2, <1>3, <1>4

\* Nothing is under way when the relay starts.
LEMMA TunnelStarts ==
  ASSUME TunnelInit
  PROVE  TunnelInv
<1>1. /\ 0 \in 0..MaxConns /\ IdleFwd \in FwdRecords /\ NoWork \in WorkRecords /\ NoChan \in Channels
      /\ <<>> \in Seq(Frames) /\ DOMAIN <<>> = {}
  BY TunnelAssumption DEF IdleFwd, NoWork, NoChan, FwdRecords, WorkRecords, Channels, EndFrame
<1>2. TunnelTypeOK
  BY <1>1 DEF TunnelInit, TunnelTypeOK
<1>3. \A f \in Fwds : ~fwd[f].gap /\ StreamFits(f)
  BY DEF TunnelInit, StreamFits, IdleFwd
<1>4. \A f \in Fwds : TravelsAlone(f)
  BY <1>1, NobodysFrame DEF TunnelInit, TravelsAlone, IdleFwd, NoWork, NoChan
<1> QED
  BY <1>2, <1>3, <1>4 DEF TunnelInv, StreamIsIntact

\* Only connections that were dialled are up.
LEMMA LinksFit ==
  ASSUME link \subseteq Conns, TunnelNext
  PROVE  link' \subseteq Conns
<1>1. ASSUME NEW c \in Conns, ReplaceOld(c) \/ ReadFails(c) PROVE link' \subseteq Conns
  BY <1>1 DEF ReplaceOld, ReadFails, CloseConn
<1>2. ASSUME NEW c \in Conns, Dial(c) \/ LinkBreaks(c) \/ OnConnect(c) \/ ReadFrame(c) \/ FallsBehind(c) \/ Dispatch(c)
                             \/ Leave(c) \/ OnDisconnect(c)
      PROVE  link' \subseteq Conns
  BY <1>2 DEF Dial, LinkBreaks, OnConnect, ReadFrame, FallsBehind, Dispatch, Leave, OnDisconnect
<1>3. ASSUME NEW c \in Conns, NEW f \in Fwds, CloseChannel(c, f) PROVE link' \subseteq Conns
  BY <1>3 DEF CloseChannel
<1>4. ASSUME NEW f \in Fwds, \/ ForwardLooks(f) \/ StartRequest(f) \/ SendRequest(f) \/ AnswerSends(f)
                             \/ KeepsAlive(f) \/ Deliver(f) \/ StreamCut(f) \/ GiveUpForward(f)
      PROVE  link' \subseteq Conns
  BY <1>4 DEF ForwardLooks, StartRequest, SendRequest, AnswerSends, KeepsAlive, Deliver, StreamCut, GiveUpForward
<1> QED
  BY <1>1, <1>2, <1>3, <1>4 DEF TunnelNext

\* A response is forwarded in order and without a hole, however many callers, chunks and connections there are and
\* however small the channels.
THEOREM StreamArrivesWhole == TunnelSpec => []StreamIsIntact
<1>1. TunnelInit => TunnelInv /\ link \subseteq Conns
  BY TunnelStarts DEF TunnelInit
<1>2. TunnelInv /\ link \subseteq Conns /\ [TunnelNext]_tunnelVars => (TunnelInv /\ link \subseteq Conns)'
  <2> SUFFICES ASSUME TunnelInv, link \subseteq Conns, [TunnelNext]_tunnelVars PROVE TunnelInv' /\ link' \subseteq Conns
    OBVIOUS
  <2>1. CASE UNCHANGED tunnelVars
    <3>1. UNCHANGED <<reg, old, pend, reading, chan, fwd, work, wire>> /\ link' = link
      BY <2>1 DEF tunnelVars
    <3>2. /\ reg \in 0..MaxConns /\ old \in [Conns -> 0..MaxConns] /\ pend \in [Conns -> SUBSET Fwds]
          /\ chan \in [Fwds -> Channels] /\ reading \in [Conns -> Frames \cup {NoFrame}]
      BY DEF TunnelInv, TunnelTypeOK
    <3> QED
      BY <3>1, <3>2, LoosenFits
  <2>2. CASE TunnelNext
    <3>1. link' \subseteq Conns
      BY <2>2, LinksFit
    <3>2. ASSUME NEW c \in Conns, \/ Dial(c) \/ LinkBreaks(c) \/ ReplaceOld(c) \/ OnConnect(c) \/ ReadFrame(c)
                                  \/ FallsBehind(c) \/ Dispatch(c) \/ ReadFails(c) \/ Leave(c) \/ OnDisconnect(c)
          PROVE  TunnelInv'
      BY <3>2, ConnectionsFit, ReadFrameFits, DispatchFits
    <3>3. ASSUME NEW c \in Conns, NEW f \in Fwds, CloseChannel(c, f) PROVE TunnelInv'
      BY <3>3, ConnectionsFit
    <3>4. ASSUME NEW f \in Fwds, \/ ForwardLooks(f) \/ StartRequest(f) \/ SendRequest(f) \/ AnswerSends(f)
                                 \/ KeepsAlive(f) \/ Deliver(f) \/ StreamCut(f) \/ GiveUpForward(f)
          PROVE  TunnelInv'
      BY <3>4, CallersFit, CompanionFits, DeliverFits
    <3> QED
      BY <2>2, <3>1, <3>2, <3>3, <3>4 DEF TunnelNext
  <2> QED
    BY <2>1, <2>2
<1>3. TunnelInv => StreamIsIntact
  BY DEF TunnelInv
<1> QED
  BY <1>1, <1>2, <1>3, PTL DEF TunnelSpec

=============================================================================
