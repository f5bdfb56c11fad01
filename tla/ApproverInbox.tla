---------------------------- MODULE ApproverInbox ----------------------------
(***************************************************************************)
(* Paired approver devices of companion/internal/approver: the codes they  *)
(* pair with, the inbox they poll, and the wake-ups sent to their push     *)
(* service.                                                                *)
(*                                                                         *)
(* Store calls, critical sections of Service.mu and the hooks of the       *)
(* approval service are steps of their own.                                *)
(***************************************************************************)
EXTENDS Naturals, FiniteSets

CONSTANTS
  PairCodes,   \* pairing codes the desktop shows
  Phones,      \* device ids; every claim that succeeds mints one
  Claims,      \* handleClaim calls in progress
  Prompts,     \* prompts, each raised once
  Polls,       \* handleInbox calls in progress
  Pushes,      \* push goroutines
  MaxSubs,     \* bound: how many push subscriptions browsers make
  Nobody

ASSUME InboxAssumption == Nobody \notin Phones /\ Nobody \notin PairCodes /\ MaxSubs \in Nat

VARIABLES
  pairCode,   \* s.codes
  claim,      \* the handleClaim calls: the code they have taken
  phone,      \* approver_devices
  sub,        \* the subscription in each device's row, 0 for none
  subs,       \* the subscriptions browsers have made so far
  dead,       \* the subscriptions the push service no longer knows
  push,       \* the push goroutines
  openPrompt, \* prompts awaiting a decision
  raised,     \* prompts raised so far
  hook,       \* prompts whose OnRequest or OnDecision hook has not run yet
  poll,       \* the handleInbox calls
  revoking    \* devices whose row is deleted and whose Revoke has yet to Wake

inboxVars == <<pairCode, claim, phone, sub, subs, dead, push, openPrompt, raised, hook, poll, revoking>>
pairVars == <<pairCode, claim>>
pushVars == <<sub, subs, dead, push>>
pollVars == <<openPrompt, raised, hook, poll, revoking>>

\* woken: the channel the poll holds has been closed.
IdlePoll == [pc |-> "idle", dev |-> Nobody, woken |-> FALSE, some |-> FALSE]
IdlePush == [dev |-> Nobody, sub |-> 0]

InboxInit ==
  /\ pairCode = [c \in PairCodes |-> "none"]
  /\ claim = [h \in Claims |-> Nobody]
  /\ phone = [d \in Phones |-> "none"]
  /\ sub = [d \in Phones |-> 0] /\ subs = 0 /\ dead = {}
  /\ push = [g \in Pushes |-> IdlePush]
  /\ openPrompt = {} /\ raised = {} /\ hook = {}
  /\ poll = [q \in Polls |-> IdlePoll]
  /\ revoking = {}

----------------------------------------------------------------------------
\* Pairing.

\* Pair mints a code once there is a public address; PairingTTL passes.
Pair(c) ==
  /\ pairCode[c] = "none"
  /\ pairCode' = [pairCode EXCEPT ![c] = "live"]
  /\ UNCHANGED <<claim, phone, pushVars, pollVars>>

CodeLapses(c) ==
  /\ pairCode[c] = "live"
  /\ pairCode' = [pairCode EXCEPT ![c] = "lapsed"]
  /\ UNCHANGED <<claim, phone, pushVars, pollVars>>

\* takeCode: known or not, lapsed or not, the code is gone afterwards.
TakeCode(c) == pairCode' = [pairCode EXCEPT ![c] = "gone"]

\* Claim up to takeCode, for keys of the right shape.
ClaimTakesCode(h, c) ==
  /\ claim[h] = Nobody /\ pairCode[c] \in {"live", "lapsed"}
  /\ TakeCode(c)
  /\ claim' = [claim EXCEPT ![h] = IF pairCode[c] = "live" THEN c ELSE Nobody]
  /\ UNCHANGED <<phone, pushVars, pollVars>>

\* PutApprover under a new id; if the store fails the code is spent all the same.
ClaimStores(h, d) ==
  /\ claim[h] # Nobody /\ phone[d] = "none"
  /\ phone' \in {phone, [phone EXCEPT ![d] = "paired"]}
  /\ claim' = [claim EXCEPT ![h] = Nobody]
  /\ UNCHANGED <<pairCode, pushVars, pollVars>>

\* DeviceTTL passes.
PhoneLapses(d) ==
  /\ phone[d] = "paired"
  /\ phone' = [phone EXCEPT ![d] = "lapsed"]
  /\ UNCHANGED <<pairVars, pushVars, pollVars>>

\* Revoke from the desktop, or handleForget from the device: the row goes, and
\* the subscription with it ...
Revoke(d) ==
  /\ phone[d] \in {"paired", "lapsed"}
  /\ phone' = [phone EXCEPT ![d] = "gone"]
  /\ sub' = [sub EXCEPT ![d] = 0]
  /\ revoking' = revoking \cup {d}
  /\ UNCHANGED <<pairVars, subs, dead, push, openPrompt, raised, hook, poll>>

\* Wake: the channel every poll holds is closed and replaced.
Wake == poll' = [q \in Polls |-> IF poll[q].pc \in {"seal", "sealed", "select"} THEN [poll[q] EXCEPT !.woken = TRUE]
                                 ELSE poll[q]]

\* ... then its polls are woken.
RevokeWakes(d) ==
  /\ d \in revoking /\ revoking' = revoking \ {d}
  /\ Wake
  /\ UNCHANGED <<pairVars, phone, pushVars, openPrompt, raised, hook>>

----------------------------------------------------------------------------
\* Push.

\* handlePushSet: a subscription the browser has just made, or none.  Making one
\* ends the browser's former one.
PushSet(d) ==
  /\ phone[d] = "paired" /\ subs < MaxSubs
  /\ subs' = subs + 1
  /\ sub' = [sub EXCEPT ![d] = subs + 1]
  /\ dead' = dead \cup ({sub[d]} \ {0})
  /\ UNCHANGED <<pairVars, phone, push, pollVars>>

PushWithdrawn(d) ==
  /\ phone[d] = "paired" /\ sub[d] # 0
  /\ dead' = dead \cup {sub[d]}
  /\ sub' = [sub EXCEPT ![d] = 0]
  /\ UNCHANGED <<pairVars, phone, subs, push, pollVars>>

\* The push service drops a subscription of its own accord.
ServiceDrops(n) ==
  /\ n \in 1 .. subs /\ n \notin dead
  /\ dead' = dead \cup {n}
  /\ UNCHANGED <<pairVars, phone, sub, subs, push, pollVars>>

\* push, after Send: a subscription reported gone is cleared from the row, any
\* other failure is only logged.
PushReturns(g) ==
  LET d == push[g].dev IN
  /\ d # Nobody
  /\ sub' = IF push[g].sub \in dead THEN [sub EXCEPT ![d] = 0] ELSE sub
  /\ push' = [push EXCEPT ![g] = IdlePush]
  /\ UNCHANGED <<pairVars, phone, subs, dead, pollVars>>

----------------------------------------------------------------------------
\* The inbox.

\* The approval service raises a prompt, or settles one; its hook follows.
Raise(p) ==
  /\ p \notin raised
  /\ raised' = raised \cup {p} /\ openPrompt' = openPrompt \cup {p}
  /\ hook' = hook \cup {<<p, "raised">>}
  /\ UNCHANGED <<pairVars, phone, pushVars, poll, revoking>>

Settle(p) ==
  /\ p \in openPrompt
  /\ openPrompt' = openPrompt \ {p}
  /\ hook' = hook \cup {<<p, "settled">>}
  /\ UNCHANGED <<pairVars, phone, pushVars, raised, poll, revoking>>

\* Notify: one goroutine for every subscribed, unexpired device.
Notified(d) == phone[d] = "paired" /\ sub[d] # 0

\* onRequest and onDecision: Wake, and for a new prompt Notify.
HookRuns(e) ==
  /\ e \in hook /\ hook' = hook \ {e}
  /\ Wake
  /\ IF e[2] = "raised"
     THEN \E start \in [Pushes -> Phones \cup {Nobody}] :
            /\ \A d \in Phones : Cardinality({g \in Pushes : start[g] = d}) = IF Notified(d) THEN 1 ELSE 0
            /\ \A g \in Pushes : start[g] # Nobody => push[g].dev = Nobody
            /\ push' = [g \in Pushes |-> IF start[g] = Nobody THEN push[g]
                                         ELSE [dev |-> start[g], sub |-> sub[start[g]]]]
     ELSE UNCHANGED push
  /\ UNCHANGED <<pairVars, phone, sub, subs, dead, openPrompt, raised, revoking>>

\* handleInbox: authenticated, and about to look.
PollArrives(q, d) ==
  /\ poll[q].pc = "idle" /\ phone[d] = "paired"
  /\ poll' = [poll EXCEPT ![q] = [pc |-> "loop", dev |-> d, woken |-> FALSE, some |-> FALSE]]
  /\ UNCHANGED <<pairVars, phone, pushVars, openPrompt, raised, hook, revoking>>

\* wakeCh: the channel is taken before the list is read.
PollTakesChannel(q) ==
  /\ poll[q].pc = "loop"
  /\ poll' = [poll EXCEPT ![q].pc = "seal"]
  /\ UNCHANGED <<pairVars, phone, pushVars, openPrompt, raised, hook, revoking>>

\* envelopes: every pending prompt sealed for the device.
PollSeals(q) ==
  /\ poll[q].pc = "seal"
  /\ poll' = [poll EXCEPT ![q].pc = "sealed", ![q].some = openPrompt # {}]
  /\ UNCHANGED <<pairVars, phone, pushVars, openPrompt, raised, hook, revoking>>

\* The channel is taken only after the list was found empty.
SleepsOnANewChannel(q) == [poll[q] EXCEPT !.pc = "select", !.woken = FALSE]

\* The poll goes to sleep on the channel it has held since before the list was read.
Sleeps(q) == [poll[q] EXCEPT !.pc = "select"]

\* Prompts are sent; an empty list is sent too when no wait was asked for.
PollAnswers(q) ==
  /\ poll[q].pc = "sealed"
  /\ \/ poll' = [poll EXCEPT ![q] = IdlePoll]
     \/ ~poll[q].some /\ poll' = [poll EXCEPT ![q] = Sleeps(q)]
  /\ UNCHANGED <<pairVars, phone, pushVars, openPrompt, raised, hook, revoking>>

\* The select: woken, or the deadline, or the caller is gone.
PollWakes(q) ==
  /\ poll[q].pc = "select"
  /\ \/ poll[q].woken /\ poll' = [poll EXCEPT ![q].pc = "recheck", ![q].woken = FALSE]
     \/ poll' = [poll EXCEPT ![q] = IdlePoll]
  /\ UNCHANGED <<pairVars, phone, pushVars, openPrompt, raised, hook, revoking>>

\* The pairing is looked up again before the next turn.
PollRechecks(q) ==
  /\ poll[q].pc = "recheck"
  /\ poll' = [poll EXCEPT ![q] = IF phone[@.dev] = "paired" THEN [@ EXCEPT !.pc = "loop"] ELSE IdlePoll]
  /\ UNCHANGED <<pairVars, phone, pushVars, openPrompt, raised, hook, revoking>>

InboxNext ==
  \/ \E c \in PairCodes : Pair(c) \/ CodeLapses(c) \/ \E h \in Claims : ClaimTakesCode(h, c)
  \/ \E h \in Claims, d \in Phones : ClaimStores(h, d)
  \/ \E d \in Phones : PhoneLapses(d) \/ Revoke(d) \/ RevokeWakes(d) \/ PushSet(d) \/ PushWithdrawn(d)
  \/ \E n \in 1 .. MaxSubs : ServiceDrops(n)
  \/ \E g \in Pushes : PushReturns(g)
  \/ \E p \in Prompts : Raise(p) \/ Settle(p)
  \/ \E e \in Prompts \X {"raised", "settled"} : HookRuns(e)
  \/ \E q \in Polls : \/ \E d \in Phones : PollArrives(q, d)
                      \/ PollTakesChannel(q) \/ PollSeals(q) \/ PollAnswers(q) \/ PollWakes(q) \/ PollRechecks(q)

InboxSpec == InboxInit /\ [][InboxNext]_inboxVars

----------------------------------------------------------------------------
\* No wake-up is lost between reading the list and going to sleep: while a poll
\* sleeps on an unclosed channel, every open prompt has its hook still to run.
PollsAreWoken ==
  \A q \in Polls : (poll[q].pc = "select" /\ ~poll[q].woken) =>
    \A p \in openPrompt : <<p, "raised">> \in hook

=============================================================================
