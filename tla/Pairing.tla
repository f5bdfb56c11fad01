------------------------------ MODULE Pairing ------------------------------
(***************************************************************************)
(* Linking a platform to a device: the /authorize page of shared/authsrv,  *)
(* the requests and pairing codes it keeps, and the Companion's push       *)
(* pairing (pairclaim), which lets the page ask the desktop instead of     *)
(* having a code typed.                                                    *)
(*                                                                         *)
(* Each store call of a handler, each critical section of                  *)
(* pairclaim.Service.mu and each answer a page receives is a step.  One    *)
(* Companion listens on the page's machine (Here); codes may be typed from *)
(* any device.                                                             *)
(***************************************************************************)
EXTENDS Naturals, FiniteSets

CONSTANTS
  Reqs,       \* authorization requests; every load of /authorize mints one
  Devices,    \* registered devices
  Here,       \* the device whose Companion answers on the page's loopback
  Posts,      \* form posts the server is working on
  Calls,      \* POST /pair/claim calls the Companion is working on
  Deciders,   \* Resolve calls in progress
  MaxPairPrompts, \* how many prompts the Companion may raise
  NoDevice

ASSUME PairingAssumption ==
  /\ Here \in Devices /\ NoDevice \notin Devices \cup Reqs
  /\ MaxPairPrompts \in Nat

VARIABLES
  req,     \* auth_requests
  pcode,   \* pairing_codes: the devices with a live one
  post,    \* the form handlers
  page,    \* the script of each request's page
  pairCall,    \* the /pair/claim handlers (submit)
  pairPend,    \* Service.pending
  pairPrompt,  \* the pending objects
  decide,  \* the Resolve calls
  codes,   \* history: how many authorization codes each request has led to
  issued,  \* history: request and device of every authorization code
  agreed   \* history: request and device the person has agreed to link

pvars == <<req, pcode, post, page, pairCall, pairPend, pairPrompt, decide, codes, issued, agreed>>

PairPrompts == 1 .. MaxPairPrompts
IdlePost == [pc |-> "idle", r |-> NoDevice, d |-> NoDevice, bound |-> NoDevice]
IdlePairCall == [pc |-> "idle", r |-> NoDevice, p |-> NoDevice]
IdleDecide == [pc |-> "idle", p |-> NoDevice]
NoReq == [st |-> "none", dev |-> NoDevice]
\* The page's script: claimed and what it is doing; nonce is the continuation
\* nonce it was given, named by the device that approved.
NoPage == [at |-> "none", claimed |-> FALSE, cancel |-> FALSE, on |-> NoDevice, nonce |-> NoDevice]

PairingInit ==
  /\ req = [r \in Reqs |-> NoReq]
  /\ pcode = {}
  /\ post = [h \in Posts |-> IdlePost]
  /\ page = [r \in Reqs |-> NoPage]
  /\ pairCall = [k \in Calls |-> IdlePairCall]
  /\ pairPend = [r \in Reqs |-> NoDevice]
  /\ pairPrompt = [p \in PairPrompts |-> [r |-> NoDevice, closes |-> 0, approved |-> FALSE, old |-> FALSE]]
  /\ decide = [s \in Deciders |-> IdleDecide]
  /\ codes = [r \in Reqs |-> 0]
  /\ issued = {} /\ agreed = {}

Live(r) == req[r].st = "live"
Cancelled(pg) == [pg EXCEPT !.claimed = FALSE, !.cancel = pg.cancel \/ pg.claimed]

----------------------------------------------------------------------------
\* The store and the clock.

\* handleAuthorizeGet: a request is stored and its page is shown, which starts
\* to claim at once.
AuthorizeGet(r) ==
  /\ req[r].st = "none"
  /\ req' = [req EXCEPT ![r].st = "live"]
  /\ page' = [page EXCEPT ![r] = [NoPage EXCEPT !.at = "poll"]]
  /\ UNCHANGED <<pcode, post, pairCall, pairPend, pairPrompt, decide, codes, issued, agreed>>

\* IssuePairingCode, and pairingCodeTTL passing.
PairingCode(d) ==
  /\ pcode' = IF d \in pcode THEN pcode \ {d} ELSE pcode \cup {d}
  /\ UNCHANGED <<req, post, page, pairCall, pairPend, pairPrompt, decide, codes, issued, agreed>>

\* authRequestTTL passes: every read treats the row as absent, PurgeExpired
\* removes it in its own time.
RequestExpires(r) ==
  /\ Live(r)
  /\ req' = [req EXCEPT ![r] = [st |-> "expired", dev |-> NoDevice]]
  /\ UNCHANGED <<pcode, post, page, pairCall, pairPend, pairPrompt, decide, codes, issued, agreed>>

\* claimTTL passes for a prompt nobody answered.
PromptAges(p) ==
  /\ pairPrompt[p].r # NoDevice /\ ~pairPrompt[p].old
  /\ pairPrompt' = [pairPrompt EXCEPT ![p].old = TRUE]
  /\ UNCHANGED <<req, pcode, post, page, pairCall, pairPend, decide, codes, issued, agreed>>

\* A take that only reads, so that a second one finds the row again.
TakeByReading(r) == req' = req

\* TakeAuthRequest: read and delete in one transaction.
Take(r) == req' = [req EXCEPT ![r] = [st |-> "gone", dev |-> NoDevice]]

----------------------------------------------------------------------------
\* The forms.

\* handleAuthorizePost, TakeAuthRequest: the person typed the code of d.  The
\* page takes its claim back and is gone.
PostTakes(h, r, d) ==
  /\ post[h].pc = "idle" /\ Live(r)
  /\ page' = [page EXCEPT ![r] = [Cancelled(@) EXCEPT !.at = "left", !.on = NoDevice]]
  /\ post' = [post EXCEPT ![h] = [pc |-> "code", r |-> r, d |-> d, bound |-> req[r].dev]]
  /\ Take(r)
  /\ UNCHANGED <<pcode, pairCall, pairPend, pairPrompt, decide, codes, issued, agreed>>

\* Either form finds no request: the page is gone, and that is all.
PostMisses(r) ==
  /\ page[r].at \notin {"none", "left"} /\ ~Live(r)
  /\ page' = [page EXCEPT ![r] = [Cancelled(@) EXCEPT !.at = "left", !.on = NoDevice]]
  /\ UNCHANGED <<req, pcode, post, pairCall, pairPend, pairPrompt, decide, codes, issued, agreed>>

\* TakePairingCode finds the code: it is good once.
PostCodeGood(h) ==
  /\ post[h].pc = "code" /\ post[h].d \in pcode
  /\ pcode' = pcode \ {post[h].d}
  /\ post' = [post EXCEPT ![h].pc = "issue"]
  /\ agreed' = agreed \cup {<<post[h].r, post[h].d>>}
  /\ UNCHANGED <<req, page, pairCall, pairPend, pairPrompt, decide, codes, issued>>

\* TakePairingCode finds no live code: the request is armed again as it was
\* taken (unless that write fails, which nobody looks at) and the page shown
\* once more.
PostCodeWrong(h) ==
  LET r == post[h].r IN
  /\ post[h].pc = "code" /\ post[h].d \notin pcode
  /\ \/ req' = [req EXCEPT ![r] = [st |-> "live", dev |-> post[h].bound]]
     \/ req' = req
  /\ page' = [page EXCEPT ![r] = [NoPage EXCEPT !.at = "poll", !.cancel = page[r].cancel]]
  /\ post' = [post EXCEPT ![h] = IdlePost]
  /\ UNCHANGED <<pcode, pairCall, pairPend, pairPrompt, decide, codes, issued, agreed>>

\* The store fails under either form: 503 or 500, and what was taken is gone.
PostFails(h) ==
  /\ post[h].pc # "idle"
  /\ post' = [post EXCEPT ![h] = IdlePost]
  /\ UNCHANGED <<req, pcode, page, pairCall, pairPend, pairPrompt, decide, codes, issued, agreed>>

\* handleAuthorizeContinue's comparison: the request is bound and the nonce is
\* the one its approval minted.
Continues(dev, n) == dev # NoDevice /\ n = dev

\* handleAuthorizeContinue: the request is taken first, so a wrong nonce ends it.
PostContinues(h, r, n) ==
  /\ post[h].pc = "idle" /\ Live(r)
  /\ n \in {NoDevice, page[r].nonce}
  /\ page' = [page EXCEPT ![r] = [@ EXCEPT !.at = "left", !.on = NoDevice]]
  /\ post' = [post EXCEPT ![h] =
       IF Continues(req[r].dev, n)
       THEN [pc |-> "issue", r |-> r, d |-> req[r].dev, bound |-> req[r].dev] ELSE IdlePost]
  /\ Take(r)
  /\ UNCHANGED <<pcode, pairCall, pairPend, pairPrompt, decide, codes, issued, agreed>>

\* issueAuthCode: the one-time code is stored and sent with the redirect.
IssueAuthCode(h) ==
  /\ post[h].pc = "issue"
  /\ codes' = [codes EXCEPT ![post[h].r] = @ + 1]
  /\ issued' = issued \cup {<<post[h].r, post[h].d>>}
  /\ post' = [post EXCEPT ![h] = IdlePost]
  /\ UNCHANGED <<req, pcode, page, pairCall, pairPend, pairPrompt, decide, agreed>>

----------------------------------------------------------------------------
\* The page's script.

\* attempt: the page claims through the Companion's loopback listener.
Attempt(r, k) ==
  /\ page[r].at = "poll" /\ pairCall[k].pc = "idle"
  /\ page' = [page EXCEPT ![r] = [@ EXCEPT !.at = "wait", !.claimed = TRUE, !.on = k]]
  /\ pairCall' = [pairCall EXCEPT ![k] = [pc |-> "look", r |-> r, p |-> NoDevice]]
  /\ UNCHANGED <<req, pcode, post, pairPend, pairPrompt, decide, codes, issued, agreed>>

\* No Companion answers: the page offers the code and asks no more.
NoAnswer(r) ==
  /\ page[r].at = "wait"
  /\ page' = [page EXCEPT ![r] = [@ EXCEPT !.at = "code", !.claimed = FALSE, !.on = NoDevice]]
  /\ UNCHANGED <<req, pcode, post, pairCall, pairPend, pairPrompt, decide, codes, issued, agreed>>

\* "Use a code instead": the claim is taken back, the script goes on.
UseCode(r) ==
  /\ page[r].at \in {"poll", "wait"} /\ page[r].claimed
  /\ page' = [page EXCEPT ![r] = Cancelled(@)]
  /\ UNCHANGED <<req, pcode, post, pairCall, pairPend, pairPrompt, decide, codes, issued, agreed>>

\* clock: the countdown has run out.
PageExpires(r) ==
  /\ page[r].at \in {"poll", "wait", "code"} /\ req[r].st = "expired"
  /\ page' = [page EXCEPT ![r] = [Cancelled(@) EXCEPT !.at = "stopped", !.on = NoDevice]]
  /\ UNCHANGED <<req, pcode, post, pairCall, pairPend, pairPrompt, decide, codes, issued, agreed>>

\* What attempt does with the answer of call k: submit the nonce, stop, or try
\* again in a while.
Told(k, status, nonce) ==
  page' = [r \in Reqs |->
    IF page[r].at # "wait" \/ page[r].on # k THEN page[r]
    ELSE CASE status = "approved" -> [page[r] EXCEPT !.at = "left", !.on = NoDevice, !.nonce = nonce]
           [] status = "rejected" -> [page[r] EXCEPT !.at = "stopped", !.on = NoDevice, !.claimed = FALSE]
           [] OTHER -> [page[r] EXCEPT !.at = "poll", !.on = NoDevice]]

----------------------------------------------------------------------------
\* pairclaim.Service.

\* submit, first critical section.
SubmitLooks(k) ==
  /\ pairCall[k].pc = "look"
  /\ pairCall' = [pairCall EXCEPT ![k] =
       IF pairPend[@.r] # NoDevice THEN [@ EXCEPT !.pc = "wait", !.p = pairPend[pairCall[k].r]]
       ELSE [@ EXCEPT !.pc = "info"]]
  /\ UNCHANGED <<req, pcode, post, page, pairPend, pairPrompt, decide, codes, issued, agreed>>

\* RequestInfo: what is shown must be pending and not yet approved.
ShownHere(r) == Live(r) /\ req[r].dev = NoDevice

\* Info, outside the lock; an error is answered "unknown".
SubmitAsksInfo(k) ==
  /\ pairCall[k].pc = "info"
  /\ \/ /\ ShownHere(pairCall[k].r)
        /\ pairCall' = [pairCall EXCEPT ![k].pc = "register"]
        /\ UNCHANGED page
     \/ /\ Told(k, "unknown", NoDevice)
        /\ pairCall' = [pairCall EXCEPT ![k] = IdlePairCall]
  /\ UNCHANGED <<req, pcode, post, pairPend, pairPrompt, decide, codes, issued, agreed>>

\* prune: the prompts of the list that nobody answered in time go, closed.
Stale(q) == pairPrompt[q].old /\ pairPend[pairPrompt[q].r] = q
Pruned == [q \in PairPrompts |-> IF pairPrompt[q].r # NoDevice /\ Stale(q)
                             THEN [pairPrompt[q] EXCEPT !.closes = @ + 1] ELSE pairPrompt[q]]
PendPruned == [r \in Reqs |-> IF pairPend[r] # NoDevice /\ Stale(pairPend[r]) THEN NoDevice ELSE pairPend[r]]

\* submit, second critical section: attach to a prompt that has appeared, or
\* raise one and prune.
SubmitRegisters(k) ==
  LET r == pairCall[k].r
      free == {p \in PairPrompts : pairPrompt[p].r = NoDevice}
      p == CHOOSE q \in free : TRUE
  IN
  /\ pairCall[k].pc = "register"
  /\ \/ /\ pairPend[r] # NoDevice
        /\ pairCall' = [pairCall EXCEPT ![k].pc = "wait", ![k].p = pairPend[r]]
        /\ UNCHANGED <<pairPend, pairPrompt>>
     \/ /\ pairPend[r] = NoDevice /\ free # {}
        /\ pairCall' = [pairCall EXCEPT ![k].pc = "wait", ![k].p = p]
        /\ pairPend' = [PendPruned EXCEPT ![r] = p]
        /\ pairPrompt' = [Pruned EXCEPT ![p].r = r]
  /\ UNCHANGED <<req, pcode, post, page, decide, codes, issued, agreed>>

\* The same for a page whose request is not one of Reqs: all that is seen of it
\* here is that it prunes.
OtherPageRegisters ==
  /\ pairPend' = PendPruned /\ pairPrompt' = Pruned
  /\ UNCHANGED <<req, pcode, post, page, pairCall, decide, codes, issued, agreed>>

\* submit's select: the decision, the wait budget or the caller's departure.
SubmitReturns(k) ==
  LET p == pairCall[k].p IN
  /\ pairCall[k].pc = "wait"
  /\ \/ pairPrompt[p].closes > 0 /\ pairPrompt[p].approved /\ Told(k, "approved", Here)
     \/ pairPrompt[p].closes > 0 /\ ~pairPrompt[p].approved /\ Told(k, "rejected", NoDevice)
     \/ Told(k, "pending", NoDevice)
  /\ pairCall' = [pairCall EXCEPT ![k] = IdlePairCall]
  /\ UNCHANGED <<req, pcode, post, pairPend, pairPrompt, decide, codes, issued, agreed>>

\* Resolve's critical section: the prompt leaves the list.
ResolveTakes(r) == pairPend' = [pairPend EXCEPT ![r] = NoDevice]

\* Resolve for the person's answer in the desktop window.
Decide(s, r, yes) ==
  /\ decide[s].pc = "idle" /\ pairPend[r] # NoDevice
  /\ ResolveTakes(r)
  /\ decide' = [decide EXCEPT ![s] = [pc |-> IF yes THEN "approve" ELSE "close", p |-> pairPend[r]]]
  /\ agreed' = IF yes THEN agreed \cup {<<r, Here>>} ELSE agreed
  /\ UNCHANGED <<req, pcode, post, page, pairCall, pairPrompt, codes, issued>>

\* The page's cancel arrives (Handler, Cancel), or is lost on the way.
CancelArrives(s, r) ==
  /\ page[r].cancel /\ decide[s].pc = "idle"
  /\ page' = [page EXCEPT ![r].cancel = FALSE]
  /\ \/ /\ pairPend[r] # NoDevice
        /\ ResolveTakes(r)
        /\ decide' = [decide EXCEPT ![s] = [pc |-> "close", p |-> pairPend[r]]]
     \/ UNCHANGED <<pairPend, decide>>
  /\ UNCHANGED <<req, pcode, post, pairCall, pairPrompt, codes, issued, agreed>>

\* BindAuthRequest: only a live request that no device is bound to.
Bindable(r) == Live(r) /\ req[r].dev = NoDevice

\* Approve: the request is bound and the nonce comes back; or it is bound and
\* the reply is lost; or it is refused.
ResolveApproves(s) ==
  LET p == decide[s].p
      r == pairPrompt[p].r
  IN
  /\ decide[s].pc = "approve"
  /\ \/ /\ Bindable(r)
        /\ req' = [req EXCEPT ![r].dev = Here]
        /\ pairPrompt' \in {pairPrompt, [pairPrompt EXCEPT ![p].approved = TRUE]}
     \/ UNCHANGED <<req, pairPrompt>>
  /\ decide' = [decide EXCEPT ![s].pc = "close"]
  /\ UNCHANGED <<pcode, post, page, pairCall, pairPend, codes, issued, agreed>>

\* close(p.done).
ResolveCloses(s) ==
  /\ decide[s].pc = "close"
  /\ pairPrompt' = [pairPrompt EXCEPT ![decide[s].p].closes = @ + 1]
  /\ decide' = [decide EXCEPT ![s] = IdleDecide]
  /\ UNCHANGED <<req, pcode, post, page, pairCall, pairPend, codes, issued, agreed>>

PairingNext ==
  \/ \E r \in Reqs : AuthorizeGet(r) \/ RequestExpires(r) \/ PostMisses(r) \/ NoAnswer(r) \/ UseCode(r) \/ PageExpires(r)
  \/ \E d \in Devices : PairingCode(d)
  \/ \E p \in PairPrompts : PromptAges(p)
  \/ OtherPageRegisters
  \/ \E h \in Posts, r \in Reqs :
       \/ \E d \in Devices : PostTakes(h, r, d)
       \/ \E n \in Devices \cup {NoDevice} : PostContinues(h, r, n)
  \/ \E h \in Posts : PostCodeGood(h) \/ PostCodeWrong(h) \/ PostFails(h) \/ IssueAuthCode(h)
  \/ \E r \in Reqs, k \in Calls : Attempt(r, k)
  \/ \E k \in Calls : SubmitLooks(k) \/ SubmitAsksInfo(k) \/ SubmitRegisters(k) \/ SubmitReturns(k)
  \/ \E s \in Deciders, r \in Reqs : CancelArrives(s, r) \/ \E yes \in BOOLEAN : Decide(s, r, yes)
  \/ \E s \in Deciders : ResolveApproves(s) \/ ResolveCloses(s)

PairingSpec == PairingInit /\ [][PairingNext]_pvars

----------------------------------------------------------------------------
\* A request leads to at most one authorization code, although a typed code, a
\* resubmitted form and an approval in the desktop may all race for it and a
\* wrong code arms it again; and it is issued for a device only if the person
\* agreed to link that device to that request: typed a code the device showed, or
\* said yes on its screen.
OneAgreedCode == issued \subseteq agreed /\ \A r \in Reqs : codes[r] <= 1

=============================================================================
