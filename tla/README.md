# Fylane Companion: TLA+ models, checks and proofs

Fylane lets an AI platform work on a person's files and run commands on their
machine through a local process, the Companion (`src/companion`).  Platforms
reach it through a tunnel or a relay (`src/shared`, `src/relay`); whatever they
ask for goes through one approval authority, a file transaction with undo, and a
task table for commands that outlive their call; a desktop shell (`src/desktop`)
starts it and shows it.  This directory models those parts in TLA+, checks them
with TLC and proves with TLAPS every safety property that the checks show to hold.

## 1. Inventory

Paths are under `src/companion/internal` unless they start with `src/`.

| Part | State | Operations | What is hard | What makes it correct |
|---|---|---|---|---|
| approval | `pending`, `decided`, `*Pending` objects, mode | Approve, Resolve, ApproveRead, SetMode | waiters, retries and several surfaces between the critical sections of one Resolve; answers kept for 15 minutes | the first answer stands; a kept answer is used fresh, by the platform it was for |
| cmdgate, store/grants, pagesnap/grants, app/grants | rung, command grants, delegations, snapshot grants | Decide, SetRung, Grant, Revoke, the decision hook | rung read, grant looked up, minutes of waiting, grant written twice | no grant without a yes, no yes lost, a withdrawal holds, disclosure always asks |
| txn, store/changeset | change_sets rows, backup directories, `inflight`, the workspace | Execute, Rollback, CleanupBackups, Recover | the person edits the same files; disk or store fails between steps; crashes; hourly cleanup | applies once; failure restores and is reported truly; rollback is the inverse; a row lives one life |
| tasks, cmdexec, store/exec, app/reconcile | task table, key map, contexts, exec journal | Run, Status, List, Cancel, Clear, Close, reconcileRuns | key takeover and purge; cancel, timeout and exit racing; crash between two journal rows; shutdown between acquire and launch | one run per key; running is listed; one ending per run, eventually; no process outlives Close |
| pagesnap | proxy, profile, browser, DevTools connection | Take | the page loads while everything is being torn down; deadline against answer | Take returns and leaves nothing behind but what it gave up on |
| approver | paired devices, nonces, inbox channel, push subscriptions | pair, inbox, answer, revoke, push | duplicated and late signed answers; a prompt between reading the list and sleeping | an answer decides once; no wake-up is lost |
| termapprove, app/notify | the prompt on the terminal, the notifier's list and timer | Ask, arrive, flush | lines typed early; arrivals during a flush | whoever waits is announced |
| src/shared/authsrv, pairclaim | requests, pairing codes, codes, token families, push prompts | authorize, exchange, refresh, claim, confirm | several store calls per handler; two handlers with one token; typed and pushed pairing racing | one agreed code per request; one usable refresh token per family |
| src/shared/tunnel, relay | one connection per device, forwarded requests | HandleTunnel, forward, answer | slow callers, full channels, replaced connections | a response has no hole |
| machines | configured machines, one loop per link, task routes, folder cache, current machine | Add, Update, Remove, Connect, Disconnect, route | replaced loops still running; reconnect with calls in flight | what is published is the session that runs; a task is asked for where it is |
| lsp | table of servers, clients, one JSON-RPC connection each | ask, start, reclaim, Close | starting outside the lock; callers registering while the reader leaves | nothing outlives Close; whoever waits is told when the connection ends |
| memory (store, mcpserver, ctlapi) | notes, page, plan | note, read, compact, export, plan, step | several conversations and the desktop at once | paging misses nothing; a stale step id fails |
| settings, prefs, rules (app) | one JSON document, the rung and boundary of the running Core | Save*, the reads of a start | read, change, write back under no lock, by the Core and by commands; a reader finds the file empty or torn | what protects the computer is looser only where the user said so |
| tunnelproc, tunnelget, app/connect | the tunnel process, its address, sign-in, downloads | start, switch, stop, sign in and out, fetch | output, exit, restart and withdrawal in different goroutines; cancelled work not waited for | an announced address is alive; the panel is true; a running download can be cancelled |
| workspace manager | rows, the current folder's file | add, pause, resume, revoke, select | crash while writing | the selection is whole |
| routerule, review desk (ctlapi, app/rules) | rule table, change set rows | save, retry, accept, roll back, edit rules | clicks racing each other and the engine | an undone set is never accepted |
| desktop shell, instance lock, app.Run | Cores, lock, control file | launch, find, retry, exit, crash | a new Core while the old one is leaving | one Core owns the data |
| sandbox, path policy, cmdrule, redact, textenc, urlfetch, ... | none or static | pure functions | strings and paths | covered by table tests |

How they interact: a tool call asks cmdgate (or builds a change set); when a
question is due it calls `approval.Approve` and blocks for the platform's budget;
a surface (desktop window, terminal, paired device) calls `Resolve`, which wakes
the waiters and runs the decision hooks, one of which records grants.  An
approved change set goes through txn, an approved command becomes a task whose
goroutine journals its start and its end.  The router decides before all that
whether the call is for this machine or is carried to another.  At start-up the
Core takes the lock, answers the journal's open rows, marks interrupted change
sets failed, then serves; at shutdown it closes the task manager before the store
and the store before it gives up the lock.

`PROJECT.json` lists every component with its status, and under `hazards` what
is hard to test in this code, at the line where it bites.

## 2. Modules

| Module | Models | Reads as |
|---|---|---|
| `Approval` | approval.Service | callers inside Approve, surfaces inside Resolve; every critical section of `Service.mu` and `Pending.mu` is a step |
| `ApprovalHistory` | the same with one history variable | which answers were collected |
| `Consent` | EXTENDS `Approval`: cmdgate, the four tools that ask, the grants, grantRecorder, revocation, restart | a tool call wraps a caller of `Approval`; `yes` is history: the user's last word per workspace and kind of grant |
| `Terminal` | termapprove, app/notify | an Ask goroutine per prompt, a scanner without a buffer, the notifier's timer |
| `ApproverAnswers` | the signed answers of a paired device | messages in flight, the clock, nonces and their sweep, prompts raised again for one change set |
| `ApproverInbox` | pairing codes, the long poll, push | the wake channel is one bit per poll: was it closed since it was taken |
| `Pairing` | authsrv's authorize page and its requests, pairclaim | posts, calls and answers racing for one request |
| `Tokens` | authsrv's token endpoint | handlers between the store calls of one exchange or refresh |
| `Tunnel` | shared/tunnel | connections, callers' channels, the Companion's answers |
| `FileOps` | what planning, copying, checking, doing and undoing one operation means, and what is reported of it | pure operators over a disk, a function from paths to contents |
| `Txn` | EXTENDS `FileOps`: Execute, Rollback, CleanupBackups, Recover, the clear handlers, the rows | a worker is a goroutine inside the engine; each store statement and file system call is a step, for the cleanup as well |
| `ChangeSetLife` | what Txn promises of a row | four variables: status, window, carrying, taking |
| `TxnHistory` | Txn with one history variable | what moved while a rollback's question was open |
| `Tasks` | tasks.Manager, cmdexec.Runner.Run, the exec journal, reconcileRuns, shutdown and start-up | a run is a task with its goroutine |
| `RunLife` | what Tasks promises of a run | four variables: is there a Core, what it says of the run, what the run was asked for as, its last row |
| `Snapshot` | pagesnap's Take with its proxy and DevTools connection | a stack of things set up, undone in reverse order on every way out |
| `Machines` | the links to other computers | loops that overlap; everything a method changes is one step under `mgr.mu` |
| `Router` | the router in front of /mcp | a call as a sequence of short steps; links change when they like |
| `Lsp`, `LspConn` | the supervisor; one JSON-RPC connection | questions against one table entry; callers, reader and close |
| `Memory`, `MemoryPlan` | notes; page and plan | calls as sequences of statements |
| `Settings` | the settings file, what saves into it, what a start makes of it | savers between load, truncate and fill; a start between its three reads |
| `Connect`, `SignIn`, `Download` | the tunnel process; the provider's sign-in; its program | a manager per tunnel; a certificate is the number of the sign-in that wrote it; overlapping fetches |
| `Workspaces` | the folder rows and the selection's file | requests between the row and the file |
| `Desk` | route rules, saves, accept and rollback clicks | the engine at the level of its rows |
| `Shell` | desktop shell, instance lock, app.Run's order, control file | windows that spawn Cores |
| `ApprovalProofs`, `ConsentProofs` | theorems about `Approval`; about `Consent` on top of them | section 4 |
| `TxnProofs`, `TxnDataProofs` | theorems about `Txn`: rows, claims, copies and the refinement; the disk | section 4 |
| `TasksProofs` | theorems about `Tasks`, with its refinement, and `Snapshot` | section 4 |
| `AccessProofs` | theorems about `Terminal`, `ApproverInbox`, `ApproverAnswers`, `Pairing`, `Tokens`, `Tunnel` | section 4 |
| `RemoteProofs` | theorems about `Machines`, `Router`, `LspConn`, `Lsp` | section 4 |
| `LocalProofs` | theorems about `Memory`, `MemoryPlan`, `Settings`, `Connect`, `SignIn`, `Download`, `Workspaces`, `Desk`, `Shell` | section 4 |
| `MC*` | instances for TLC | |

Composition: `Consent` extends `Approval`, `Txn` extends `FileOps`, `Pairing`
composes authsrv and pairclaim, `ApproverAnswers` the device and the prompts.
Components that share no state are summed into one run: `MCAccess`, `MCLive` and
`MCLocal` extend several modules, a variable `scene` says which of them moves, and
the others stay in one initial state, so a run explores the union of the
components' state spaces and not their product.

`PROJECT.json` `map` gives the source lines of every definition.  Mutated forms
of a definition, used to see that each property can fail, stand just before the
definition they change.

### Abstractions

* Approval: a prompt's contents are what `autoApproved` and `attach` read.  Time
  is the one bit `fresh`; `decisionTTL` (15 minutes) does not pass between two
  critical sections of the Resolve that took the decision.  A `*Pending` that
  nothing points at may be reused, which is what bounds the model.
* Consent: the rule table's verdict and a provider's trust are inputs.  The mode
  is fixed, since a request that carries a command is never approved by policy.
  A restart may come up with any rung.  grantRecorder's own store failure (which
  it logs) is left out.  The grants of an agent are per workspace, one agent.
* FileOps and Txn: a file is named by its content, so a hash is the content
  itself; a non-empty directory is named by its tree.  `plan` (with the reading
  of the row and CreateChangeSet), `planRollback` and `backup` are one step each;
  each operation's check and mutation are separate steps, as are the reading of a
  row and the removal of the directory in a cleanup, and the row and the directory
  in the clear handlers.  Backup sizes are counted in change
  sets, and size pressure may pick any kept copy as the oldest.  A crash and
  the Recover of the next start are one step.  An id is not used again after the
  person cleared its row.  Not modelled: case-only renames, temp files, size
  limits, previews, a RemoveAll that fails half way.  `before`, `taint`, `dirty`,
  `hist` and the cleaner's `early` are history.
* Tasks: retention is a free choice among finished tasks; reconcileRuns answers
  in any order.  A refusal by `prepare` leaves a row without run id, which is not
  kept.  Delegations keep no journal.  The two-hour ceiling only meets
  delegations, because a command's own timeout is at most half an hour.  Output
  buffers and calls without a key are left out.
* Approver devices: signatures and sealing are who made them.  The clock counts
  seconds in units of the window; a device's clock may be off by one window.
* Pairing and Tokens: a secret is known where it was sent.  Lifetimes end by a
  step of their own; store calls may fail between any two others.
* Tunnel: one device; a body is a number of chunks; the caller's channel has room
  for `ChanCap` frames.  Headers and encodings are left out.
* Machines and Router: what ssh prints is an input; a machine is off, pending or
  online in Router and changes when it likes.  Backoff is a free wait.
* Lsp: one workspace, one server of the registry; what it answers is an input, the
  version of an opened file a counter.
* Memory: of a note only its size counts, of a plan step only its state.
* Settings: of an address counts that there is one; `os.WriteFile` is truncate and
  fill, and two of them may leave a garbled file.  A read of what is not whole
  fails, as json.Unmarshal does; what each reader makes of that is in the model: a
  start refuses, the boundary stays on.  The commands save beside the Core and
  survive it.  A file that stays unreadable is repaired by nobody.
* Connect: an address is the run that announced it, a quick tunnel having another
  each time; the stored one that a start publishes is announced by none (`Restored`).
* Snapshot: ports are held by the page's process or another; the browser may die
  at any moment; the deadline is a step.  A connection of the proxy is a CONNECT
  tunnel, or serves plain requests and may go idle in the http.Transport.  The
  clean-up may give up on the browser and on the profile, which `take.gaveUp` notes.
* Download: whether the transfer and the digest are good is one outcome; a fetch may
  still fail after it.  SignIn: sign-out may fail between the certificate
  and the token.
* Desk: a rule hits the saved file or does not; tables are lists of such rules.
* Shell: app.Run comes up in five steps, each of which may fail with what has been
  opened so far still to close; a Core leaves by signal, mode change, failure or
  crash, in app.Run's order of deferred calls.

## 3. What TLC checks

| Run | Instance | Shows |
|---|---|---|
| `access` | seven scenes: Approval (2 callers, 2 surfaces, 2 platforms under one key, 2 live prompts), Terminal (3 prompts), ApproverAnswers (1 signed answer, 2 deliveries at a time, clock to 4 windows, 1 restart), ApproverInbox (2 devices, 2 prompts, 1 poll), Pairing (1 request, 2 devices, 2 posts, 2 calls), Tokens (1 code, 2 handlers, 4 tokens), Tunnel (2 connections, 2 chunks, channel of 2); 1.9 million states | one surface's answer stands; a replay is fresh and for the same platform; nobody waits unannounced; a signed answer decides once; no lost wake-up; one agreed code; one usable refresh token; no hole in a stream |
| `consent` | 2 callers, 1 surface, 2 platforms, 1 workspace, six installations that between them offer one job of each kind; 829 thousand states | no grant without a yes; no yes lost when the call is gone; what must always be asked about is, on every rung |
| `txn` | 2 workers, 1 id, 2 paths, all four operation types, disk and store failures; 1.6 million states | undo restores; what is reported of a failed set is so; rollback is the inverse; a set applies once; approved rows have a worker; windows close before copies go; the engine implements `ChangeSetLife` |
| `tasks` | 3 runs, a command key and a delegation key, table cap 1, one crash; 1.4 million states | one run per key; running tasks are listed; one ending per run; table and journal agree; no process after Close; the task manager, the journal and the start-up implement `RunLife` |
| `live` | Tasks (2 runs, a command key and a delegation key, 2 crashes, failing store) and Snapshot (2 ports, 1 connection of the proxy, 1 load, 2 DevTools calls); 795 thousand states | every started run gets an ending; every picture is answered; nothing of it is left but what the clean-up gave up on |
| `local` | thirteen scenes with two or three actors each (Machines, Router, LspConn, Lsp, Memory, MemoryPlan, Settings, Connect, SignIn, Download, Workspaces, Desk, Shell); 2.6 million states | published endpoints are the running session's; tasks are asked for where they run; whoever waits on a dead language server is on fail's list or told, and none outlives Close; paging misses nothing; stale step ids fail; neither the read boundary nor the rung loosens by itself; an announced address is alive; the sign-in panel is true; a download that is shown running can be cancelled; the selection is whole; one Core owns the data; an undone set is never accepted |

The bounds: every property speaks of two actors and one key, id or path at a
time, and the instances have both actors and one more of what can get in between
(a second surface, a second platform, a third run to take a key over twice, a
third caller of a connection).  `MaxTasks = 1`, `MaxCopies = 0`, `ChanCap = 2`,
`Batch = 2` and `PageSize = 2` put tables, areas, channels and pages at their
limits.  Two crashes are enough to die once more during the recovery from the
first.  The clock of `ApproverAnswers` reaches past the end of the nonce window
for a device whose own clock is off by a window.  One change set id suffices: ids
share only the disk and the cleanup, and the person's edits already write anything
at any time to the disk.  Symmetry is used for interchangeable actors, in runs
without temporal properties other than action properties and the step simulations
of `LivesItsLife`, whose variables do not tell workers apart, and `RunsLiveOnce`,
which treats all runs alike; the ten sets of
actors of `MCLocal` that are given the same two values are never in one scene
together, so permuting them permutes one scene's actors.  Deadlock is checked in
`tasks`; in the others the system may rest with nobody calling, which is a
legitimate end.

### The refinements

`ChangeSetLife` says what a reader of the change set table may rely on: a set is
proposed once and decided once; it is written for only between a yes (`carrying`)
and one verdict; it is undone only between a second yes (`taking`) and one
verdict; a window that closed stays closed; a crash leaves nothing undecided.
`Txn` implements it under `Life`: status is the row's, the window is an applied
row with an open deadline, `carrying` and `taking` are the workers past their
yes.  `Evict` is in the abstract specification because it is what the code does:
size pressure writes a row back as it read it, so that a set rolled back in
between says "applied" again, with its window closed.

`RunLife` says what a caller of `run_command`, `code_task` and `task_status` may
rely on, without table, contexts, processes or Close: a call that is repeated while
it runs gets the same run (`Begin`); only a command that this Core runs gets rows,
until it has an ending (`Record`); a verdict never contradicts the row (`End`, `Agree`:
nothing is called a success or a failure against it, while a stop may come after the
row); a Core that goes forgets everything it said (`Go`); and "interrupted" is written
only between two Cores, of a run that was started and has no ending (`Interrupt`).
`Tasks` implements it under `Lives`: what is said of a run is the task's state, or
that it is new or gone with its Core; `serving` is every state of the Core between
start-up and its end; the last row is the journal's.  Purging, trimming, clearing,
cancelling and the stages of Close map to no step; that the table may forget what
ended is therefore not seen in `RunLife`, and is the subject of `RunningIsListed`.

### Where the code and its own words part

Six runs check what a comment or the README says and are expected to fail; the
findings in `PROJECT.json` quote the lines.

* `approval_collected_once` (CollectedOnce): the waiter's `remove` can run before
  Resolve files the answer, so a collected answer is handed out once more, to a
  second sensitive read for instance.
* `consent_revoke_sticks` (RevokeSticks): the call that asked writes the grant a
  second time, and puts back one the user has withdrawn in between.
* `txn_open_window` (OpenWindowHasItsCopy): cleanup takes an unset deadline for
  one that has passed and removes the copy of a set that is being applied.
* `txn_rollback_overwrites` (RollbackNeverOverwrites): rollback does not look at
  the disk again after the answer.
* `tasks_stops` (StopsAreNotFailures): `StateFromOutcome` has no case for
  "canceled", so a canceled run is recalled as failed.
* `lsp_waiters` (WaitersAreReleased): `fail` blocks on the full channel of a call
  whose context ended just as its answer arrived; the calls behind it are not told,
  and `close` waits for ever.

`WindowClosesFirst` is the part of the copy guarantee that does hold, with the
sets named by the finding taken out, and those whose row a cleanup had read before
their verdict, which it removes by that reading later.  `NobodyIsLeftWaiting` is the
part of read's promise that does hold: whoever waits is told or on fail's list, and
only a call whose answer is still in its channel can hold fail up.
`PublishedIsAlive` leaves out the stored address that a start publishes, `PanelIsTrue`
a sign-out that failed half-way.  `AnswerDecidesOnce` and `OneUsableToken` name their exemptions in history variables (`excused`, `doubled`, `late`): a
request that crosses the edge of its time window between two checks, one token
presented twice at the same moment, a rotation already past its check when its
family is revoked.

### Observations

Statements the models were tried against and do not satisfy.  They are not among
the checked runs.  Some contradict a line of the repository, which is quoted; the
others no line promises exactly.  They are worth a reader's attention.

* grants: grantRecorder has no case for a proxied call, whose workspace grant is
  lost when the call is gone (`app/grants.go:24-25`: recording on the answer
  "closes that gap").
* txn: size pressure writes a row back as the scan read it, so that a set rolled
  back meanwhile says "applied" again, its window closed (`store/changeset.go:12-13`
  calls rolled_back terminal); `Evict` of `ChangeSetLife` is this write.

* authsrv: when the store fails between marking a refresh token used and issuing
  the next, the platform's retry, which a 5xx invites, is taken for reuse and the
  family is revoked (`authsrv.go:1209-1223`; `store.go:53-58` asks that an outage
  never cost a platform its tokens).
* pairclaim: a page whose wait ended just before the yes finds no claim to attach
  to when it asks again; the nonce minted for it is lost and it raises a second
  prompt (`pairclaim.go:88-92`: "the waiting loopback request picks it up").
* approver: a push service's "gone" for an old subscription may delete the one the
  device has registered since.
* termapprove: a line typed before a prompt was shown may answer it, except for
  strict prompts.
* shared/tunnel: a connection that found itself current at its end calls
  OnDisconnect outside the lock, maybe after the OnConnect of the next one; a
  response cut off after its header ends for the public caller like a whole one;
  and `close` of a replaced connection closes callers' channels while its readLoop
  may be about to send on one, or to close it itself because its caller fell behind:
  either panics, and nothing after readLoop runs.
* pagesnap: the idle connections of a proxy's http.Transport are closed by nobody
  (`pagesnap/proxy.go:90-91`: close "drops every connection still open").
* machines: a Remove that cannot save the current machine has taken the link away
  and left its id in the order, and the next `List` panics (`machines.go:333`,
  `:405`).  An install asked for just as its loop is replaced stays in the link's
  channel and may be carried out later, on the host the link has then.  Router: a
  folder list gathered before the user moved to another machine may be cached
  after, and names the wrong folder as current until it ages.
* lsp: the reader writes its answers to server requests itself and waits when the
  server does not read; a dead client stays in the table until the next question
  fails; an answer may be about the file as it was before the last edit.
* memory: the desktop's edit of a step's title writes back the state it read, over
  one a conversation has set meanwhile (`ctlapi/memory.go:166-167`: "left alone").
  settings: between any two Saves of the document the later undoes the earlier
  (`ctlapi/prefs.go:59-61`: must not "risk overwriting"), a pairing made beside the
  running Core for instance, and a save that the end of the Core cuts short leaves
  a file that every start refuses (`app/config.go:103-106`).
* connect: the stored address that a start publishes stays when the tunnel fails
  before it printed one (`directsrv.go:112`: "empty when no tunnel is up"); when the
  Core is killed while its tunnel starts, the process is left behind.  sign-in: a
  sign-out that removed the certificate and could not delete the token leaves the
  panel saying that the account is connected (`setup.go:83-85`); a cancelled sign-in may still report, and two may overlap when
  one is started right after a cancel.
* downloads: a cancelled download that ends late clears the cancel of its successor,
  beside which a third can be started (`download.go:76`: "one download at a time").
* workspace: a row is read, changed and written back, so that a pause and a
  revocation at once may leave either; the same folder added twice at once has two
  rows.
* desk: the credit of a rule is saved over an edit of the table made meanwhile; the
  ticker that approves a rollback's prompt goes by the change set id, and may
  approve a prompt raised for a rollback asked for elsewhere.
* shell: an old Core on its way out may remove the control file its successor has
  just written; a window whose Core lost the race for the lock is not told.

### Fairness

Only `live` needs any, stated in `MCLive`.  For tasks: a run's goroutine keeps
running (the Go scheduler), a process ends because its timeout or the ceiling
kills it, shutdown goes on because `wg.Wait` has a grace period, and a Core that
is down is started again.  The last is an assumption about the user; without it
an interrupted run is answered at the next start, whenever that is.  For
pictures: Take's own goroutine and the connection's reader run, the deadline is
a timer, and the relays of a proxy that is closing end, for close closes their
sockets.  Nothing is assumed about callers, cancels, crashes, the store, the
browser or the page.

## 4. What is proved

Each theorem holds for every value of the constants that the named assumption of
its module allows; the runs check the same property on a small instance, and the
inductive invariants were checked by TLC before they were proved.  A theorem's
name is given where it is not the property's.

**The approval service** (`ApprovalProofs`; any callers, surfaces, requests, number
of live prompts): `TypeCorrect`, `AnsweredLeaves`, `FirstAnswerStands`,
`KeptAnswers` and, as an action property, `ReplaySafe`.  The inductive invariant
adds `PointersInUse` to the properties: maps file prompts under their own key, and
what is pointed at is in use.  It is needed because Resolve deletes by key what it
looked up by pointer, and because a recycled prompt must not be anyone's.

**Consent** (`ConsentProofs`, which uses the invariant of `ApprovalProofs`; any
workspaces, platforms, jobs, installations, callers, surfaces): `GrantNeedsYes`,
`BlockedNeverGetsThrough`, `YesIsRemembered` and, as an action property,
`DisclosureNeedsItsOwnYes`.  (`BlockedNeverGetsThrough` is close to a guard of
`Decide`, and is proved without being checked by a run too.)  `ConsentInv` follows a yes from the surface to the
grant: a tool waits on a prompt filed under the key of its own request
(`AsksItsOwn`), an approved prompt that carries a grant is a yes (`PromptFits`), a
tool about to write a grant has heard one (`ToolFits`), and a yes that is on no
record yet is in the hands of a surface (`Owed`).  The first needs the approval
service's own invariant, for a prompt is recycled only when nobody points at it.

**The file transaction** (`TxnProofs`, `TxnDataProofs`; any paths, contents, change
sets, goroutines, operation lists, copy budget and faults):

* `AppliesOnce` (`BeginsOnce`), `ApprovedIsCarriedOut` (`ApprovedHasItsWorker`),
  `WindowClosesFirst` (`CopiesOutliveWindows`; the cleaner's condemned directory is
  followed from the reading of its row to the removal).  `TxnInv` says what the row must
  say for a goroutine to have come so far, that `inflight` admits one Execute and
  one Rollback per id, how a row's window, copy and history belong together, and,
  which is the part no run of the mill test reaches, what can have become of a row
  since the cleanup or a clear handler read it (`CleanersFit`): it was rolled back,
  failed or cleared, but is never one that Execute still writes.
* `LivesItsLife` (`TxnImplementsLife`): the refinement of `ChangeSetLife`.  The lemma
  of each action shows the invariant after it together with the abstract step it is;
  that two goroutines past their yes are never on one set (`AloneOnSet`) is what
  makes `carrying` and `taking` change by one element at a time.
* `UndoRestores` (`FailedTakesBack`), `EffectsAreTrue` (`ToldIsTrue`) and
  `RollbackIsInverse` (`RollbackTakesBack`).  `DataInv` follows every operation of
  every goroutine: its paths hold the pre-image before, the result after and the
  pre-image again once it was taken back, and its copy is the pre-image or gone, on
  all paths that nobody else wrote.  It is preserved because step 7 of Execute lets
  no path occur in two operations of a set.

**Tasks and pictures** (`TasksProofs`; any finite set of runs, any keys, table cap
and number of crashes): `TasksTypeOK`, `OneRunPerKey` (`SameCallRunsOnce`),
`RunningIsListed` (`RunningStaysListed`), `NoProcessOutlivesClose`
(`CloseLeavesNoProcess`), `OneEnding` (`EndsOnce`), `OwnEndsAgree`
(`TableAndJournalAgree`), `RunsLiveOnce` (`TasksImplementLife`),
`NothingOutlivesThePicture` (`PictureLeavesNothing`).  A
second run is kept out because the running one still holds its key, which it does
because nothing that runs is forgotten; `RunningHoldsItsKey` says both.
`CanceledWhenClosed`: after `m.cancel` every live context is over, so what is
launched late starts no process.  `RowsFit` ties a run's rows to how far it has come,
and `OrphansAreOpen` says that what reconcileRuns has still to answer has no ending
and no goroutine, so that a crash during reconcileRuns does no harm.  The refinement
of `RunLife` stands on these and on `LifeInv`: a delegation has no rows and only it
meets the runtime ceiling, and the last row of a reported command is one that its
exit and its context, as they are now, could have written (`Written`), which a later
cancel only widens.  For pictures,
`LadderHolds`: what stands is exactly what the rung Take is on says, or what it gave
up on.

**The ways in** (`AccessProofs`): `NobodyWaitsUnannounced`, inductive as it stands;
`PollsAreWoken`, from the hook that every open prompt still has to run;
`AnswerDecidesOnce`, from `UsedOnce`: while a second use of a signed answer is in
flight or possible, its nonce is remembered or its window is over, for any clock
and window; `OneAgreedCode`, from the request being in one place at a time (its
table, one form, or a code) and bound only to what was agreed; `OneUsableToken`,
from `OneCarrier`: a family whose tokens came one at a time has one unused token or
one handler that is making it; `StreamIsIntact` (`StreamArrivesWhole`; any callers,
chunks, connections and channel size), from following the frames of one answer:
they travel on the caller's own connection only (`TravelsAlone`), nothing but a
heartbeat is there twice (`NoCopies`), and before every frame there is its
predecessor, in the channel always, in readLoop's hand while the channel is open,
on the wire while the caller is still served (`NoHoles`).  The last two conditions
are what a full channel costs: frames may be lost only together with the channel.

**Other computers and language servers** (`RemoteProofs`): `OnlineIsThisSession`,
from the pointers between a link and the one live loop it can stop;
`TasksStayHome`, from what the router remembers being where things are or purged;
`NobodyIsLeftWaiting` (`NobodyWaitsForADeadServer`), from following a registered call
through the reader's `fail`: it is answered at most once and told of the end at most
once, so that a channel is full only when the second of the two is sent;
`NothingOutlivesClose`, from at most one start under way outside the lock.

**The Companion's own services** (`LocalProofs`): `PagingMissesNothing`
(`PagingIsWhole`; any page size, budget and sizes of notes), from `ReadFits`: what a
read owes it has seen, or it is still below its cursor, because notes only age and
new ones have new ids; `StaleMovesFail`; `NothingLoosensByItself`
(`ProtectionIsKept`), from every document that is in the file or in somebody's hands
being looser than the defaults only in what the user has said (`AsChosen`);
`PublishedIsAlive`, `PanelIsTrue`, `CancelReachesWhatRuns` (`CancelReaches`),
`SelectionIsWhole`, `OneCoreOwnsTheData` and, as an action property, `UndoneIsNeverAccepted`.  The
longest is `PublishedIsAlive`: an address whose process died is known to somebody
who is about to withdraw it (`WithdrawalIsDue`), because output is read only while
its run is waited for (`ScansItsOwnRun`) and a cancelled manager is one that a Stop
waits for (`CancelledIsAwaited`).

What the proofs changed in the models: `ToolHears` of `Consent` was a CASE whose
arms overlapped for a denied question about a grant, so that TLA+ left open which
of them applied (TLC takes the first); it now says that a denial ends the call.
`JobShape` says that only commands are blocked, since only they reach the rule
table.  `TxnAssumption` and `JobsAssumption` say that there is a change set id and
a platform, `WorkspacesAssumption` and `PairingAssumption` that "none" is not the
name of a request.  Elsewhere records that were written as changes of an idle
record are now written out, with the same meaning.  `ToolPage` of `Memory` stops, as
the code's loop does, at the first note that the budget does not take, where it
selected by size before; the two agree because sizes only add up, which would have
to be proved by induction.  `Taken` of `Tunnel` was part of `Deliver`.

Only model-checked: the six runs that are expected to fail, and liveness under
fairness (`StartedRunsEnd`, `EveryPictureEnds`), which is out of the prover's reach,
as is ENABLED.  No module uses a recursive definition.

## 5. Not modelled

* Path resolution, ignore files and the command rule table: pure functions over
  strings and symbolic links.  Consent ranges over every verdict of the table,
  Desk over rules that hit and rules that do not.
* The tools that read, search, edit text and run git: they keep no state and end
  in Execute.
* Drivers of external agents and providers, the operating system's read boundary,
  the search for a browser, HTTP routing, audit texts, update checks, log files,
  autostart, the windows of the desktop, the approver's page, packaging.

## 6. Plan

Every safety property that a passing run checks is proved, and so are both
refinements.  Next: the conditional parts of what the six violated statements
promise, the observations of section 3 that a weaker statement can be made of, and
an abstract specification of one more component, consent being the best candidate
(what a workspace's owner may rely on over revocations and restarts).
