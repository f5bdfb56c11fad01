------------------------------ MODULE Snapshot ------------------------------
(***************************************************************************)
(* One picture of a page (pagesnap/snapshot.go, proxy.go, cdp.go and the   *)
(* tool that asks for it, mcpserver/pagesnapshot.go).  Snapshotter.Take    *)
(* sets up a proxy, a profile, a browser and a DevTools connection, drives *)
(* the page by calls on that connection, and undoes what it set up in the  *)
(* opposite order on every way out.  Meanwhile the page's requests are     *)
(* served by the proxy's own goroutines, and the connection is read by     *)
(* another.  Ports change hands, the browser may die, the deadline may     *)
(* pass at any moment.                                                     *)
(***************************************************************************)
EXTENDS Integers, FiniteSets

CONSTANTS
  Ports,       \* loopback ports the page may ask for
  PagePort,    \* the port of the page itself
  Conveyors,   \* bound: connections the proxy makes for the page
  Loads,       \* bound: requests the page watch sees
  MaxCalls     \* bound: pictures tried, the last one at the lowest quality

ASSUME SnapshotAssumption == PagePort \in Ports /\ MaxCalls \in Nat \ {0}

VARIABLES
  holder,      \* per port: a command of this workspace listens there, or not
  take,        \* Take: how far it set up, what it does, the calls it made, and what it
               \* gave up on when it cleaned up
  answers,     \* ownership.answers: "unasked", "own" or "refused", once per port
  conveyor,    \* per connection to a server: [pc, port]
  closing,     \* proxy.stopped
  refused,     \* proxy.blocked
  chrome,      \* the browser's process: "absent", "running", "exited"
  folder,      \* its profile directory is there
  reader,      \* cdpConn.read: "none", "reading", "done", or the call it hands an answer to
  watch        \* pageWatch: [loaded, inflight, quiet]

snapshotVars ==
  <<holder, take, answers, conveyor, closing, refused, chrome, folder, reader, watch>>

\* What Take has set up so far, in its order; the way out goes down the same ladder.
Nothing == 0
Proxied == 1
Profiled == 2
Launched == 3
Dialled == 4

NoWatch == [loaded |-> FALSE, inflight |-> {}, quiet |-> FALSE]

SnapshotInit ==
  /\ holder \in [Ports -> BOOLEAN]
  /\ take = [pc |-> "new", built |-> Nothing, tries |-> 0, late |-> FALSE, out |-> "none",
             settled |-> FALSE, gaveUp |-> {}]
  /\ answers = [p \in Ports |-> "unasked"]
  /\ conveyor = [c \in Conveyors |-> [pc |-> "none", port |-> PagePort]]
  /\ closing = FALSE /\ refused = {} /\ chrome = "absent" /\ folder = FALSE
  /\ reader = "none" /\ watch = NoWatch

-----------------------------------------------------------------------------
(* Whose port it is *)

\* ownership.lookup: the port's listeners are asked for now.
Owned(p) == holder[p]

\* ownership.check: one answer per port for one snapshot.
Answered(p) ==
  IF answers[p] # "unasked" THEN answers ELSE [answers EXCEPT ![p] = IF Owned(p) THEN "own" ELSE "refused"]

-----------------------------------------------------------------------------
(* Asking and setting up *)

Turns(pc) == take' = [take EXCEPT !.pc = pc]
GivesUp(why) == take' = [take EXCEPT !.pc = "unwinding", !.out = why]

\* The tool looks before it asks the user, with a lookup of its own; a refused
\* port or a refused question ends it.
SnapshotAsks ==
  /\ take.pc = "new"
  /\ \/ Owned(PagePort) /\ Turns("agreed")
     \/ take' = [take EXCEPT !.pc = "returned", !.out = "refused"]
  /\ UNCHANGED <<holder, answers, conveyor, closing, refused, chrome, folder, reader, watch>>

\* Take looks again: the user may have thought for a long time.
TakeChecks ==
  /\ take.pc = "agreed"
  /\ answers' = Answered(PagePort)
  /\ IF answers'[PagePort] = "own" THEN Turns("building") ELSE GivesUp("refused")
  /\ UNCHANGED <<holder, conveyor, closing, refused, chrome, folder, reader, watch>>

Builds(from, to) ==
  /\ take.pc = "building" /\ take.built = from
  /\ take' = [take EXCEPT !.built = to, !.pc = IF to = Dialled THEN "driving" ELSE "building"]

StartProxy ==
  Builds(Nothing, Proxied) /\ UNCHANGED <<holder, answers, conveyor, closing, refused, chrome, folder, reader, watch>>

MakeProfile ==
  /\ Builds(Proxied, Profiled) /\ folder' = TRUE
  /\ UNCHANGED <<holder, answers, conveyor, closing, refused, chrome, reader, watch>>

\* launch: the process is started, then Take waits for its DevTools address.
BrowserStarts ==
  /\ take.pc = "building" /\ take.built = Profiled /\ chrome = "absent"
  /\ chrome' = "running"
  /\ UNCHANGED <<holder, take, answers, conveyor, closing, refused, folder, reader, watch>>

BrowserReady ==
  /\ chrome = "running" /\ ~take.late /\ Builds(Profiled, Launched)
  /\ UNCHANGED <<holder, answers, conveyor, closing, refused, chrome, folder, reader, watch>>

DialCDP ==
  /\ chrome = "running" /\ ~take.late /\ Builds(Launched, Dialled)
  /\ reader' = "reading"
  /\ UNCHANGED <<holder, answers, conveyor, closing, refused, chrome, folder, watch>>

\* browser.stop kills the whole group and waits for the exit, ten seconds at most.
Stops(next) ==
  \/ chrome' = "exited" /\ take' = next
  \/ chrome = "running" /\ chrome' = chrome /\ take' = [next EXCEPT !.gaveUp = @ \cup {"browser"}]

\* Any step of the set-up fails; a launch that fails takes its browser down itself.
BuildFails ==
  /\ take.pc = "building"
  /\ IF take.built = Profiled /\ chrome = "running"
     THEN Stops([take EXCEPT !.pc = "unwinding", !.out = "failed"])
     ELSE GivesUp("failed") /\ UNCHANGED chrome
  /\ UNCHANGED <<holder, answers, conveyor, closing, refused, folder, reader, watch>>

-----------------------------------------------------------------------------
(* Driving the page by calls *)

\* cdpConn.call registers its channel and writes.  What it is for: the calls up to
\* and including the navigation, the title, or a picture.
CallSends ==
  /\ take.pc \in {"driving", "settled", "titled"} /\ reader # "done"
  /\ Turns([driving |-> "navigating", settled |-> "titling", titled |-> "shooting"][take.pc])
  /\ UNCHANGED <<holder, answers, conveyor, closing, refused, chrome, folder, reader, watch>>

InCall == take.pc \in {"navigating", "titling", "shooting", "bye"}

Delivering == reader \in {"navigating", "titling", "shooting", "bye"}

\* A channel without room: the reader can only hand over to a caller that waits.
HandsToWaiter == take.pc = reader

\* The channel has room for the one answer it will get, so the reader never waits
\* for a caller that gave up in the meantime.
HandsOver == TRUE

\* The reader found the call's channel in the table and took it out.
ReplyArrives ==
  /\ reader = "reading" /\ chrome = "running" /\ InCall
  /\ reader' = take.pc
  /\ UNCHANGED <<holder, take, answers, conveyor, closing, refused, chrome, folder, watch>>

\* The picture is small enough, or there is a worse quality left to try.
Shot == [take EXCEPT !.pc = "unwinding", !.out = "picture"]
Smaller ==
  IF take.tries + 1 < MaxCalls THEN [take EXCEPT !.pc = "titled", !.tries = @ + 1]
  ELSE [take EXCEPT !.pc = "unwinding", !.out = "toolarge"]

\* An answer that is an error ends Take, except for the title's.  One that comes when
\* its call has given up stays in the channel nobody reads.
Answers ==
  IF take.pc # reader THEN UNCHANGED take ELSE
  CASE take.pc = "navigating" -> take' = [take EXCEPT !.pc = "settling"] \/ GivesUp("failed")
    [] take.pc = "titling"    -> Turns("titled")
    [] take.pc = "shooting"   -> take' \in {Shot, Smaller} \/ GivesUp("failed")
    [] take.pc = "bye"        -> Turns("hangup")

Reply ==
  /\ Delivering /\ HandsOver
  /\ reader' = "reading" /\ Answers
  /\ UNCHANGED <<holder, answers, conveyor, closing, refused, chrome, folder, watch>>

\* The deadline passes, the write fails or the connection closes under a call.  The
\* title is the one call whose failure Take forgives.
CallFails ==
  /\ InCall /\ (take.late \/ reader = "done" \/ take.pc = "bye")
  /\ CASE take.pc = "titling" -> Turns("titled")
       [] take.pc = "bye"     -> Turns("hangup")
       [] OTHER               -> GivesUp("failed")
  /\ UNCHANGED <<holder, answers, conveyor, closing, refused, chrome, folder, reader, watch>>

\* A call on a connection that has closed already fails when it writes.
CallRefused ==
  /\ take.pc \in {"driving", "settled", "titled"} /\ reader = "done"
  /\ IF take.pc = "settled" THEN Turns("titled") ELSE GivesUp("failed")
  /\ UNCHANGED <<holder, answers, conveyor, closing, refused, chrome, folder, reader, watch>>

-----------------------------------------------------------------------------
(* The page watch *)

\* pageWatch.event, on the reader's goroutine: what is outstanding, and that
\* something changed just now.
PageEvent ==
  /\ reader = "reading" /\ chrome = "running" /\ take.built = Dialled
  /\ \/ watch' = [watch EXCEPT !.loaded = TRUE, !.quiet = FALSE]
     \/ \E q \in Loads : watch' = [watch EXCEPT !.inflight = @ \cup {q}, !.quiet = FALSE]
     \/ \E q \in watch.inflight : watch' = [watch EXCEPT !.inflight = @ \ {q}, !.quiet = FALSE]
  /\ UNCHANGED <<holder, take, answers, conveyor, closing, refused, chrome, folder, reader>>

PageQuiet ==
  /\ take.built = Dialled /\ ~watch.quiet /\ watch' = [watch EXCEPT !.quiet = TRUE]
  /\ UNCHANGED <<holder, take, answers, conveyor, closing, refused, chrome, folder, reader>>

\* waitSettled: loaded, nothing outstanding and quiet for long enough; or its budget
\* or the deadline ran out, and the picture says so.
WaitSettled ==
  /\ take.pc = "settling"
  /\ \/ watch.loaded /\ watch.inflight = {} /\ watch.quiet
        /\ take' = [take EXCEPT !.pc = "settled", !.settled = TRUE]
     \/ Turns("settled")
  /\ UNCHANGED <<holder, answers, conveyor, closing, refused, chrome, folder, reader, watch>>

-----------------------------------------------------------------------------
(* The proxy *)

\* proxy.dial: the policy is asked about the address that is dialled, and a refusal
\* is remembered for the report.  Addresses off this computer are decided by the
\* address and the workspace's setting alone, and are not told apart here.  The dial
\* is for a CONNECT, or for a plain request that the reverse proxy serves.
ProxyServes == chrome = "running" /\ take.built >= Proxied /\ ~closing

ProxyDials(c, p, use) ==
  /\ conveyor[c].pc = "none" /\ ProxyServes
  /\ answers' = Answered(p)
  /\ conveyor' = [conveyor EXCEPT ![c] = [pc |-> IF answers'[p] = "own" THEN use ELSE "ended", port |-> p]]
  /\ refused' = IF answers'[p] = "own" THEN refused ELSE refused \cup {p}
  /\ UNCHANGED <<holder, take, closing, chrome, folder, reader, watch>>

\* A plain request ends, by itself or because the browser's end of it was closed.  Its
\* connection is closed, or goes to the http.Transport for the next request to the same
\* server; there it stays until the server closes it.
ServeEnds(c) ==
  /\ conveyor[c].pc \in {"serving", "idle"}
  /\ \E to \in {"ended"} \cup (IF conveyor[c].pc = "serving" THEN {"idle"} ELSE {}) :
       conveyor' = [conveyor EXCEPT ![c].pc = to]
  /\ UNCHANGED <<holder, take, answers, closing, refused, chrome, folder, reader, watch>>

ServesAgain(c) ==
  /\ conveyor[c].pc = "idle" /\ ProxyServes
  /\ conveyor' = [conveyor EXCEPT ![c].pc = "serving"]
  /\ UNCHANGED <<holder, take, answers, closing, refused, chrome, folder, reader, watch>>

\* The connection is taken from the HTTP server, which will not close it any more; a
\* dial or a takeover that fails leaves nothing open.
Hijacks(c) ==
  /\ conveyor[c].pc = "dialled"
  /\ \E to \in {"hijacked", "ended"} : conveyor' = [conveyor EXCEPT ![c].pc = to]
  /\ UNCHANGED <<holder, take, answers, closing, refused, chrome, folder, reader, watch>>

\* A tunnel that counts itself in without asking whether the proxy closes.
TrackAnyway == TRUE

\* proxy.track: not once close has begun.
Track == ~closing

Counts(c) ==
  /\ conveyor[c].pc = "hijacked"
  /\ conveyor' = [conveyor EXCEPT ![c].pc = IF Track THEN "relaying" ELSE "ended"]
  /\ UNCHANGED <<holder, take, answers, closing, refused, chrome, folder, reader, watch>>

\* One side closed, or the proxy stops: both connections are closed, then Done.
RelayEnds(c) ==
  /\ conveyor[c].pc = "relaying"
  /\ conveyor' = [conveyor EXCEPT ![c].pc = "ended"]
  /\ UNCHANGED <<holder, take, answers, closing, refused, chrome, folder, reader, watch>>

-----------------------------------------------------------------------------
(* The way out: the deferred calls, last set up first *)

\* Browser.close with two seconds of its own, if there is a connection.
UnwindBye ==
  /\ take.pc = "unwinding" /\ take.built = Dialled
  /\ Turns("bye")
  /\ UNCHANGED <<holder, answers, conveyor, closing, refused, chrome, folder, reader, watch>>

\* cdpConn.close closes the socket and waits for the reader to return, which it can
\* not while it is handing over an answer.
UnwindHangUp ==
  /\ take.pc = "hangup" /\ reader \in {"reading", "done"}
  /\ reader' = "done" /\ take' = [take EXCEPT !.pc = "unwinding", !.built = Launched]
  /\ UNCHANGED <<holder, answers, conveyor, closing, refused, chrome, folder, watch>>

UnwindBrowser ==
  /\ take.pc = "unwinding" /\ take.built = Launched
  /\ Stops([take EXCEPT !.built = Profiled])
  /\ UNCHANGED <<holder, answers, conveyor, closing, refused, folder, reader, watch>>

\* removeProfile tries twenty times; helpers of the browser may still hold its files.
UnwindProfile ==
  /\ take.pc = "unwinding" /\ take.built = Profiled
  /\ \/ folder' = FALSE /\ take' = [take EXCEPT !.built = Proxied]
     \/ UNCHANGED folder /\ take' = [take EXCEPT !.built = Proxied, !.gaveUp = @ \cup {"profile"}]
  /\ UNCHANGED <<holder, answers, conveyor, closing, refused, chrome, reader, watch>>

\* proxy.close: no tunnel is counted in after this, and nothing new is served.
UnwindProxy ==
  /\ take.pc = "unwinding" /\ take.built = Proxied /\ ~closing
  /\ closing' = TRUE
  /\ UNCHANGED <<holder, take, answers, conveyor, refused, chrome, folder, reader, watch>>

\* It waits for every tunnel that was; for a plain request it does not wait.
TakeReturns ==
  /\ take.pc = "unwinding" /\ (take.built = Nothing \/ (take.built = Proxied /\ closing))
  /\ \A c \in Conveyors : conveyor[c].pc # "relaying"
  /\ take' = [take EXCEPT !.pc = "returned", !.built = Nothing]
  /\ UNCHANGED <<holder, answers, conveyor, closing, refused, chrome, folder, reader, watch>>

-----------------------------------------------------------------------------
(* What goes on around it *)

\* Another process takes the port, or its listener goes away.
PortChanges(p) ==
  /\ take.pc # "returned" /\ holder' = [holder EXCEPT ![p] = ~@]
  /\ UNCHANGED <<take, answers, conveyor, closing, refused, chrome, folder, reader, watch>>

\* The browser dies: its end of every connection closes.
BrowserDies ==
  /\ chrome = "running" /\ chrome' = "exited"
  /\ reader' = IF reader = "reading" THEN "done" ELSE reader
  /\ UNCHANGED <<holder, take, answers, conveyor, closing, refused, folder, watch>>

\* A reader that was handing over reads the end of the stream next.
ReaderEnds ==
  /\ reader = "reading" /\ chrome = "exited" /\ reader' = "done"
  /\ UNCHANGED <<holder, take, answers, conveyor, closing, refused, chrome, folder, watch>>

Deadline ==
  /\ take.pc \notin {"new", "agreed", "returned"} /\ ~take.late /\ take' = [take EXCEPT !.late = TRUE]
  /\ UNCHANGED <<holder, answers, conveyor, closing, refused, chrome, folder, reader, watch>>

TakeSteps ==
  \/ SnapshotAsks \/ TakeChecks \/ StartProxy \/ MakeProfile \/ BrowserStarts \/ BrowserReady
  \/ DialCDP \/ BuildFails \/ CallSends \/ CallFails \/ CallRefused \/ WaitSettled
  \/ UnwindBye \/ UnwindHangUp \/ UnwindBrowser \/ UnwindProfile \/ UnwindProxy \/ TakeReturns

SnapshotNext ==
  \/ TakeSteps \/ ReplyArrives \/ Reply \/ PageEvent \/ PageQuiet
  \/ BrowserDies \/ ReaderEnds \/ Deadline
  \/ \E c \in Conveyors : \/ Hijacks(c) \/ Counts(c) \/ RelayEnds(c) \/ ServeEnds(c) \/ ServesAgain(c)
                          \/ \E p \in Ports, use \in {"dialled", "serving"} : ProxyDials(c, p, use)
  \/ \E p \in Ports : PortChanges(p)

SnapshotSpec == SnapshotInit /\ [][SnapshotNext]_snapshotVars

-----------------------------------------------------------------------------
(* Properties *)

\* Whichever step of Take failed, and whatever the page was doing at the time: once Take
\* has returned no reader is left and no tunnel relays, not even one whose request was being
\* dialled while the proxy closed.  A profile is left only when removeProfile gave up on
\* it, and a browser only when stop gave up on it, and that one finds its proxy closed.
\* (An idle connection to a plain HTTP server is the http.Transport's and may stay.)
NothingOutlivesThePicture ==
  take.pc = "returned" =>
    /\ chrome = "running" => "browser" \in take.gaveUp /\ closing
    /\ folder => "profile" \in take.gaveUp
    /\ reader \in {"none", "done"}
    /\ \A c \in Conveyors : conveyor[c].pc # "relaying"

\* Take returns whatever the browser does: it may die, fall silent, or answer a call just
\* as the deadline ends it.  Closing the DevTools connection waits for its reader, and
\* the reader must not be waiting for a caller that is gone.
EveryPictureEnds == (take.pc = "agreed") ~> (take.pc = "returned")
=============================================================================
