------------------------------- MODULE Tunnel -------------------------------
(***************************************************************************)
(* The relay tunnel of shared/tunnel: public requests forwarded, in        *)
(* memory, through the WebSocket a Companion keeps open.                   *)
(*                                                                         *)
(* One device identity, for the registry's entries are independent.  Each  *)
(* connection has a HandleTunnel goroutine (its readLoop included), each   *)
(* caller a forward goroutine and, on the Companion, an answer goroutine.  *)
(* Critical sections of Server.mu and serverConn.mu, channel operations    *)
(* and frames on the wire are steps.                                       *)
(***************************************************************************)
EXTENDS Integers, Sequences, FiniteSets

CONSTANTS
  Fwds,      \* forwarded requests
  Chunks,    \* chunk frames in a response
  ChanCap,   \* capacity of a response channel (256 in the code)
  MaxConns   \* bound: how often a Companion connects

ASSUME TunnelAssumption ==
  /\ Chunks \in Nat \ {0} /\ ChanCap \in Nat \ {0} /\ MaxConns \in Nat \ {0}

VARIABLES
  reg,      \* Server.conns of the identity, 0 for none
  server,   \* the HandleTunnel goroutines
  old,      \* the connection each one replaced
  link,     \* the WebSockets that are up
  gone,     \* serverConn.closed
  pend,     \* serverConn.pending
  closing,  \* channels close still has to close
  reading,  \* the frame a readLoop has looked the channel up for
  chan,     \* the response channels
  fwd,      \* the forward goroutines
  work,     \* the answer goroutines of the Companion
  wire,     \* response frames on their way
  online    \* what OnConnect and OnDisconnect last reported

tunnelVars == <<reg, server, old, link, gone, pend, closing, reading, chan, fwd, work, wire, online>>
serverVars == <<reg, server, old, online>>
callVars == <<fwd, work>>

Conns == 1 .. MaxConns
EndFrame == Chunks + 1
Keepalive == -1
NoFrame == [who |-> CHOOSE f \in Fwds : TRUE, n |-> -2]
NoChan == [buf |-> <<>>, closed |-> FALSE]
IdleFwd == [pc |-> "idle", conn |-> 0, status |-> FALSE, got |-> 0, gap |-> FALSE]
NoWork == [conn |-> 0, next |-> 0, kept |-> FALSE]

TunnelInit ==
  /\ reg = 0 /\ online = FALSE
  /\ server = [c \in Conns |-> "none"]
  /\ old = [c \in Conns |-> 0]
  /\ link = {} /\ gone = {}
  /\ pend = [c \in Conns |-> {}]
  /\ closing = [c \in Conns |-> {}]
  /\ reading = [c \in Conns |-> NoFrame]
  /\ chan = [f \in Fwds |-> NoChan]
  /\ fwd = [f \in Fwds |-> IdleFwd]
  /\ work = [f \in Fwds |-> NoWork]
  /\ wire = [c \in Conns |-> <<>>]

----------------------------------------------------------------------------
\* Connections.

\* Client.Run dials (again), or a second Companion with the same credential
\* does; HandleTunnel takes the entry of the registry over.
Dial(c) ==
  /\ server[c] = "none" /\ \A b \in 1 .. c - 1 : server[b] # "none"
  /\ link' = link \cup {c}
  /\ old' = [old EXCEPT ![c] = reg]
  /\ reg' = c
  /\ server' = [server EXCEPT ![c] = "replace"]
  /\ UNCHANGED <<gone, pend, closing, reading, chan, callVars, wire, online>>

LinkBreaks(c) ==
  /\ c \in link /\ link' = link \ {c}
  /\ UNCHANGED <<serverVars, gone, pend, closing, reading, chan, callVars, wire>>

\* close, its critical section: nothing for a connection already closed.
CloseConn(c) ==
  IF c \in gone THEN UNCHANGED <<gone, pend, closing, link>>
  ELSE /\ gone' = gone \cup {c}
       /\ closing' = [closing EXCEPT ![c] = pend[c]]
       /\ pend' = [pend EXCEPT ![c] = {}]
       /\ link' = IF pend[c] = {} THEN link \ {c} ELSE link

\* close goes on: one channel after the other, then the socket.
CloseChannel(c, f) ==
  /\ f \in closing[c]
  /\ chan' = [chan EXCEPT ![f].closed = TRUE]
  /\ closing' = [closing EXCEPT ![c] = @ \ {f}]
  /\ link' = IF closing[c] = {f} THEN link \ {c} ELSE link
  /\ UNCHANGED <<serverVars, gone, pend, reading, callVars, wire>>

\* HandleTunnel closes the connection it replaced.
ReplaceOld(c) ==
  /\ server[c] = "replace"
  /\ IF old[c] = 0 THEN UNCHANGED <<gone, pend, closing, link>> ELSE CloseConn(old[c])
  /\ server' = [server EXCEPT ![c] = "connect"]
  /\ UNCHANGED <<reg, old, online, reading, chan, callVars, wire>>

OnConnect(c) ==
  /\ server[c] = "connect"
  /\ online' = TRUE
  /\ server' = [server EXCEPT ![c] = "read"]
  /\ UNCHANGED <<reg, old, link, gone, pend, closing, reading, chan, callVars, wire>>

\* readLoop: a frame is read and its channel looked up; nobody waits, it is dropped.
ReadFrame(c) ==
  LET f == Head(wire[c]) IN
  /\ server[c] = "read" /\ c \in link /\ wire[c] # <<>> /\ reading[c] = NoFrame
  /\ wire' = [wire EXCEPT ![c] = Tail(@)]
  /\ reading' = [reading EXCEPT ![c] = IF f.who \in pend[c] THEN f ELSE NoFrame]
  /\ UNCHANGED <<serverVars, link, gone, pend, closing, chan, callVars>>

\* Room is made by forgetting the frame.
OverflowDropsFrame(c, f) == UNCHANGED <<pend, chan>>

\* Its whole request is dropped: once it is not pending, nobody else closes its channel.
Overflow(c, f) ==
  /\ pend' = [pend EXCEPT ![c] = @ \ {f}]
  /\ chan' = [chan EXCEPT ![f].closed = TRUE]

\* readLoop's select finds no room: the caller has fallen behind.
FallsBehind(c) ==
  /\ server[c] = "read" /\ reading[c] # NoFrame
  /\ ~chan[reading[c].who].closed /\ Len(chan[reading[c].who].buf) = ChanCap
  /\ server' = [server EXCEPT ![c] = "full"]
  /\ UNCHANGED <<reg, old, online, link, gone, pend, closing, reading, chan, callVars, wire>>

\* Either the frame is sent, or the request of a caller that fell behind is dropped.  A
\* channel that close has closed since the lookup makes the send panic, and the second
\* close of it too: the handler unwinds and nothing after readLoop runs.
Dispatch(c) ==
  LET f == reading[c].who IN
  /\ reading[c] # NoFrame
  /\ \/ /\ chan[f].closed
        /\ server' = [server EXCEPT ![c] = "panic"]
        /\ UNCHANGED <<pend, chan>>
     \/ /\ ~chan[f].closed /\ server[c] = "read" /\ Len(chan[f].buf) < ChanCap
        /\ chan' = [chan EXCEPT ![f].buf = Append(@, reading[c].n)]
        /\ UNCHANGED <<server, pend>>
     \/ /\ ~chan[f].closed /\ server[c] = "full"
        /\ Overflow(c, f)
        /\ server' = [server EXCEPT ![c] = "read"]
  /\ reading' = [reading EXCEPT ![c] = NoFrame]
  /\ UNCHANGED <<reg, old, online, link, gone, closing, callVars, wire>>

\* The read fails: readLoop closes the connection itself.
ReadFails(c) ==
  /\ server[c] = "read" /\ c \notin link /\ reading[c] = NoFrame
  /\ CloseConn(c)
  /\ server' = [server EXCEPT ![c] = "leave"]
  /\ UNCHANGED <<reg, old, online, reading, chan, callVars, wire>>

\* stillCurrent.
StillCurrent(c) == reg = c

\* HandleTunnel after readLoop: the entry is cleared if it is still its own.
Leave(c) ==
  /\ server[c] = "leave"
  /\ reg' = IF StillCurrent(c) THEN 0 ELSE reg
  /\ server' = [server EXCEPT ![c] = IF StillCurrent(c) THEN "report" ELSE "done"]
  /\ UNCHANGED <<old, online, link, gone, pend, closing, reading, chan, callVars, wire>>

OnDisconnect(c) ==
  /\ server[c] = "report"
  /\ online' = FALSE
  /\ server' = [server EXCEPT ![c] = "done"]
  /\ UNCHANGED <<reg, old, link, gone, pend, closing, reading, chan, callVars, wire>>

----------------------------------------------------------------------------
\* Requests.

\* forward looks the connection up; without one the answer is 503.
ForwardLooks(f) ==
  /\ fwd[f].pc = "idle" /\ reg # 0
  /\ fwd' = [fwd EXCEPT ![f].pc = "start", ![f].conn = reg]
  /\ UNCHANGED <<serverVars, link, gone, pend, closing, reading, chan, work, wire>>

\* startRequest's look at closed.
Open(c) == c \notin gone

\* startRequest: the channel is registered under the lock.
StartRequest(f) ==
  LET c == fwd[f].conn IN
  /\ fwd[f].pc = "start"
  /\ IF Open(c)
     THEN pend' = [pend EXCEPT ![c] = @ \cup {f}] /\ fwd' = [fwd EXCEPT ![f].pc = "send"]
     ELSE fwd' = [fwd EXCEPT ![f].pc = "failed"] /\ UNCHANGED pend
  /\ UNCHANGED <<serverVars, link, gone, closing, reading, chan, work, wire>>

FinishRequest(f) == pend' = [pend EXCEPT ![fwd[f].conn] = @ \ {f}]

\* writeFrame: the request reaches the Companion, which starts an answer; or the
\* write fails.
SendRequest(f) ==
  /\ fwd[f].pc = "send"
  /\ \/ /\ fwd[f].conn \in link
        /\ fwd' = [fwd EXCEPT ![f].pc = "wait"]
        /\ work' = [work EXCEPT ![f].conn = fwd[f].conn]
        /\ UNCHANGED pend
     \/ /\ FinishRequest(f)
        /\ fwd' = [fwd EXCEPT ![f].pc = "failed"]
        /\ UNCHANGED work
  /\ UNCHANGED <<serverVars, link, gone, closing, reading, chan, wire>>

\* answer: header, chunks and end, as the handler produces them; after a failed
\* send the stream is broken.
AnswerSends(f) ==
  LET c == work[f].conn IN
  /\ c # 0 /\ work[f].next <= EndFrame
  /\ IF c \in link
     THEN /\ wire' = [wire EXCEPT ![c] = Append(@, [who |-> f, n |-> work[f].next])]
          /\ work' = [work EXCEPT ![f].next = @ + 1]
     ELSE work' = [work EXCEPT ![f].conn = 0] /\ UNCHANGED wire
  /\ UNCHANGED <<serverVars, link, gone, pend, closing, reading, chan, fwd>>

\* keepaliveLoop: a heartbeat between two events, or the header if it is late.  A
\* tick that has fired before the handler was done may even follow the end.
KeepsAlive(f) ==
  LET c == work[f].conn IN
  /\ c \in link /\ ~work[f].kept
  /\ IF work[f].next = 0
     THEN wire' = [wire EXCEPT ![c] = Append(@, [who |-> f, n |-> 0])]
     ELSE wire' = [wire EXCEPT ![c] = Append(@, [who |-> f, n |-> Keepalive])]
  /\ work' = [work EXCEPT ![f].kept = TRUE, ![f].next = IF @ = 0 THEN 1 ELSE @]
  /\ UNCHANGED <<serverVars, link, gone, pend, closing, reading, chan, fwd>>

\* What a frame does to forward's loop: the header, a chunk, which counts once the
\* header is there, the end; a heartbeat does nothing.
Taken(k, n) ==
  LET content == n \in 1 .. Chunks /\ k.status IN
  [k EXCEPT !.status = @ \/ n = 0,
            !.got = IF content THEN n ELSE @,
            !.gap = @ \/ (content /\ n # k.got + 1) \/ (n = EndFrame /\ k.got # Chunks),
            !.pc = IF n # EndFrame THEN @ ELSE IF k.status THEN "whole" ELSE "failed"]

\* forward's loop takes a frame.
Deliver(f) ==
  LET n == Head(chan[f].buf) IN
  /\ fwd[f].pc = "wait" /\ chan[f].buf # <<>>
  /\ chan' = [chan EXCEPT ![f].buf = Tail(@)]
  /\ fwd' = [fwd EXCEPT ![f] = Taken(@, n)]
  /\ IF n = EndFrame THEN FinishRequest(f) ELSE UNCHANGED pend
  /\ UNCHANGED <<serverVars, link, gone, closing, reading, work, wire>>

\* The channel is closed and empty: 502, or just the end when a header is out.
StreamCut(f) ==
  /\ fwd[f].pc = "wait" /\ chan[f].buf = <<>> /\ chan[f].closed
  /\ fwd' = [fwd EXCEPT ![f].pc = IF fwd[f].status THEN "returned" ELSE "failed"]
  /\ FinishRequest(f)
  /\ UNCHANGED <<serverVars, link, gone, closing, reading, chan, work, wire>>

\* forwardTimeout, or the caller hangs up.
GiveUpForward(f) ==
  /\ fwd[f].pc = "wait"
  /\ fwd' = [fwd EXCEPT ![f].pc = "gaveup"]
  /\ FinishRequest(f)
  /\ UNCHANGED <<serverVars, link, gone, closing, reading, chan, work, wire>>

TunnelNext ==
  \/ \E c \in Conns : \/ Dial(c) \/ LinkBreaks(c) \/ ReplaceOld(c) \/ OnConnect(c) \/ ReadFrame(c)
                      \/ FallsBehind(c) \/ Dispatch(c) \/ ReadFails(c) \/ Leave(c) \/ OnDisconnect(c)
  \/ \E c \in Conns, f \in Fwds : CloseChannel(c, f)
  \/ \E f \in Fwds : \/ ForwardLooks(f) \/ StartRequest(f) \/ SendRequest(f) \/ AnswerSends(f)
                     \/ KeepsAlive(f) \/ Deliver(f) \/ StreamCut(f) \/ GiveUpForward(f)

TunnelSpec == TunnelInit /\ [][TunnelNext]_tunnelVars

----------------------------------------------------------------------------
\* A response is forwarded in order and without a hole, and the end frame comes
\* after all of it, although a slow caller's channel overflows, its connection
\* is replaced and heartbeats are mixed in.
StreamIsIntact == \A f \in Fwds : ~fwd[f].gap

=============================================================================
