------------------------------ MODULE LspConn -------------------------------
(***************************************************************************)
(* One JSON-RPC connection to a language server (lsp/conn.go): callers that *)
(* register, write and wait; the reader goroutine that hands out answers   *)
(* and, when the pipe ends, releases everyone; and close, which waits for  *)
(* the reader.                                                             *)
(***************************************************************************)
EXTENDS FiniteSets

CONSTANTS
  Callers,   \* calls, each under an id of its own
  NoCaller

ASSUME LspConnAssumption == NoCaller \notin Callers

VARIABLES
  caller,    \* idle, registered, waiting, returned, refused
  awaited,   \* conn.pending
  reply,     \* what is in each call's channel, which holds one message
  asked,     \* requests the server has read and not answered
  pipe,      \* the server's output is open
  reader,    \* reading, failing, done
  handing,   \* the call whose channel the reader is about to send to
  releasing, \* fail: the calls still to be released
  ended,     \* conn.closed is set
  closing    \* close: no, waiting for the reader, done

connVars == <<caller, awaited, reply, asked, pipe, reader, handing, releasing, ended, closing>>

ConnInit ==
  /\ caller = [k \in Callers |-> "idle"]
  /\ awaited = {} /\ reply = [k \in Callers |-> "none"] /\ asked = {}
  /\ pipe = TRUE /\ reader = "reading" /\ handing = NoCaller /\ releasing = {}
  /\ ended = FALSE /\ closing = "no"

\* A call that registers without looking whether the connection has ended.
RegisterAnyway(k) ==
  caller' = [caller EXCEPT ![k] = "registered"] /\ awaited' = awaited \cup {k}

\* call: refused once the connection has ended, else entered among the pending.
Register(k) ==
  IF ended THEN caller' = [caller EXCEPT ![k] = "refused"] /\ UNCHANGED awaited
  ELSE caller' = [caller EXCEPT ![k] = "registered"] /\ awaited' = awaited \cup {k}

Call(k) ==
  /\ caller[k] = "idle"
  /\ Register(k)
  /\ UNCHANGED <<reply, asked, pipe, reader, handing, releasing, ended, closing>>

\* write: the request reaches the server, or the pipe is broken and the call returns.
Write(k) ==
  /\ caller[k] = "registered"
  /\ \/ pipe /\ asked' = asked \cup {k} /\ caller' = [caller EXCEPT ![k] = "waiting"] /\ UNCHANGED awaited
     \/ ~pipe /\ caller' \in {[caller EXCEPT ![k] = "returned"], [caller EXCEPT ![k] = "waiting"]}
        /\ awaited' = (IF caller'[k] = "returned" THEN awaited \ {k} ELSE awaited) /\ UNCHANGED asked
  /\ UNCHANGED <<reply, pipe, reader, handing, releasing, ended, closing>>

\* The select takes ctx.Done, which may be ready at any time ...
Leaves(k) == caller' = [caller EXCEPT ![k] = "leaving"] /\ UNCHANGED reply
\* ... or the answer.
Takes(k) ==
  /\ reply[k] # "none"
  /\ reply' = [reply EXCEPT ![k] = "none"] /\ caller' = [caller EXCEPT ![k] = "leaving"]

Wait(k) ==
  /\ caller[k] = "waiting"
  /\ (Leaves(k) \/ Takes(k))
  /\ UNCHANGED <<awaited, asked, pipe, reader, handing, releasing, ended, closing>>

\* The deferred delete.
Unregister(k) ==
  /\ caller[k] = "leaving"
  /\ caller' = [caller EXCEPT ![k] = "returned"] /\ awaited' = awaited \ {k}
  /\ UNCHANGED <<reply, asked, pipe, reader, handing, releasing, ended, closing>>

\* read, next, deliver: an answer is matched with the call that waits for it.
Deliver(k) ==
  /\ reader = "reading" /\ handing = NoCaller /\ k \in asked
  /\ asked' = asked \ {k}
  /\ handing' = IF k \in awaited THEN k ELSE NoCaller
  /\ UNCHANGED <<caller, awaited, reply, pipe, reader, releasing, ended, closing>>

\* The send to the channel, outside the lock; it blocks while the channel is full,
\* and a caller that has left never empties its channel again.
Hand ==
  /\ handing # NoCaller /\ reply[handing] = "none"
  /\ reply' = [reply EXCEPT ![handing] = IF reader = "failing" THEN "failed" ELSE "answer"]
  /\ handing' = NoCaller
  /\ UNCHANGED <<caller, awaited, asked, pipe, reader, releasing, ended, closing>>

\* The server exits, or is killed.
ServerEnds ==
  /\ pipe /\ pipe' = FALSE
  /\ UNCHANGED <<caller, awaited, reply, asked, reader, handing, releasing, ended, closing>>

\* fail: under the lock the end is recorded and the pending calls are taken.
TakePending == releasing' = awaited /\ awaited' = {} /\ ended' = TRUE

\* next returns an error: the pipe has ended and what was in it has been read or is
\* lost, or the server, alive, sent what cannot be read (no Content-Length or a bad
\* one, a message over the limit, broken JSON).  No answer is read from here on.
Fail ==
  /\ reader = "reading" /\ handing = NoCaller
  /\ reader' = "failing" /\ asked' = {}
  /\ TakePending
  /\ UNCHANGED <<caller, reply, pipe, handing, closing>>

\* ... each of them gets the error.
Release(k) ==
  /\ reader = "failing" /\ handing = NoCaller /\ k \in releasing
  /\ handing' = k /\ releasing' = releasing \ {k}
  /\ UNCHANGED <<caller, awaited, reply, asked, pipe, reader, ended, closing>>

ReaderEnds ==
  /\ reader = "failing" /\ handing = NoCaller /\ releasing = {}
  /\ reader' = "done"
  /\ UNCHANGED <<caller, awaited, reply, asked, pipe, handing, releasing, ended, closing>>

\* close, called by client.stop once the process is gone: waits for the reader,
\* which may be held up in fail for ever (see WaitersAreReleased).
Close ==
  /\ \/ closing = "no" /\ ~pipe /\ closing' = "waiting"
     \/ closing = "waiting" /\ reader = "done" /\ closing' = "done"
  /\ UNCHANGED <<caller, awaited, reply, asked, pipe, reader, handing, releasing, ended>>

ConnNext ==
  \/ \E k \in Callers : \/ Call(k) \/ Write(k) \/ Wait(k) \/ Unregister(k)
                        \/ Deliver(k) \/ Release(k)
  \/ Hand \/ ServerEnds \/ Fail \/ ReaderEnds \/ Close

ConnSpec == ConnInit /\ [][ConnNext]_connVars

----------------------------------------------------------------------------
\* What read's promise comes to.  Once the connection has ended, whoever waits has a
\* message in its channel or fail still has it on its list; when the reader is gone
\* nobody is left on that list; and a send is held up in fail alone, by a call whose
\* answer was put into its channel and not yet taken.
NobodyIsLeftWaiting ==
  /\ ended => \A k \in Callers :
       caller[k] = "waiting" => k \in releasing \/ handing = k \/ reply[k] # "none"
  /\ reader = "done" => releasing = {} /\ handing = NoCaller
  /\ \A k \in Callers : handing = k /\ reply[k] # "none" => reader = "failing" /\ reply[k] = "answer"

\* The reader is held up by a call that has gone.
HeldUp == handing # NoCaller /\ reply[handing] # "none" /\ caller[handing] \in {"leaving", "returned"}

\* read's promise, "it fails every call still waiting rather than leaving them to their
\* contexts": when the reader can go no further, whoever waits has its message.
WaitersAreReleased ==
  HeldUp => \A k \in Callers : caller[k] = "waiting" => reply[k] # "none"

=============================================================================
