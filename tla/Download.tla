------------------------------ MODULE Download ------------------------------
(***************************************************************************)
(* Fetching a provider's program (tunnelproc/download.go,                  *)
(* tunnelget/tunnelget.go): a runner of one download at a time, whose      *)
(* cancelled downloads may still be on their way when the next one starts. *)
(* Every download writes under temporary names of its own.                 *)
(***************************************************************************)
CONSTANTS
  Fetches,    \* bound: downloads that are started
  NoFetch

ASSUME DownloadAssumption == NoFetch \notin Fetches

VARIABLES
  fetch,      \* per download: where Fetch is, and whether its context has ended
  download,   \* Downloads.state and .cancel: [phase, holder]
  installed   \* whether the program is in the tools directory

downloadVars == <<fetch, download, installed>>

NewFetch == [pc |-> "new", cancelled |-> FALSE]

DownloadInit ==
  /\ fetch = [f \in Fetches |-> NewFetch] /\ download = [phase |-> "idle", holder |-> NoFetch]
  /\ installed = FALSE

\* Refused while somebody's cancel is held.
StartDownload(f) ==
  /\ fetch[f].pc = "new" /\ ~installed /\ download.holder = NoFetch
  /\ download' = [phase |-> "running", holder |-> f]
  /\ fetch' = [fetch EXCEPT ![f].pc = "loading"]
  /\ UNCHANGED <<installed>>

CancelDownload ==
  /\ download' = [phase |-> IF download.phase = "running" THEN "idle" ELSE download.phase, holder |-> NoFetch]
  /\ fetch' = IF download.holder = NoFetch THEN fetch ELSE [fetch EXCEPT ![download.holder].cancelled = TRUE]
  /\ UNCHANGED <<installed>>

\* The whole asset arrived, with the pinned digest; nothing asks for the context any
\* more.
Downloaded(f) ==
  /\ fetch[f].pc = "loading"
  /\ fetch' = [fetch EXCEPT ![f].pc = "proven"]
  /\ UNCHANGED <<download, installed>>

\* Unpacked, made executable and renamed into place.
FetchInstalls(f) ==
  /\ fetch[f].pc = "proven" /\ installed' = TRUE
  /\ fetch' = [fetch EXCEPT ![f].pc = "installed"]
  /\ UNCHANGED <<download>>

\* The transfer or the digest fails, or anything after it; the temporary files go.
FetchFails(f) ==
  /\ fetch[f].pc \in {"loading", "proven"}
  /\ fetch' = [fetch EXCEPT ![f].pc = "failed"]
  /\ UNCHANGED <<download, installed>>

\* A run that looks whether it was cancelled itself, and not at the panel.
EndsUnlessCancelled(f) ==
  /\ fetch[f].pc \in {"installed", "failed"}
  /\ fetch' = [fetch EXCEPT ![f].pc = "done"]
  /\ download' = [phase |-> IF fetch[f].cancelled THEN download.phase
                            ELSE IF fetch[f].pc = "failed" THEN "failed" ELSE "ready", holder |-> NoFetch]
  /\ UNCHANGED <<installed>>

\* The end of run, under the lock: whoever's cancel it is, it is cleared.
DownloadEnds(f) ==
  /\ fetch[f].pc \in {"installed", "failed"}
  /\ fetch' = [fetch EXCEPT ![f].pc = "done"]
  /\ download' = [phase |-> IF download.phase = "idle" THEN "idle"
                            ELSE IF fetch[f].pc = "failed" THEN "failed" ELSE "ready", holder |-> NoFetch]
  /\ UNCHANGED <<installed>>

\* Downloads.Forget, from a snapshot that sees the program.
ForgetDownload ==
  /\ download.phase = "ready" /\ installed
  /\ download' = [download EXCEPT !.phase = "idle"]
  /\ UNCHANGED <<fetch, installed>>

DownloadNext ==
  \/ \E f \in Fetches : StartDownload(f) \/ Downloaded(f) \/ FetchInstalls(f) \/ FetchFails(f) \/ DownloadEnds(f)
  \/ CancelDownload \/ ForgetDownload

DownloadSpec == DownloadInit /\ [][DownloadNext]_downloadVars

----------------------------------------------------------------------------
\* The panel and its cancel button agree, however late cancelled downloads end beside
\* their successors: while the panel says that a download is running there is one that
\* nobody cancelled, and a cancel reaches it; and a start is refused for a download
\* already in progress only while the panel shows that one.
CancelReachesWhatRuns ==
  /\ download.phase = "running" <=> download.holder # NoFetch
  /\ \A f \in Fetches : download.holder = f => fetch[f].pc \notin {"new", "done"} /\ ~fetch[f].cancelled

=============================================================================
