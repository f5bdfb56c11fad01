--------------------------- MODULE ChangeSetLife ---------------------------
(***************************************************************************)
(* What the file transaction promises of a change set, without files,      *)
(* copies, goroutines or statements: the states its row goes through, the  *)
(* window in which it can be undone, and that nothing is written for it    *)
(* outside the two spans a yes opens.  Txn implements this.                *)
(***************************************************************************)
CONSTANT Sets   \* change set ids

VARIABLES
  status,    \* what the row says, "none" without one
  window,    \* the sets that can be undone
  carrying,  \* the sets being written after a yes
  taking     \* the sets being undone after a yes

lifeVars == <<status, window, carrying, taking>>

Over == {"applied", "denied", "failed", "rolled_back"}

LifeInit ==
  /\ status = [x \in Sets |-> "none"]
  /\ window = {} /\ carrying = {} /\ taking = {}

Becomes(x, s) == status' = [status EXCEPT ![x] = s]

Propose(x) ==
  /\ status[x] = "none" /\ Becomes(x, "pending")
  /\ UNCHANGED <<window, carrying, taking>>

\* A no, or an error before anybody could say yes.
Refuse(x) ==
  /\ status[x] = "pending" /\ \E s \in {"denied", "failed"} : Becomes(x, s)
  /\ UNCHANGED <<window, carrying, taking>>

Approve(x) ==
  /\ status[x] = "pending" /\ x \notin carrying
  /\ Becomes(x, "approved") /\ carrying' = carrying \cup {x}
  /\ UNCHANGED <<window, taking>>

\* All of it was written, or none of it is left; the verdict may get lost.
Carried(x) ==
  /\ x \in carrying /\ status[x] = "approved"
  /\ carrying' = carrying \ {x}
  /\ \/ Becomes(x, "applied") /\ window' = window \cup {x}
     \/ Becomes(x, "failed") /\ UNCHANGED window
     \/ UNCHANGED <<status, window>>
  /\ UNCHANGED taking

\* The row may have been cleared while the question was open.
ConfirmUndo(x) ==
  /\ status[x] \in {"applied", "none"} /\ x \notin taking
  /\ taking' = taking \cup {x}
  /\ UNCHANGED <<status, window, carrying>>

TakenBack(x) ==
  /\ x \in taking /\ taking' = taking \ {x}
  /\ \/ /\ status[x] = "applied" /\ \E s \in {"rolled_back", "failed"} : Becomes(x, s)
        /\ window' = window \ {x}
     \/ UNCHANGED <<status, window>>
  /\ UNCHANGED carrying

\* Time, size pressure or the person closes a window.  Size pressure works from the row
\* as it read it, so that one undone since says "applied" again, with its window closed.
CloseWindow(x) ==
  /\ x \in window /\ window' = window \ {x}
  /\ UNCHANGED <<status, carrying, taking>>

Evict(x) ==
  /\ status[x] \in {"rolled_back", "failed"} /\ Becomes(x, "applied")
  /\ UNCHANGED <<window, carrying, taking>>

ClearTrace ==
  /\ status' = [x \in Sets |-> IF status[x] \in Over THEN "none" ELSE status[x]]
  /\ window' = {}
  /\ UNCHANGED <<carrying, taking>>

ClearCopies ==
  /\ window' = {}
  /\ UNCHANGED <<status, carrying, taking>>

\* Nothing goes on over a crash, and nothing is left to be decided.
Crash ==
  /\ status' = [x \in Sets |-> IF status[x] \in {"pending", "approved"} THEN "failed" ELSE status[x]]
  /\ carrying' = {} /\ taking' = {}
  /\ UNCHANGED window

LifeNext ==
  \/ \E x \in Sets : \/ Propose(x) \/ Refuse(x) \/ Approve(x) \/ Carried(x)
                     \/ ConfirmUndo(x) \/ TakenBack(x) \/ CloseWindow(x) \/ Evict(x)
  \/ ClearTrace \/ ClearCopies \/ Crash

LifeSpec == LifeInit /\ [][LifeNext]_lifeVars
=============================================================================
