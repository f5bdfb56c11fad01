--------------------------- MODULE ApprovalHistory --------------------------
(* Approval with one history variable: the prompts whose answer some       *)
(* caller has already taken home.                                          *)
EXTENDS Approval

VARIABLE collected

historyVars == <<vars, collected>>

HistoryInit == Init /\ collected = {}

HistoryNext ==
  \/ ServiceNext /\ collected' = {p \in collected : prompt'[p].state \in Answers}
  \/ \E c \in Callers : Collect(c) /\ collected' = collected \cup {call[c].p}

HistorySpec == HistoryInit /\ [][HistoryNext]_historyVars

\* attach: an answer is "collected once, then gone", so that (ApproveRead)
\* "sensitive reads are confirmed every time".  A caller that arrives after
\* somebody has taken an answer home does not get the same answer.
CollectedOnce ==
  [][\A c \in Callers : Arrives(c) => call'[c].p \notin collected]_historyVars
=============================================================================
