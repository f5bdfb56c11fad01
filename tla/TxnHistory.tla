----------------------------- MODULE TxnHistory -----------------------------
(* Txn with one history variable: the paths of each rollback that others   *)
(* wrote after it was planned and before its question was answered.        *)
EXTENDS MCTxn

VARIABLE moved

historyVars == <<vars, moved>>

HistoryInit == Init /\ moved = [w \in Workers |-> {}]

HistoryNext ==
  /\ Next
  /\ moved' = [w \in Workers |->
                 IF At(w, "rollback", "asking") /\ work'[w].pc = "apply"
                 THEN work[w].dirty \ work[w].rec.taint
                 ELSE IF work'[w].pc = "idle" THEN {} ELSE moved[w]]

HistorySpec == HistoryInit /\ [][HistoryNext]_historyVars

\* A rollback step replaces nothing that changed while its question was open
\* ("a file changed since then produces a conflict carrying a diff, never a
\* silent overwrite").
RollbackNeverOverwrites ==
  [][\A w \in Workers : At(w, "rollback", "apply") /\ work'[w].i < work[w].i =>
       \A p \in moved[w] : disk'[p] = disk[p]]_historyVars
=============================================================================
