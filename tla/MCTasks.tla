------------------------------ MODULE MCTasks ------------------------------
(* Tasks.cfg: three runs of a command and a delegation, so that a key can  *)
(* change hands twice, in a table with room for one.                       *)
EXTENDS Tasks, TLC

Perms == Permutations(Runs) \cup Permutations(Keys \ Delegations)
=============================================================================
