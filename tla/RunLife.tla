------------------------------ MODULE RunLife ------------------------------
(***************************************************************************)
(* What the task manager and the journal promise of a run, without the     *)
(* table, contexts, processes and shutdown: a call that is repeated does   *)
(* not run twice, what is said of an end agrees with what was written, a   *)
(* run ends once on record, and only a run the Core left behind is         *)
(* "interrupted".  Tasks implements this.                                  *)
(***************************************************************************)
CONSTANTS Runs, Keys, Delegations, None

VARIABLES
  core,     \* "serving" when there is one that answers, else "away"
  says,     \* what the Core says of a run: new, running, how it ended; gone with an earlier Core
  keyOf,    \* what the run was asked for as
  row       \* the last row of a run in the journal, "none" without one

lifeVars == <<core, says, keyOf, row>>

Verdicts == {"succeeded", "failed", "timed_out", "canceled"}
Open == {"none", "started"}

LifeInit ==
  /\ core = "away"
  /\ says = [r \in Runs |-> "new"]
  /\ keyOf = [r \in Runs |-> None]
  /\ row = [r \in Runs |-> "none"]

\* The call is answered with a new run: none is running for it.
Begin(r, k) ==
  /\ core = "serving" /\ says[r] = "new"
  /\ \A q \in Runs : says[q] = "running" => keyOf[q] # k
  /\ says' = [says EXCEPT ![r] = "running"]
  /\ keyOf' = [keyOf EXCEPT ![r] = k]
  /\ UNCHANGED <<core, row>>

Write(r, o) == row' = [row EXCEPT ![r] = o] /\ UNCHANGED <<core, says, keyOf>>

\* The start and the end of a command that this Core runs are written.
Record(r) ==
  /\ core = "serving" /\ says[r] = "running" /\ keyOf[r] \notin Delegations
  /\ \/ row[r] = "none" /\ Write(r, "started")
     \/ row[r] \in Open /\ \E o \in {"ok", "failed", "timeout", "canceled", "refused"} : Write(r, o)

\* What may have been written of a run that is said to have ended so: a stop may come
\* after the row, but nothing is called a success or a failure against it.
Agree(v) ==
  CASE v = "succeeded" -> {"ok"}
    [] v = "timed_out" -> {"timeout"}
    [] v = "failed" -> {"failed", "refused"}
    [] v = "canceled" -> {"ok", "failed", "canceled", "refused"}

\* The run is over.  Its end may not have been written.
End(r, v) ==
  /\ core = "serving" /\ says[r] = "running"
  /\ row[r] \in Open \cup Agree(v)
  /\ says' = [says EXCEPT ![r] = v]
  /\ UNCHANGED <<core, keyOf, row>>

\* The Core goes, by itself or not, and with it all it knew.
Go ==
  /\ core = "serving" /\ core' = "away"
  /\ says' = [r \in Runs |-> IF says[r] = "new" THEN "new" ELSE "gone"]
  /\ keyOf' = [r \in Runs |-> None]
  /\ UNCHANGED row

\* Before the next one serves, runs without an end are given one.
Interrupt(r) ==
  /\ core = "away" /\ says[r] = "gone" /\ row[r] = "started"
  /\ Write(r, "interrupted")

Start ==
  /\ core = "away" /\ core' = "serving"
  /\ UNCHANGED <<says, keyOf, row>>

LifeNext ==
  \/ \E r \in Runs : \/ \E k \in Keys : Begin(r, k)
                     \/ Record(r) \/ Interrupt(r)
                     \/ \E v \in Verdicts : End(r, v)
  \/ Go \/ Start

LifeSpec == LifeInit /\ [][LifeNext]_lifeVars
=============================================================================
