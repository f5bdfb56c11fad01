----------------------------- MODULE MCApproval -----------------------------
(* Approval for TLC: two platforms asking under one key, for a change set  *)
(* the open mode lets through and for one that always asks.                *)
EXTENDS Approval, TLC

Op(t, s) == [type |-> t, sensitive |-> s]
Req(k, who, ask, ops) ==
  [key |-> k, provider |-> who, mustAsk |-> ask, command |-> FALSE, ops |-> ops]

MCRequests ==
  {Req("k1", "claude", FALSE, {Op("create", FALSE), Op("update", FALSE)}),
   Req("k1", "grok", FALSE, {Op("create", FALSE), Op("delete", FALSE)})}

Perms == Permutations(Callers)
=============================================================================
