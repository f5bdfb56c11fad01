-------------------------- MODULE MCApprovalHistory -------------------------
(* ApprovalHistory for TLC: one platform reading one sensitive file.       *)
EXTENDS ApprovalHistory

MCRequests ==
  {[key |-> "read:claude:w1:.env", provider |-> "claude", mustAsk |-> FALSE,
    command |-> FALSE, ops |-> {[type |-> "read", sensitive |-> TRUE]}]}
=============================================================================
