------------------------------- MODULE MCTxn -------------------------------
(* Txn for TLC: one change set id, two workers racing for it, operations of *)
(* every type over two paths.                                               *)
EXTENDS Txn, TLC

Operation(t, p, q, c, b) ==
  [type |-> t, path |-> p, to |-> q, content |-> c, base |-> b, recursive |-> TRUE]

MCOpLists ==
  {<<Operation("update", "a", "a", "2", "1"), Operation("delete", "b", "b", "1", "1")>>,
   <<Operation("create", "b", "b", "2", "absent")>>,
   <<Operation("move", "a", "b", "1", "1")>>}

Perms == Permutations(Workers)
=============================================================================
