------------------------------ MODULE MCCassTxn ------------------------------
(* Instances of CassTxn for TLC: two keys of one partition.                 *)
EXTENDS CassTxn, TLC

TwoKeys == {1, 2}
OnePartition == [k \in TwoKeys |-> 1]

O(key, kind, cond) == [key |-> key, kind |-> kind, cond |-> cond]

TxnSymmetry == Permutations(Txns)

(* Crashes and recovery: requests of every kind, in both orders of the keys.*)
MixedRequests ==
    { <<O(1, "put", "absent"), O(2, "update", "none")>>,
      <<O(2, "delete", "exists"), O(1, "check", "absent")>>,
      <<O(2, "trim", "none"), O(1, "put", "none")>> }

(* Races to create, to change and to check items that nobody deletes.       *)
CreateRequests ==
    { <<O(2, "put", "absent"), O(1, "update", "exists")>>,
      <<O(1, "put", "exists"), O(2, "check", "absent")>>,
      <<O(1, "update", "absent")>> }

(* Transactions beside single-item writes.                                  *)
UpdateRequests ==
    {<<O(2, "delete", "none"), O(1, "update", "none")>>, <<O(2, "update", "exists")>>}
MixedSingleOps == {O(1, "update", "none"), O(2, "delete", "none"), O(2, "put", "absent")}

-----------------------------------------------------------------------------
(* Disagreements between the code and what its comments say of it.          *)
DeleteAbsent == {<<O(1, "delete", "none"), O(2, "put", "absent")>>}
CheckThenDelete ==
    { <<O(1, "check", "exists"), O(2, "delete", "none")>>,
      <<O(2, "check", "exists"), O(1, "delete", "none")>> }
DeleteAny == {<<O(1, "delete", "any"), O(2, "put", "none")>>, <<O(1, "put", "none")>>}
OneUpdate == {<<O(1, "update", "none")>>}
=============================================================================
