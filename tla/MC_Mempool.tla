------------------------------ MODULE MC_Mempool ------------------------------
(* Two branches over a1, and transactions that chain, conflict, spend       *)
(* coinbases, need an anchor of one branch, wait, expire, or belong to one  *)
(* side of an upgrade.                                                      *)
EXTENDS OrphanTx, TLC

MCParent == [b \in Blocks \ {"g"} |->
    CASE b = "a1" -> "g" [] b = "b2" -> "a1" [] b = "b3" -> "b2" [] b = "b4" -> "b3"
      [] b = "c2" -> "a1" [] b = "c3" -> "c2" [] b = "c4" -> "c3" [] b = "c5" -> "c4"]

(* p and w spend the coinbase of a1, e that of b2, q and r spend p, s       *)
(* spends q and reveals the nullifier that z reveals from the tree of b2.   *)
(* u spends q and z; x depends on nothing.                                  *)
MCTxsOf == [b \in Blocks |->
    CASE b = "a1" -> <<"cba">> [] b = "b2" -> <<"cbb">> [] b = "b3" -> <<"p", "r">>
      [] b = "b4" -> <<"z">> [] b = "c3" -> <<"p", "q">> [] b = "c4" -> <<"s">> [] OTHER -> <<>>]
MCInputs == [t \in Txs |->
    CASE t \in {"p", "w"} -> {"cba"} [] t = "e" -> {"cbb"}
      [] t \in {"q", "r"} -> {"p"} [] t = "s" -> {"q"} [] t = "u" -> {"q", "z"}
      [] OTHER -> {}]
MCNullifiers == [t \in Txs |-> CASE t \in {"s", "z"} -> {"n"} [] t = "x" -> {"m"} [] OTHER -> {}]
MCAnchors == [t \in Txs |-> IF t = "z" THEN {"tree2"} ELSE {}]
MCRoot == [b \in Blocks |-> IF b \in {"b2", "b3", "b4"} THEN "tree2" ELSE "tree1"]
MCLockHeight == [t \in Txs |-> IF t = "q" THEN 2 ELSE 0]
MCExpiry == [t \in Txs |-> IF t = "r" THEN 4 ELSE 9]

(* Only x is of the epoch that begins at height 5. *)
MCBranch == [t \in Txs |-> IF t = "x" THEN 1 ELSE 0]

MCSymmetry == Permutations(Peers)
=============================================================================
