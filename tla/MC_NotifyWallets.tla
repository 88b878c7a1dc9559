--------------------------- MODULE MC_NotifyWallets ---------------------------
(* Two branches over a common first block.  Transaction p is in both; r and *)
(* s exclude each other, and each branch has one of them.                   *)
EXTENDS NotifyWallets

MCParent == [b \in Blocks \ {"g"} |->
    CASE b = "a1" -> "g" [] b = "b2" -> "a1" [] b = "c2" -> "a1" [] b = "b3" -> "b2" [] b = "c3" -> "c2"]
MCTxsOf == [b \in Blocks |->
    CASE b = "b2" -> {"p", "r"} [] b = "c2" -> {"s"} [] b = "c3" -> {"p"} [] OTHER -> {}]
MCRival == [t \in Txs |->
    CASE t = "p" -> {} [] t = "r" -> {"s"} [] t = "s" -> {"r"}]
=============================================================================
