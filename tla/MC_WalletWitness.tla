--------------------------- MODULE MC_WalletWitness ---------------------------
(* Two branches over a2, one that leaves out a2, the first block after the  *)
(* wallet's birth, and one that leaves out the birth block k1 itself.       *)
(* n is ours and in a2, t is ours and in both branches over a2 at different *)
(* heights, x and y are other people's.                                     *)
EXTENDS WalletWitness

MCParent == [b \in Blocks \ {"g"} |->
    CASE b \in {"k1", "e1"} -> "g" [] b \in {"a2", "d2"} -> "k1" [] b \in {"b3", "c3"} -> "a2"
      [] b = "b4" -> "b3" [] b = "b5" -> "b4" [] b = "c4" -> "c3" [] b = "c5" -> "c4"
      [] b = "c6" -> "c5" [] b = "d3" -> "d2" [] b = "e2" -> "e1"]
MCTxsOf == [b \in Blocks |->
    CASE b = "a2" -> <<"n">> [] b = "b3" -> <<"x">> [] b = "b4" -> <<"t", "y">>
      [] b = "c3" -> <<"y", "t">> [] b = "c5" -> <<"x">> [] OTHER -> <<>>]
=============================================================================
