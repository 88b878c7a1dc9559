--------------------------- MODULE MC_BlockDownload ---------------------------
(* Two branches on a block both peers have: one peer offers the branch of   *)
(* one block, the other the branch of two.                                  *)
EXTENDS BlockDownload

MCParent == [b \in Blocks \ {"g"} |->
    CASE b = "x1" -> "g" [] b \in {"a2", "b2"} -> "x1" [] b = "b3" -> "b2"]
MCOffers == [p \in Peers |-> IF p = "p1" THEN {"b3"} ELSE {"a2"}]
=============================================================================
