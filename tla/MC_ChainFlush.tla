---------------------------- MODULE MC_ChainFlush ----------------------------
(* A chain g, a1, a2, a3 with a branch above a2, in block files of two. *)
EXTENDS ChainFlush

MCParent == [b \in Blocks \ {"g"} |->
    CASE b = "a1" -> "g" [] b = "a2" -> "a1" [] b = "a3" -> "a2"
      [] b = "b3" -> "a2" [] b = "b4" -> "b3"]
=============================================================================
