--------------------------- MODULE MC_ChainState ----------------------------
(* A small block tree for ChainState. *)
EXTENDS ChainState, TLC

CONSTANTS g, a1, b1, b2, b3

\*    g - a1                  work 1, 4: a difficult block
\*     \ b1 - b2 - b3         work 2, 4, 6
MCParent == (g :> NoBlock) @@ (a1 :> g) @@ (b1 :> g) @@ (b2 :> b1) @@ (b3 :> b2)
MCWork == (g :> 1) @@ (a1 :> 4) @@ (b1 :> 2) @@ (b2 :> 4) @@ (b3 :> 6)
MCAddress == (g :> 1) @@ (a1 :> 2) @@ (b1 :> 5) @@ (b2 :> 6) @@ (b3 :> 7)
MCHeight[b \in Blocks] == IF b = g THEN 0 ELSE MCHeight[MCParent[b]] + 1
MCAnc[b \in Blocks] == IF b = g THEN {g} ELSE {b} \cup MCAnc[MCParent[b]]
=============================================================================
