---- MODULE MC_ShieldedView ----
(* Two branches after the genesis block g.  a1 and b1 append the same Sprout  *)
(* commitment and reveal the same nullifier, as when a transaction is mined   *)
(* on both branches.  c2 reveals a1's nullifier again, and d2 spends from the *)
(* Sapling tree of the other branch: both must be rejected.                   *)
EXTENDS ShieldedView, TLC
CONSTANTS g, a1, a2, b1, b2, c2, d2, n1, n2
MCBlocks == {g, a1, a2, b1, b2, c2, d2}
MCNullifiers == {n1, n2}
MCParent == (a1 :> g) @@ (a2 :> a1) @@ (b1 :> g) @@ (b2 :> b1)
            @@ (c2 :> a1) @@ (d2 :> a1)
Adds(sprout, sapling, orchard) ==
    [p \in Pools |-> CASE p = "sprout" -> sprout [] p = "sapling" -> sapling
                       [] p = "orchard" -> orchard]
MCCommitments ==
    (g :> Adds(<<>>, <<>>, <<>>)) @@ (a1 :> Adds(<<1>>, <<>>, <<7>>))
    @@ (a2 :> Adds(<<2>>, <<5>>, <<>>)) @@ (b1 :> Adds(<<1>>, <<5>>, <<8>>))
    @@ (b2 :> Adds(<<>>, <<6>>, <<9>>)) @@ (c2 :> Adds(<<>>, <<>>, <<>>))
    @@ (d2 :> Adds(<<>>, <<>>, <<>>))
MCReveals == (g :> {}) @@ (a1 :> {n1}) @@ (a2 :> {n2}) @@ (b1 :> {n1}) @@ (b2 :> {n2})
             @@ (c2 :> {n1}) @@ (d2 :> {})
MCUses == (g :> {}) @@ (a1 :> {}) @@ (a2 :> {<<"sprout", <<1>>>>}) @@ (b1 :> {})
          @@ (b2 :> {<<"sapling", <<5>>>>}) @@ (c2 :> {}) @@ (d2 :> {<<"sapling", <<5>>>>})
NoUses == [b \in MCBlocks |-> {}]
====
