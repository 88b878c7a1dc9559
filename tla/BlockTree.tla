------------------------------ MODULE BlockTree ------------------------------
(* A fixed tree of blocks, as CBlockIndex links it: the wallet-side modules *)
(* let the active chain move about in it.                                   *)
EXTENDS Naturals, FiniteSets

CONSTANTS
    Blocks, Genesis,
    Parent         \* CBlockIndex::pprev, a function on Blocks \ {Genesis}

ASSUME BlockTreeAssumption ==
    /\ Genesis \in Blocks /\ Parent \in [Blocks \ {Genesis} -> Blocks]
    \* no cycle: from every block the links lead down to the genesis block
    /\ \A S \in SUBSET Blocks : S # {} => \E b \in S : b = Genesis \/ Parent[b] \notin S

(* A block and its ancestors: the chain that ends in it. *)
Chains ==
    LET chainOf[c \in Blocks] == IF c = Genesis THEN {c} ELSE {c} \cup chainOf[Parent[c]]
    IN  [b \in Blocks |-> chainOf[b]]
Heights == [b \in Blocks |-> Cardinality(Chains[b]) - 1]

Chain(b) == Chains[b]
Height(b) == Heights[b]

(* CChain::FindFork: the last block of the chain to t that b builds on. *)
Fork(b, t) ==
    CHOOSE f \in Chain(b) \cap Chain(t) :
        \A c \in Chain(b) \cap Chain(t) : Height(c) <= Height(f)
=============================================================================
