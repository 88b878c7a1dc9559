SPECIFICATION Spec
CONSTANTS
    g = g
    a1 = a1
    a2 = a2
    b1 = b1
    b2 = b2
    c2 = c2
    d2 = d2
    n1 = n1
    n2 = n2
    NoHash = NoHash
    Genesis = g
    Blocks <- MCBlocks
    Parent <- MCParent
    Notes = {1, 2, 5, 6, 7, 8, 9}
    Commitments <- MCCommitments
    Nullifiers <- MCNullifiers
    Reveals <- MCReveals
    Uses <- NoUses
    Pools = {"orchard"}
    BadConnects = {}
    MaxTree = 3
INVARIANT AllAnchorsMatchChain
