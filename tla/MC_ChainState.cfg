CONSTANTS
    g = g a1 = a1 b1 = b1 b2 = b2 b3 = b3
    NoBlock = NoBlock
    Genesis = g
    Blocks = {g, a1, b1, b2, b3}
    Parent <- MCParent
    Height <- MCHeight
    Anc <- MCAnc
    Work <- MCWork
    Address <- MCAddress
    Loaded = {g, a1}
    BadBlocks = {}
    BadConnects = {b3}
    Threads = {"net", "rpc"}
    Operations = {"header", "block", "invalidate", "reconsider"}
    MAX_REORG_LENGTH = 1
    MIN_BLOCKS_TO_KEEP = 2
SPECIFICATION FairSpec
INVARIANTS
    FailureHasACause
    CandidatesComplete
    BestChainActive
    LinkingIsExact
    ActiveChainValid
PROPERTIES ActivationEnds WorkIsLostOnlyToInvalidity

