CONSTANTS
    Blocks = {"g", "a1", "b2", "b3", "b4", "c2", "c3", "c4", "c5"}
    Genesis = "g"
    Parent <- MCParent
    Txs = {"cba", "cbb", "p", "q", "r", "s", "z", "e", "w", "x", "u"}
    Coinbases = {"cba", "cbb"}
    TxsOf <- MCTxsOf
    Inputs <- MCInputs
    Nullifiers <- MCNullifiers
    Anchors <- MCAnchors
    Root <- MCRoot
    Branch <- MCBranch
    LockHeight <- MCLockHeight
    ExpiryHeight <- MCExpiry
    Maturity = 2
    Soon = 0
    Activation = 5
    Capacity = 3
    Peers = {p1, p2}
    Relayed = {"p", "q", "z", "s", "u", "r"}
    Large = {"r"}
    MaxOrphans = 2
    Idle = Idle
SPECIFICATION SpecOrphans
INVARIANTS
    PoolFitsChain
    MapsMatchPool
    ReorgFindsCoins
    OrphanMapsAgree
SYMMETRY MCSymmetry
PROPERTY OrphansAreResolved
