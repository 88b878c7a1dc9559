CONSTANTS
    Ops = {o1, o2, o3}
    Workers = {w1, w2}
    Users = {u1, u2}
    Nobody = Nobody
    Blocks = {"g", "k1", "a2", "b3", "b4", "b5", "c3", "c4", "c5", "c6", "d2", "d3", "e1", "e2"}
    Genesis = "g"
    Parent <- MCParent
    Txs = {"n", "t", "x", "y"}
    TxsOf <- MCTxsOf
    Mine = {"n", "t"}
    CacheSize = 3
    MaxReorg = 2
    Birth = "k1"
SYMMETRY Symmetry
SPECIFICATION SpecWallet
CONSTRAINT OnlyFittingRestarts
INVARIANTS
    AtMostOnce
    StoppedMeansSettled
    WorkersFollowQueue
    WitnessesMatchChain
    OnlyBirthAborts
