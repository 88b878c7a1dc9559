CONSTANTS
    Blocks = {"g", "a1", "b2", "b3", "c2", "c3"}
    Genesis = "g"
    Parent <- MCParent
    Txs = {"p", "r", "s"}
    TxsOf <- MCTxsOf
    Rival <- MCRival
    NoBlock = NoBlock
    MaxConnects = 4
SPECIFICATION FairNotify
INVARIANTS
    NeverThrows
    WalletBlocksMatchChain
    TransactionsReachWallet
PROPERTIES
    CatchesUp
