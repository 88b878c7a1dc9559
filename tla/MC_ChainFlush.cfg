SPECIFICATION Spec
CONSTANTS
    Blocks = {"g", "a1", "a2", "a3", "b3", "b4"}
    Genesis = "g"
    Parent <- MCParent
    NoBlock = "none"
    Files = {0, 1, 2, 3}
    BlocksPerFile = 2
    PruneTarget = 2
    PruneAfterHeight = 2
    BLOCK_DOWNLOAD_WINDOW = 2
    MIN_BLOCKS_TO_KEEP = 2
    MAX_REORG_LENGTH = 1
INVARIANTS
    CoinsAreIndexed
    IndexedDataExists
    ReorgFindsData
