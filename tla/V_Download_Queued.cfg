CONSTANTS
    Blocks = {"g", "x1", "a2", "b2", "b3"}
    Genesis = "g"
    Parent <- MCParent
    Peers = {"p1", "p2"}
    Offers <- MCOffers
    Outbound = {"p1"}
    Doubtful = {"b2"}
    BLOCK_DOWNLOAD_WINDOW = 1
    MAX_BLOCKS_IN_TRANSIT_PER_PEER = 2
    MIN_BLOCKS_TO_KEEP = 1
    BLOCK_STALLING_TIMEOUT = 0
    BaseTimeout = 0
    None = None
SPECIFICATION Spec
INVARIANT QueuedIsExact
