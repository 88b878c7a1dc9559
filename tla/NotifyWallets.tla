---------------------------- MODULE NotifyWallets ----------------------------
(***************************************************************************)
(* ThreadNotifyWallets (validationinterface.cpp): once a second the thread *)
(* compares the last tip it told the wallets about with the active chain,  *)
(* collects what it needs under cs_main, releases the lock, and notifies   *)
(* disconnected blocks, connected blocks and new mempool transactions,     *)
(* while the chain and the mempool move on.                                *)
(*                                                                         *)
(* The tree of blocks, the transactions in each and which of them exclude  *)
(* each other are constants.  A wallet is what SyncTransaction keeps of a  *)
(* transaction: whether it is known, and the block it was last seen in     *)
(* (CWalletTx::hashBlock).                                                 *)
(***************************************************************************)
EXTENDS BlockTree, Sequences, Functions

CONSTANTS
    Txs,
    TxsOf,         \* CBlock::vtx
    Rival,         \* Rival[t]: the transactions that spend what t spends
    NoBlock,       \* the null hash
    MaxConnects    \* bound on nRecentlyConflictedSequence

TxsIn(b) == UNION {TxsOf[c] : c \in Chain(b)}
Rivals(S) == UNION {Rival[t] : t \in S}

ASSUME ContentsAssumption ==
    /\ NoBlock \notin Blocks
    /\ TxsOf \in [Blocks -> SUBSET Txs]
    /\ Rival \in [Txs -> SUBSET Txs]
    \* no chain holds a transaction twice, nor two rivals: ConnectBlock refuses it
    /\ \A b \in Blocks \ {Genesis} :
        TxsOf[b] \cap (TxsIn(Parent[b]) \cup Rivals(TxsIn(b))) = {}

VARIABLES
    tip,                 \* chainActive.Tip()
    mempool,             \* CTxMemPool::mapTx
    recentlyAdded,       \* mapRecentlyAddedTx
    recentlyConflicted,  \* recentlyConflictedTxs, a function on some of Blocks
    sequence,            \* nRecentlyConflictedSequence
    notifiedSequence,    \* nNotifiedSequence
    phase,               \* where the thread is
    pindexLastTip, pindexFork, blockStack,
    added, drainedSequence,  \* recentlyAdded and recentlyConflicted.second of this cycle
    known, hashBlock,    \* the wallet
    connected,           \* history: blocks that have been connected
    untold               \* history: who was conflicted by the first connection of which block,
                         \* and no wallet told yet

chainVars == <<tip, mempool, recentlyAdded, recentlyConflicted, sequence, connected, untold>>
threadVars == <<phase, pindexLastTip, pindexFork, blockStack, added, drainedSequence>>
walletVars == <<known, hashBlock>>
notifyVars == <<chainVars, notifiedSequence, threadVars, walletVars>>

EmptyMap == [b \in {} |-> {}]

(* The thread starts with the tip the wallet was rescanned to. *)
InitNotify ==
    /\ tip = Genesis /\ mempool = {} /\ recentlyAdded = {}
    /\ recentlyConflicted = EmptyMap /\ sequence = 0 /\ notifiedSequence = 0
    /\ phase = "asleep" /\ pindexLastTip = Genesis /\ pindexFork = Genesis
    /\ blockStack = <<>> /\ added = {} /\ drainedSequence = 0
    /\ known = TxsOf[Genesis]
    /\ hashBlock = [t \in Txs |-> IF t \in TxsOf[Genesis] THEN Genesis ELSE NoBlock]
    /\ connected = {} /\ untold = {}

----------------------------------------------------------------------------
(* The threads that move the chain and fill the mempool *)

(* AcceptToMemoryPool and addUnchecked *)
AcceptToMemoryPool(t) ==
    /\ t \notin mempool \cup TxsIn(tip)
    /\ Rival[t] \cap (mempool \cup TxsIn(tip)) = {}
    /\ mempool' = mempool \cup {t} /\ recentlyAdded' = recentlyAdded \cup {t}
    /\ UNCHANGED <<tip, recentlyConflicted, sequence, connected, untold, notifiedSequence, threadVars, walletVars>>

(* ConnectTip: removeForBlock, UpdateTip, and the conflicts are kept for    *)
(* the notifier.  std::map::insert leaves an entry that is there alone.     *)
ConnectTip_OnlyConflicts(b) ==
    /\ b # Genesis /\ Parent[b] = tip /\ sequence < MaxConnects
    /\ LET txConflicted == mempool \cap Rivals(TxsOf[b])
           left == TxsOf[b] \cup txConflicted
       IN  /\ mempool' = mempool \ left /\ recentlyAdded' = recentlyAdded \ left
           /\ recentlyConflicted' =
                IF b \in DOMAIN recentlyConflicted \/ txConflicted = {} THEN recentlyConflicted
                ELSE [c \in DOMAIN recentlyConflicted \cup {b} |->
                        IF c = b THEN txConflicted ELSE recentlyConflicted[c]]
           /\ untold' = untold \cup (txConflicted \X ({b} \ connected)) /\ connected' = connected \cup {b}
    /\ tip' = b /\ sequence' = sequence + 1
    /\ UNCHANGED <<notifiedSequence, threadVars, walletVars>>
ConnectTip(b) ==
    /\ b # Genesis /\ Parent[b] = tip /\ sequence < MaxConnects
    /\ LET txConflicted == mempool \cap Rivals(TxsOf[b])
           left == TxsOf[b] \cup txConflicted
       IN  /\ mempool' = mempool \ left /\ recentlyAdded' = recentlyAdded \ left
           /\ recentlyConflicted' =
                IF b \in DOMAIN recentlyConflicted THEN recentlyConflicted
                ELSE [c \in DOMAIN recentlyConflicted \cup {b} |->
                        IF c = b THEN txConflicted ELSE recentlyConflicted[c]]
           /\ untold' = untold \cup (txConflicted \X ({b} \ connected)) /\ connected' = connected \cup {b}
    /\ tip' = b /\ sequence' = sequence + 1
    /\ UNCHANGED <<notifiedSequence, threadVars, walletVars>>

(* DisconnectTip: AcceptToMemoryPool takes the block's transactions back,   *)
(* or refuses some of them.                                                 *)
DisconnectTip ==
    /\ tip # Genesis
    /\ \E back \in SUBSET {t \in TxsOf[tip] : Rival[t] \cap mempool = {}} :
        /\ mempool' = mempool \cup back
        /\ recentlyAdded' = recentlyAdded \cup back
    /\ tip' = Parent[tip] /\ untold' = {r \in untold : r[2] # tip}
    /\ UNCHANGED <<recentlyConflicted, sequence, connected, notifiedSequence, threadVars, walletVars>>

----------------------------------------------------------------------------
(* ThreadNotifyWallets *)

(* The blocks above f on the way to b, b first: pushed in reverse. *)
PathFrom(f, b) ==
    LET path[c \in Blocks] ==
            IF c \in Chain(f) THEN <<>> ELSE <<c>> \o path[Parent[c]]
    IN  path[b]

(* Under cs_main: find the fork, drain the conflicts, stack the blocks to   *)
(* connect (recentlyConflicted.first.at(pindex) throws when there is no     *)
(* entry), drain the mempool's new transactions.                            *)
Collect_OnlyHigherTip ==
    /\ phase = "asleep" /\ Height(tip) >= Height(pindexLastTip)
    /\ LET path == PathFrom(Fork(pindexLastTip, tip), tip)
       IN  IF Range(path) \subseteq DOMAIN recentlyConflicted
           THEN /\ blockStack' = [i \in DOMAIN path |-> [pindex |-> path[i], txConflicted |-> recentlyConflicted[path[i]]]]
                /\ phase' = "disconnect"
           ELSE blockStack' = <<>> /\ phase' = "thrown"
    /\ pindexFork' = Fork(pindexLastTip, tip)
    /\ drainedSequence' = sequence /\ recentlyConflicted' = EmptyMap
    /\ added' = recentlyAdded /\ recentlyAdded' = {}
    /\ UNCHANGED <<tip, mempool, sequence, connected, untold, notifiedSequence, pindexLastTip, walletVars>>
Collect ==
    /\ phase = "asleep"
    /\ LET path == PathFrom(Fork(pindexLastTip, tip), tip)
       IN  IF Range(path) \subseteq DOMAIN recentlyConflicted
           THEN /\ blockStack' = [i \in DOMAIN path |->
                        [pindex |-> path[i], txConflicted |-> recentlyConflicted[path[i]]]]
                /\ phase' = "disconnect"
           ELSE blockStack' = <<>> /\ phase' = "thrown"
    /\ pindexFork' = Fork(pindexLastTip, tip)
    /\ drainedSequence' = sequence /\ recentlyConflicted' = EmptyMap
    /\ added' = recentlyAdded /\ recentlyAdded' = {}
    /\ UNCHANGED <<tip, mempool, sequence, connected, untold, notifiedSequence, pindexLastTip, walletVars>>

(* CWallet::SyncTransaction without a block: a known transaction keeps the  *)
(* block it was last seen in.                                               *)
SyncWithoutBlock(S) == known' = known \cup S /\ UNCHANGED hashBlock

NotifyDisconnect ==
    /\ phase = "disconnect" /\ pindexLastTip # pindexFork
    /\ SyncWithoutBlock(TxsOf[pindexLastTip])
    /\ pindexLastTip' = Parent[pindexLastTip]
    /\ UNCHANGED <<chainVars, notifiedSequence, phase, pindexFork, blockStack, added, drainedSequence>>

DisconnectsDone ==
    /\ phase = "disconnect" /\ pindexLastTip = pindexFork /\ phase' = "connect"
    /\ pindexFork' = Genesis \* not used any more
    /\ UNCHANGED <<chainVars, notifiedSequence, pindexLastTip, blockStack, added, drainedSequence, walletVars>>

(* Conflicts first, then the block's transactions with the block. *)
NotifyConnect_SkipsConflicts ==
    /\ phase = "connect" /\ blockStack # <<>>
    /\ LET blockData == blockStack[Len(blockStack)]
       IN  /\ known' = known \cup TxsOf[blockData.pindex]
           /\ hashBlock' = [t \in Txs |->
                IF t \in TxsOf[blockData.pindex] THEN blockData.pindex ELSE hashBlock[t]]
           /\ UNCHANGED untold
           /\ pindexLastTip' = blockData.pindex
    /\ blockStack' = SubSeq(blockStack, 1, Len(blockStack) - 1)
    /\ UNCHANGED <<tip, mempool, recentlyAdded, recentlyConflicted, sequence, connected,
                   notifiedSequence, phase, pindexFork, added, drainedSequence>>
NotifyConnect_KeepsOldBlock ==
    /\ phase = "connect" /\ blockStack # <<>>
    /\ LET blockData == blockStack[Len(blockStack)]
       IN  /\ known' = known \cup blockData.txConflicted \cup TxsOf[blockData.pindex]
           /\ hashBlock' = [t \in Txs |->
                IF t \in TxsOf[blockData.pindex] \ known THEN blockData.pindex ELSE hashBlock[t]]
           /\ untold' = untold \ (blockData.txConflicted \X {blockData.pindex})
           /\ pindexLastTip' = blockData.pindex
    /\ blockStack' = SubSeq(blockStack, 1, Len(blockStack) - 1)
    /\ UNCHANGED <<tip, mempool, recentlyAdded, recentlyConflicted, sequence, connected,
                   notifiedSequence, phase, pindexFork, added, drainedSequence>>
NotifyConnect ==
    /\ phase = "connect" /\ blockStack # <<>>
    /\ LET blockData == blockStack[Len(blockStack)]
       IN  /\ known' = known \cup blockData.txConflicted \cup TxsOf[blockData.pindex]
           /\ hashBlock' = [t \in Txs |->
                IF t \in TxsOf[blockData.pindex] THEN blockData.pindex ELSE hashBlock[t]]
           /\ untold' = untold \ (blockData.txConflicted \X {blockData.pindex})
           /\ pindexLastTip' = blockData.pindex
    /\ blockStack' = SubSeq(blockStack, 1, Len(blockStack) - 1)
    /\ UNCHANGED <<tip, mempool, recentlyAdded, recentlyConflicted, sequence, connected,
                   notifiedSequence, phase, pindexFork, added, drainedSequence>>

(* The mempool's transactions, then SetChainNotifiedSequence (regtest). *)
NotifyMempool ==
    /\ phase = "connect" /\ blockStack = <<>>
    /\ SyncWithoutBlock(added) /\ added' = {} /\ drainedSequence' = 0
    /\ notifiedSequence' = drainedSequence /\ phase' = "asleep"
    /\ UNCHANGED <<chainVars, pindexLastTip, pindexFork, blockStack>>

Thread == Collect \/ NotifyDisconnect \/ DisconnectsDone \/ NotifyConnect \/ NotifyMempool

NextNotify ==
    \/ \E t \in Txs : AcceptToMemoryPool(t)
    \/ \E b \in Blocks : ConnectTip(b)
    \/ DisconnectTip
    \/ Thread

SpecNotify == InitNotify /\ [][NextNotify]_notifyVars

(* The thread wakes up every second and its cycle does not block. *)
FairNotify == SpecNotify /\ WF_notifyVars(Thread)

----------------------------------------------------------------------------
(* Properties *)

(* Shape of the state; removeForBlock and ConnectTip keep the transactions  *)
(* of the active chain out of the mempool.                                  *)
NotifyTypeOK ==
    /\ tip \in Blocks /\ pindexLastTip \in Blocks /\ pindexFork \in Blocks
    /\ recentlyAdded \subseteq Txs /\ mempool \subseteq Txs \ TxsIn(tip)
    /\ DOMAIN recentlyConflicted \subseteq Blocks
    /\ phase \in {"asleep", "disconnect", "connect", "thrown"}
    /\ known \subseteq Txs /\ hashBlock \in [Txs -> Blocks \cup {NoBlock}]

(* recentlyConflicted.first.at(pindex) finds every block that has to be     *)
(* notified, whatever was connected and disconnected since the last cycle.  *)
NeverThrows == NotifyTypeOK /\ phase # "thrown"

(* Between cycles hashBlock is right for the chain the wallets were told    *)
(* of: it names a block of that chain exactly for the chain's transactions, *)
(* and the block that holds them, although nothing ever resets it.  When    *)
(* getblockchaininfo's "fullyNotified" is true that chain is no shorter     *)
(* than the active one.                                                     *)
WalletBlocksMatchChain ==
    /\ phase = "asleep" =>
        \A t \in Txs : \A b \in Chain(pindexLastTip) : hashBlock[t] = b <=> t \in TxsOf[b]
    /\ sequence = notifiedSequence => tip \in Chain(pindexLastTip)

(* When the chain and the mempool come to rest the wallets catch up.        *)
CatchesUp == <>[](pindexLastTip = tip /\ mempool \subseteq known)

(* No transaction is lost on its way to the wallets.  mapRecentlyAddedTx    *)
(* points into mapTx, and no pointer outlives its entry; what is in the     *)
(* mempool is there, in the notifier's copy or known, also when it left and *)
(* came back; and once the notifier has caught up ("Cache the conflicted    *)
(* transactions for subsequent notification") the wallets know of all that  *)
(* a block threw out of the mempool when it was first connected.            *)
TransactionsReachWallet ==
    /\ recentlyAdded \subseteq mempool
    /\ mempool \subseteq known \cup recentlyAdded \cup added
    /\ (phase = "asleep" /\ pindexLastTip = tip /\ DOMAIN recentlyConflicted = {}) => untold = {}
=============================================================================
