---------------------------- MODULE ShieldedView ----------------------------
(***************************************************************************)
(* The shielded half of the chain state (coins.cpp, txdb.cpp, main.cpp):   *)
(* the nullifiers that have been revealed, the note commitment trees that  *)
(* may be used as anchors in each pool, which of them is the best one, and *)
(* the best block.  ConnectTip and DisconnectTip work on a view of their   *)
(* own and flush it into the cache pcoinsTip; FlushStateToDisk writes the  *)
(* cache to the database; a crash loses the cache.                         *)
(*                                                                         *)
(* The four hashes of a cache are loaded when first asked for, and null    *)
(* (NoHash) means "ask the parent"; Flush copies them down, null or not.   *)
(*                                                                         *)
(* Abstractions.  A commitment tree is the sequence of its commitments and *)
(* is identified with its root.  Nullifiers of the three pools are kept    *)
(* apart by the code and are distinct here.  The view of a block is        *)
(* reduced to its DIRTY entries: BatchWrite ignores the others.  Handlers  *)
(* hold cs_main throughout, so each is one step.                           *)
(***************************************************************************)
EXTENDS BlockTree, Integers, Sequences, Functions

CONSTANTS
    Pools,           \* among "sprout", "sapling", "orchard"
    Notes,           \* note commitments
    Commitments,     \* Commitments[b][p]: what block b appends to the tree
    Nullifiers, Reveals,   \* Reveals[b]: nullifiers revealed in block b
    Uses,            \* Uses[b]: anchors <<pool, root>> its spends refer to
    BadConnects,     \* blocks ConnectBlock rejects for another reason
    MaxTree,         \* bound: no tree grows longer
    NoHash           \* a null uint256

Empty == <<>>        \* empty_root()
Popped == Pools \cap {"sprout", "sapling"}
Roots == Seq(Notes)

ASSUME ShieldedAssumption ==
    /\ Commitments \in [Blocks -> [Pools -> Roots]]
    /\ Reveals \in [Blocks -> SUBSET Nullifiers]
    /\ NoHash \notin Blocks /\ NoHash \notin Roots /\ NoHash \notin [Popped -> Roots]

VARIABLES
    disk,      \* CCoinsViewDB
    cache,     \* pcoinsTip
    chainTip,  \* chainActive.Tip()
    undo       \* roots before the block: CBlockUndo, hashFinalSaplingRoot of pprev

vars == <<disk, cache, chainTip, undo>>

EmptyCache(block, best) ==
    [block |-> block, best |-> best,
     anchors |-> [p \in Pools |-> <<>>], nullifiers |-> <<>>]

Init ==
    /\ disk = [block |-> Genesis, best |-> [p \in Pools |-> Empty],
               anchors |-> [p \in Pools |-> <<>>], nullifiers |-> {}]
    /\ cache = EmptyCache(NoHash, [p \in Pools |-> NoHash])
    /\ chainTip = Genesis
    /\ undo = [b \in Blocks |-> NoHash]

-----------------------------------------------------------------------------
(* Reading through the cache.                                              *)
Best(p) == IF cache.best[p] = NoHash THEN disk.best[p] ELSE cache.best[p]

OnDisk(p, root) == root = Empty \/ root \in DOMAIN disk.anchors[p]
TreeOnDisk(p, root) == IF root = Empty THEN Empty ELSE disk.anchors[p][root]

HasAnchor(p, root) ==
    IF root \in DOMAIN cache.anchors[p] THEN cache.anchors[p][root].entered
    ELSE OnDisk(p, root)
TreeAt(p, root) ==
    IF root \in DOMAIN cache.anchors[p] THEN cache.anchors[p][root].tree
    ELSE TreeOnDisk(p, root)

Revealed(n) ==
    IF n \in DOMAIN cache.nullifiers THEN cache.nullifiers[n].entered
    ELSE n \in disk.nullifiers

(* What reading leaves in the cache: the best anchors of some pools, trees *)
(* that were found, nullifiers found or not.                               *)
AnchorsRead(p, roots) ==
    LET found == {r \in roots \ DOMAIN cache.anchors[p] : OnDisk(p, r)}
    IN  [r \in DOMAIN cache.anchors[p] \cup found |->
           IF r \in found
           THEN [entered |-> TRUE, dirty |-> FALSE, tree |-> TreeOnDisk(p, r)]
           ELSE cache.anchors[p][r]]
NullifiersRead(ns) ==
    [n \in DOMAIN cache.nullifiers \cup ns |->
       IF n \in DOMAIN cache.nullifiers THEN cache.nullifiers[n]
       ELSE [entered |-> n \in disk.nullifiers, dirty |-> FALSE]]
UsedIn(b, p) == {r \in {u[2] : u \in Uses[b]} : <<p, r>> \in Uses[b]}

AfterReading(pools, b) ==
    [block |-> cache.block,
     best |-> [p \in Pools |-> IF p \in pools THEN Best(p) ELSE cache.best[p]],
     anchors |-> [p \in Pools |->
                    AnchorsRead(p, UsedIn(b, p) \cup (IF p \in pools THEN {Best(p)} ELSE {}))],
     nullifiers |-> NullifiersRead(Reveals[b])]

-----------------------------------------------------------------------------
(* BatchWrite: the view's DIRTY entries move into its parent.              *)
MergedAnchors(parent, child) ==
    [r \in DOMAIN parent \cup DOMAIN child |->
       IF r \notin DOMAIN child THEN parent[r]
       ELSE IF r \notin DOMAIN parent
            THEN [entered |-> child[r].entered, dirty |-> TRUE, tree |-> child[r].tree]
       ELSE IF parent[r].entered = child[r].entered THEN parent[r]
       ELSE [parent[r] EXCEPT !.entered = child[r].entered, !.dirty = TRUE]]

MergedNullifiers_KeepsClean(parent, child) ==
    [n \in DOMAIN parent \cup DOMAIN child |->
       IF n \notin DOMAIN child THEN parent[n]
       ELSE [entered |-> child[n], dirty |-> n \in DOMAIN parent => parent[n].dirty]]
MergedNullifiers(parent, child) ==
    [n \in DOMAIN parent \cup DOMAIN child |->
       IF n \notin DOMAIN child THEN parent[n]
       ELSE IF n \notin DOMAIN parent THEN [entered |-> child[n], dirty |-> TRUE]
       ELSE IF parent[n].entered = child[n] THEN parent[n]
       ELSE [entered |-> child[n], dirty |-> TRUE]]

BatchWrite(parent, child) ==
    [block |-> child.block, best |-> child.best,
     anchors |-> [p \in Pools |-> MergedAnchors(parent.anchors[p], child.anchors[p])],
     nullifiers |-> MergedNullifiers(parent.nullifiers, child.nullifiers)]

-----------------------------------------------------------------------------
(* HaveShieldedRequirements for the transactions of b.                     *)
HaveShieldedRequirements(b) ==
    /\ \A n \in Reveals[b] : ~Revealed(n)
    /\ \A u \in Uses[b] : HasAnchor(u[1], u[2])

(* PushAnchor of the tree at the best anchor with b's commitments.         *)
NewTree(p, b) == TreeAt(p, Best(p)) \o Commitments[b][p]
PushAnchor(p, b) ==
    IF NewTree(p, b) = Best(p) THEN <<>>
    ELSE [r \in {NewTree(p, b)} |-> [entered |-> TRUE, tree |-> NewTree(p, b)]]

ConnectedView(b) ==
    [block |-> b,
     best |-> [p \in Pools |-> NewTree(p, b)],
     anchors |-> [p \in Pools |-> PushAnchor(p, b)],
     nullifiers |-> [n \in Reveals[b] |-> TRUE]]

(* ConnectTip: the undo data is written the first time only.               *)
ConnectTip(b) ==
    /\ b # Genesis /\ Parent[b] = chainTip /\ b \notin BadConnects
    /\ \A p \in Pools : Len(NewTree(p, b)) <= MaxTree
    /\ HaveShieldedRequirements(b)
    /\ cache' = BatchWrite(AfterReading(Pools, b), ConnectedView(b))
    /\ undo' = [undo EXCEPT ![b] = IF @ = NoHash THEN [p \in Popped |-> Best(p)] ELSE @]
    /\ chainTip' = b
    /\ UNCHANGED disk

(* ConnectBlock fails: its view is dropped, what pcoinsTip read stays.     *)
RejectBlock(b) ==
    /\ b # Genesis /\ Parent[b] = chainTip
    /\ b \in BadConnects \/ ~HaveShieldedRequirements(b)
    /\ cache' = AfterReading(Pools, b)
    /\ UNCHANGED <<disk, chainTip, undo>>

(* AcceptToMemoryPool asks the same of a transaction of b.                 *)
CheckForMempool(b) ==
    /\ cache' = AfterReading({}, b)
    /\ UNCHANGED <<disk, chainTip, undo>>

(* PopAnchor: the best tree is brought into the caches (whose new entry    *)
(* would otherwise hold an empty tree), then taken out of the anchors.     *)
(* DisconnectBlock pops the Sprout and Sapling pools.                      *)
BringBestAnchorIntoCache_Nothing(p, root) == {}
BringBestAnchorIntoCache(p, root) == IF Best(p) = root THEN {} ELSE {Best(p)}

PopAnchor(p, root) ==
    IF Best(p) = root THEN <<>>
    ELSE [r \in {Best(p)} |->
            [entered |-> FALSE,
             tree |-> IF r \in BringBestAnchorIntoCache(p, root) THEN TreeAt(p, r) ELSE Empty]]

DisconnectedView(b) ==
    [block |-> Parent[b],
     best |-> [p \in Pools |-> IF p \in Popped THEN undo[b][p] ELSE NoHash],
     anchors |-> [p \in Pools |-> IF p \in Popped THEN PopAnchor(p, undo[b][p]) ELSE <<>>],
     nullifiers |-> [n \in Reveals[b] |-> FALSE]]

(* What PopAnchor reads; SetNullifiers reads nothing.                      *)
AfterPopping(b) ==
    [cache EXCEPT
       !.best = [p \in Pools |-> IF p \in Popped THEN Best(p) ELSE @[p]],
       !.anchors = [p \in Pools |->
          IF p \in Popped THEN AnchorsRead(p, BringBestAnchorIntoCache(p, undo[b][p]))
          ELSE @[p]]]

DisconnectTip ==
    LET b == chainTip IN
    /\ b # Genesis
    /\ cache' = BatchWrite(AfterPopping(b), DisconnectedView(b))
    /\ chainTip' = Parent[b]
    /\ UNCHANGED <<disk, undo>>

-----------------------------------------------------------------------------
(* CCoinsViewDB::BatchWrite, one atomic batch.                             *)
WrittenAnchors(p) ==
    LET c == cache.anchors[p]
        erased == {r \in DOMAIN c : c[r].dirty /\ ~c[r].entered}
        added == {r \in DOMAIN c : c[r].dirty /\ c[r].entered /\ r # Empty}
    IN  [r \in (DOMAIN disk.anchors[p] \cup added) \ erased |->
           IF r \in added THEN c[r].tree ELSE disk.anchors[p][r]]
WrittenNullifiers_NeverErased ==
    disk.nullifiers \cup {n \in DOMAIN cache.nullifiers : cache.nullifiers[n].entered}
WrittenNullifiers ==
    {n \in Nullifiers : IF n \in DOMAIN cache.nullifiers /\ cache.nullifiers[n].dirty
                        THEN cache.nullifiers[n].entered
                        ELSE n \in disk.nullifiers}
WrittenDisk ==
    [block |-> IF cache.block = NoHash THEN disk.block ELSE cache.block,
     best |-> [p \in Pools |-> Best(p)],
     anchors |-> [p \in Pools |-> WrittenAnchors(p)],
     nullifiers |-> WrittenNullifiers]

FlushStateToDisk ==
    /\ disk' = WrittenDisk
    /\ cache' = EmptyCache(cache.block, cache.best)
    /\ UNCHANGED <<chainTip, undo>>

CrashAndRestart ==
    /\ cache' = EmptyCache(NoHash, [p \in Pools |-> NoHash])
    /\ chainTip' = disk.block
    /\ UNCHANGED <<disk, undo>>

Next ==
    \/ \E b \in Blocks : ConnectTip(b) \/ RejectBlock(b) \/ CheckForMempool(b)
    \/ DisconnectTip
    \/ FlushStateToDisk \/ CrashAndRestart

Spec == Init /\ [][Next]_vars

-----------------------------------------------------------------------------
(* Reference: what replaying the chain that ends in b would give.          *)
TreeAfter[b \in Blocks] ==
    IF b = Genesis THEN [p \in Pools |-> Empty]
    ELSE [p \in Pools |-> TreeAfter[Parent[b]][p] \o Commitments[b][p]]
RevealedBy(b) == UNION {Reveals[a] : a \in Chain(b) \ {Genesis}}

(* Shape of the state; every block of the active chain can be undone.      *)
TypeOK ==
    /\ disk.block \in Blocks /\ disk.best \in [Pools -> Roots]
    /\ disk.nullifiers \subseteq Nullifiers
    /\ cache.block \in Blocks \cup {NoHash} /\ cache.best \in [Pools -> {NoHash} \cup Roots]
    /\ DOMAIN cache.nullifiers \subseteq Nullifiers
    /\ chainTip \in Blocks
    /\ \A b \in Chain(chainTip) \ {Genesis} : undo[b] # NoHash

(* The cache answers "spent" for exactly the nullifiers of the active      *)
(* chain, however blocks were connected, disconnected and flushed, and so  *)
(* ConnectBlock's check works: no two blocks of the chain reveal the same. *)
NullifiersMatchChain ==
    /\ \A n \in Nullifiers : Revealed(n) <=> n \in RevealedBy(chainTip)
    /\ \A a, b \in Chain(chainTip) \ {Genesis} : a # b => Reveals[a] \cap Reveals[b] = {}

(* The anchors of a pool are the trees after the blocks of the chain.      *)
AnchorsOf(p) ==
    /\ Best(p) = TreeAfter[chainTip][p]
    /\ \A b \in Blocks :
         LET root == TreeAfter[b][p] IN
         /\ HasAnchor(p, root) <=> \E a \in Chain(chainTip) : TreeAfter[a][p] = root
         /\ HasAnchor(p, root) => TreeAt(p, root) = root

(* The anchors of the pools DisconnectBlock restores are the trees after   *)
(* each block of the active chain, with their own contents, and the best   *)
(* anchor is the last of them.                                             *)
AnchorsMatchChain == \A p \in Popped : AnchorsOf(p)

(* DisconnectBlock undoes the effects of the block, in every pool.         *)
AllAnchorsMatchChain == \A p \in Pools : AnchorsOf(p)

(* The database is at all times the state after its own best block, so     *)
(* that a crash at any point loses blocks but never part of one, and the   *)
(* blocks of the active chain can be undone.                               *)
DiskMatchesItsBlock ==
    /\ TypeOK
    /\ disk.nullifiers = RevealedBy(disk.block)
    /\ \A p \in Popped :
         /\ disk.best[p] = TreeAfter[disk.block][p]
         /\ DOMAIN disk.anchors[p] =
              {TreeAfter[a][p] : a \in Chain(disk.block)} \ {Empty}
         /\ \A r \in DOMAIN disk.anchors[p] : disk.anchors[p][r] = r
=============================================================================
