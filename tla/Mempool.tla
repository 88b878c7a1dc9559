------------------------------ MODULE Mempool ------------------------------
(***************************************************************************)
(* CTxMemPool (txmempool.cpp) and what AcceptToMemoryPool and the moves of *)
(* the active chain (main.cpp) do to it.  A step of ActivateBestChain, or  *)
(* a call of InvalidateBlock, holds cs_main from its first disconnect to   *)
(* its last clean-up; in between pcoinsTip, chainActive and the pool       *)
(* disagree, and transactions are resurrected in the middle of it.         *)
(*                                                                         *)
(* A transaction has one output, named like the transaction.  The coins of *)
(* pcoinsTip are those of the chain that ends in its best block (module    *)
(* CoinsCache is about how they get there).                                *)
(***************************************************************************)
EXTENDS BlockTree, Integers, Sequences, Functions

CONSTANTS
    Txs, Coinbases,
    TxsOf,          \* the transactions of a block, in order
    Inputs,         \* the outputs a transaction spends
    Nullifiers,     \* the nullifiers it reveals
    Anchors,        \* the treestates it spends from
    Root,           \* the treestate after a block
    Branch,         \* the epoch it commits to
    LockHeight,     \* nLockTime: final in blocks above this height
    ExpiryHeight,   \* nExpiryHeight: valid in blocks up to this height
    Maturity,       \* COINBASE_MATURITY
    Soon,           \* TX_EXPIRING_SOON_THRESHOLD
    Activation,     \* height of the network upgrade
    Capacity        \* the cost limit, every transaction costing one

ASSUME MempoolAssumption ==
    /\ IsFiniteSet(Txs) /\ Coinbases \subseteq Txs /\ TxsOf \in [Blocks -> Seq(Txs)]
    /\ Inputs \in [Txs -> SUBSET Txs]
    /\ LockHeight \in [Txs -> Nat] /\ ExpiryHeight \in [Txs -> Nat]
    /\ Maturity \in Nat /\ Soon \in Nat /\ Capacity \in Nat \ {0}
    \* CheckTransaction: whatever is no coinbase spends something
    /\ \A t \in Txs \ Coinbases : Inputs[t] \cup Nullifiers[t] # {}

VARIABLES
    tip,        \* chainActive.Tip()
    coins,      \* the best block of pcoinsTip
    pool,       \* mapTx, mapNextTx, the nullifier maps
    evicted,    \* recentlyEvicted
    target,     \* where the call in progress leads; the tip outside of one
    phase,      \* "settled", "step" or, within DisconnectTip, "resurrect"
    todo,       \* transactions still to resurrect
    disconnected \* fBlocksDisconnected

vars == <<tip, coins, pool, evicted, target, phase, todo, disconnected>>

EmptyPool == [mapTx |-> {}, mapNextTx |-> [o \in {} |-> o], nullifiers |-> [n \in {} |-> n]]

Init ==
    /\ tip = Genesis /\ coins = Genesis /\ pool = EmptyPool /\ evicted = {}
    /\ target = Genesis /\ phase = "settled" /\ todo = <<>>
    /\ disconnected = FALSE

----------------------------------------------------------------------------
(* The coins after block v, and the rules of a height *)

Confirmed(v) == UNION {Range(TxsOf[c]) : c \in Chain(v)}
UnspentOf == [v \in Blocks |-> Confirmed(v) \ UNION {Inputs[t] : t \in Confirmed(v)}]
Unspent(v) == UnspentOf[v]
Spent(v) == UNION {Nullifiers[t] : t \in Confirmed(v)}
Roots(v) == {Root[c] : c \in Chain(v)}

(* ConnectBlock: a chain creates what it spends, and spends nothing and     *)
(* holds no transaction twice.                                              *)
ASSUME ChainAssumption ==
    /\ \A b \in Blocks \ {Genesis} : Range(TxsOf[b]) \cap Confirmed(Parent[b]) = {}
    /\ \A v \in Blocks : \A t \in Confirmed(v) :
        /\ Inputs[t] \subseteq Confirmed(v)
        /\ \A u \in Confirmed(v) \ {t} : /\ Inputs[t] \cap Inputs[u] = {}
                                        /\ Nullifiers[t] \cap Nullifiers[u] = {}

HeightOf(t, v) == Height(CHOOSE c \in Chain(v) : t \in Range(TxsOf[c]))

Epoch(h) == IF h >= Activation THEN 1 ELSE 0
IsFinalTx(t, h) == LockHeight[t] < h
IsExpiredTx(t, h) == h > ExpiryHeight[t]
Mature(t, v) ==
    \A i \in Inputs[t] \cap Coinbases \cap Unspent(v) : Height(v) + 1 - HeightOf(i, v) >= Maturity

(* The child of a on the way up to b. *)
Towards(a, b) == CHOOSE c \in Chain(b) : c # Genesis /\ Parent[c] = a

----------------------------------------------------------------------------
(* CTxMemPool *)

Put(f, keys, t) == [k \in DOMAIN f \cup keys |-> IF k \in keys THEN t ELSE f[k]]
Erase(f, keys) == Restrict(f, DOMAIN f \ keys)

addUnchecked(m, t) ==
    [mapTx |-> m.mapTx \cup {t},
     mapNextTx |-> Put(m.mapNextTx, Inputs[t], t),
     nullifiers |-> Put(m.nullifiers, Nullifiers[t], t)]

(* remove of the transactions of S, not recursively. *)
remove_LeavesNullifiers(m, S) ==
    [mapTx |-> m.mapTx \ S,
     mapNextTx |-> Erase(m.mapNextTx, UNION {Inputs[t] : t \in S \cap m.mapTx}),
     nullifiers |-> m.nullifiers]
remove(m, S) ==
    [mapTx |-> m.mapTx \ S,
     mapNextTx |-> Erase(m.mapNextTx, UNION {Inputs[t] : t \in S \cap m.mapTx}),
     nullifiers |-> Erase(m.nullifiers, UNION {Nullifiers[t] : t \in S \cap m.mapTx})]

(* S and what spends from it, as mapNextTx links it. *)
WithDescendants(m, S) ==
    LET reach[n \in 0 .. Cardinality(Txs)] ==
            IF n = 0 THEN S
            ELSE reach[n - 1] \cup {m.mapNextTx[o] : o \in DOMAIN m.mapNextTx \cap reach[n - 1]}
    IN  reach[Cardinality(Txs)]

removeRecursive(m, S) == remove(m, WithDescendants(m, S))

removeConflicts(m, t) ==
    removeRecursive(m, {m.mapNextTx[o] : o \in Inputs[t] \cap DOMAIN m.mapNextTx}
                        \cup {m.nullifiers[n] : n \in Nullifiers[t] \cap DOMAIN m.nullifiers})

removeForBlock(m, b) ==
    LET after[n \in 0 .. Len(TxsOf[b])] ==
            IF n = 0 THEN m
            ELSE removeConflicts(remove(after[n - 1], {TxsOf[b][n]}), TxsOf[b][n])
    IN  after[Len(TxsOf[b])]

removeExpired(m, h) == removeRecursive(m, {t \in m.mapTx : IsExpiredTx(t, h)})

removeWithAnchor_Keeps(m, root) == m
removeWithAnchor(m, root) == removeRecursive(m, {t \in m.mapTx : root \in Anchors[t]})

removeForReorg(m, v, h) ==
    removeRecursive(m, {t \in m.mapTx :
        \/ ~IsFinalTx(t, h)
        \/ /\ Inputs[t] \cap Coinbases # {}
           /\ \/ ~(Inputs[t] \ m.mapTx \subseteq Unspent(v))
              \/ ~Mature(t, v)})

removeWithoutBranchId(m, e) == removeRecursive(m, {t \in m.mapTx : Branch[t] # e})

(* The checks of AcceptToMemoryPool, with the coins of v and the rules of   *)
(* height h: those before it looks for the inputs, the search for them, and *)
(* those after.                                                             *)
Eligible(m, t, v, h) ==
    /\ t \notin evicted \cup Coinbases \cup m.mapTx
    /\ Branch[t] = Epoch(h) /\ ~IsExpiredTx(t, h + Soon) /\ IsFinalTx(t, h)
    /\ Inputs[t] \cap DOMAIN m.mapNextTx = {} /\ Nullifiers[t] \cap DOMAIN m.nullifiers = {}
    /\ t \notin Unspent(v)

InputsFound(m, t, v) == Inputs[t] \subseteq m.mapTx \cup Unspent(v)

Acceptable(m, t, v, h) ==
    /\ Eligible(m, t, v, h) /\ InputsFound(m, t, v)
    /\ Nullifiers[t] \cap Spent(v) = {} /\ Anchors[t] \subseteq Roots(v)
    /\ Mature(t, v)

(* addUnchecked and EnsureSizeLimit, which drops any transaction. *)
AddAndLimit(m, t) ==
    LET full == addUnchecked(m, t)
    IN  IF Cardinality(full.mapTx) <= Capacity
        THEN pool' = full /\ UNCHANGED evicted
        ELSE \E victim \in full.mapTx :
                /\ pool' = removeRecursive(full, {victim})
                /\ evicted' = evicted \cup {victim}

----------------------------------------------------------------------------
(* Calls under cs_main *)

AcceptToMemoryPool(t) ==
    /\ phase = "settled" /\ Acceptable(pool, t, coins, Height(tip) + 1)
    /\ AddAndLimit(pool, t)
    /\ UNCHANGED <<tip, coins, target, phase, todo, disconnected>>

(* recentlyEvicted forgets. *)
Forget(t) ==
    /\ phase = "settled" /\ t \in evicted /\ evicted' = evicted \ {t}
    /\ UNCHANGED <<tip, coins, pool, target, phase, todo, disconnected>>

(* ActivateBestChainStep towards a block with more work, or InvalidateBlock *)
(* of a block of the chain.                                                 *)
BeginActivate(b) ==
    /\ phase = "settled" /\ Height(b) > Height(tip)
    /\ target' = b /\ phase' = "step"
    /\ UNCHANGED <<tip, coins, pool, evicted, todo, disconnected>>

InvalidateBlock(b) ==
    /\ phase = "settled" /\ b \in Chain(tip) \ {Genesis}
    /\ target' = Parent[b] /\ phase' = "step"
    /\ UNCHANGED <<tip, coins, pool, evicted, todo, disconnected>>

(* DisconnectTip: the coins step back first, ... *)
DisconnectBlock ==
    /\ phase = "step" /\ tip \notin Chain(target)
    /\ coins' = Parent[tip] /\ todo' = TxsOf[tip] /\ phase' = "resurrect"
    /\ UNCHANGED <<tip, pool, evicted, target, disconnected>>

(* ... then the block's transactions are accepted again, or removed with    *)
(* what depends on them, while chainActive still ends in the block, ...     *)
Resurrect_KeepsChildren ==
    /\ phase = "resurrect" /\ todo # <<>>
    /\ LET t == Head(todo)
       IN  IF Acceptable(pool, t, coins, Height(tip) + 1) THEN AddAndLimit(pool, t)
           ELSE UNCHANGED <<pool, evicted>>
    /\ todo' = Tail(todo)
    /\ UNCHANGED <<tip, coins, target, phase, disconnected>>
Resurrect ==
    /\ phase = "resurrect" /\ todo # <<>>
    /\ LET t == Head(todo)
       IN  IF Acceptable(pool, t, coins, Height(tip) + 1)
           THEN AddAndLimit(pool, t)
           ELSE pool' = removeRecursive(pool, {t}) /\ UNCHANGED evicted
    /\ todo' = Tail(todo)
    /\ UNCHANGED <<tip, coins, target, phase, disconnected>>

(* ... and the treestate and the tip follow. *)
FinishDisconnect ==
    /\ phase = "resurrect" /\ todo = <<>>
    /\ pool' = IF Root[tip] # Root[coins] THEN removeWithAnchor(pool, Root[tip]) ELSE pool
    /\ tip' = coins /\ disconnected' = TRUE /\ phase' = "step"
    /\ UNCHANGED <<coins, evicted, target, todo>>

ConnectTip ==
    /\ phase = "step" /\ tip \in Chain(target) /\ tip # target
    /\ LET b == Towards(tip, target)
       IN  /\ tip' = b /\ coins' = b
           /\ pool' = removeExpired(removeForBlock(pool, b), Height(b))
    /\ UNCHANGED <<evicted, target, phase, todo, disconnected>>

(* The end of the call: the target is reached, the chain is better than it  *)
(* was, or the next block turned out invalid.                               *)
EndStep ==
    /\ phase = "step" /\ tip \in Chain(target)
    /\ LET m == IF disconnected THEN removeForReorg(pool, coins, Height(tip) + 1) ELSE pool
       IN  pool' = removeWithoutBranchId(m, Epoch(Height(tip) + 1))
    /\ target' = tip /\ phase' = "settled" /\ disconnected' = FALSE
    /\ UNCHANGED <<tip, coins, evicted, todo>>

Next ==
    \/ \E t \in Txs : AcceptToMemoryPool(t) \/ Forget(t)
    \/ \E b \in Blocks : BeginActivate(b) \/ InvalidateBlock(b)
    \/ DisconnectBlock \/ Resurrect \/ FinishDisconnect \/ ConnectTip \/ EndStep

Spec == Init /\ [][Next]_vars

----------------------------------------------------------------------------
(* Properties *)

(* Shape of the state; EnsureSizeLimit keeps the pool within its limit, no  *)
(* coinbase is in it, and pcoinsTip and chainActive agree outside of        *)
(* DisconnectTip.                                                           *)
TypeOK ==
    /\ {tip, coins, target} \subseteq Blocks /\ phase \in {"settled", "step", "resurrect"}
    /\ pool.mapTx \subseteq Txs \ Coinbases /\ Cardinality(pool.mapTx) <= Capacity
    /\ evicted \subseteq Txs \ Coinbases /\ disconnected \in BOOLEAN
    /\ phase # "resurrect" => todo = <<>> /\ coins = tip

(* Between calls the pool fits the chain.  The assertions of                *)
(* CTxMemPool::check: every input is unspent in the chain or an output of   *)
(* the pool, every nullifier unspent, every anchor a treestate of the       *)
(* chain, every coinbase mature for the next block.  And the pool holds     *)
(* only what that block may hold: of its epoch, final, not expired at the   *)
(* tip, also after the height went back over the boundary of an upgrade.    *)
PoolFitsChain ==
    phase = "settled" => \A t \in pool.mapTx :
        /\ Inputs[t] \subseteq pool.mapTx \cup Unspent(tip)
        /\ Nullifiers[t] \cap Spent(tip) = {}
        /\ Anchors[t] \subseteq Roots(tip)
        /\ Mature(t, tip)
        /\ Branch[t] = Epoch(Height(tip) + 1)
        /\ IsFinalTx(t, Height(tip) + 1) /\ ~IsExpiredTx(t, Height(tip))

(* The assertions of check and checkNullifiers on the pool's own maps, at   *)
(* any point of a call: every input and every nullifier of the pool is      *)
(* recorded, for the one transaction of the pool that uses it.              *)
MapsMatchPool ==
    /\ TypeOK
    /\ DOMAIN pool.mapNextTx = UNION {Inputs[t] : t \in pool.mapTx}
    /\ DOMAIN pool.nullifiers = UNION {Nullifiers[t] : t \in pool.mapTx}
    /\ \A t \in pool.mapTx :
        /\ \A o \in Inputs[t] : pool.mapNextTx[o] = t
        /\ \A n \in Nullifiers[t] : pool.nullifiers[n] = t

(* The assertion of removeForReorg: whatever spends a coinbase finds the    *)
(* coins of its other inputs.                                               *)
ReorgFindsCoins ==
    phase = "step" /\ tip \in Chain(target) =>
        \A t \in pool.mapTx : Inputs[t] \cap Coinbases # {} =>
            Inputs[t] \ pool.mapTx \subseteq Unspent(coins)
=============================================================================
