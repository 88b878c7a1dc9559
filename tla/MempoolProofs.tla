--------------------------- MODULE MempoolProofs ---------------------------
(***************************************************************************)
(* TLAPS proofs about the memory pool and the orphan transactions beside   *)
(* it, for every tree of valid blocks and every set of transactions.       *)
(***************************************************************************)
EXTENDS OrphanTx, DataFacts, TLAPS

\* The pool's maps are what its transactions make them.
Links(m) ==
    /\ DOMAIN m.mapNextTx = UNION {Inputs[t] : t \in m.mapTx}
    /\ DOMAIN m.nullifiers = UNION {Nullifiers[t] : t \in m.mapTx}
    /\ \A t \in m.mapTx :
        /\ \A o \in Inputs[t] : m.mapNextTx[o] = t
        /\ \A n \in Nullifiers[t] : m.nullifiers[n] = t
AllNullifiers == UNION {Nullifiers[t] : t \in Txs}
Maps(K, V) == UNION {[D -> V] : D \in SUBSET K}
Pools ==
    [mapTx : SUBSET Txs, mapNextTx : Maps(Txs, Txs),
     nullifiers : Maps(AllNullifiers, Txs)]
Matching(m) == m \in Pools /\ Links(m)

\* Where the call in progress is: DisconnectTip has stepped the coins back, and
\* not yet the tip.
CallInv ==
    /\ todo \in Seq(Txs)
    /\ phase = "resurrect" => /\ tip # Genesis /\ coins = Parent[tip]
                              /\ Range(todo) \subseteq Range(TxsOf[tip])
    /\ phase = "settled" => ~disconnected

\* What a transaction of the pool satisfies at every point of a call.  Inputs
\* may also be outputs that are still to be resurrected; what the height of the
\* tip decides is out of order from the first disconnect to removeForReorg.
Fits(t) ==
    /\ Inputs[t] \subseteq pool.mapTx \cup Unspent(coins) \cup Range(todo)
    /\ Nullifiers[t] \cap Spent(coins) = {}
    /\ Anchors[t] \subseteq Roots(tip)
    /\ ~IsExpiredTx(t, Height(tip))
    /\ ~disconnected /\ phase # "resurrect" => Mature(t, tip) /\ IsFinalTx(t, Height(tip) + 1)
    /\ phase = "settled" => Branch[t] = Epoch(Height(tip) + 1)

\* The inductive invariant of Mempool.
Inv ==
    /\ TypeOK /\ Matching(pool) /\ CallInv
    /\ pool.mapTx \cap Confirmed(coins) = {}
    /\ \A t \in pool.mapTx : Fits(t)

\* The locals of the tx handler, and what it still has to try: an orphan that
\* waits for an accepted transaction is erased, about to be tried, waits for a
\* transaction of vWorkQueue, has a peer that misbehaved, or misses an input.
HandlerInv ==
    call # Idle =>
        /\ phase = "settled"
        /\ call \in [work : Seq(Txs), accepted : SUBSET Txs, left : SUBSET Txs,
                     erase : SUBSET Txs, misbehaving : SUBSET Peers]
        /\ \A t \in DOMAIN orphans \ (call.erase \cup call.left) :
             Inputs[t] \cap call.accepted # {} /\ orphans[t] \notin call.misbehaving =>
                \/ Inputs[t] \cap Range(call.work) # {}
                \/ ~InputsFound(pool, t, coins)

\* The inductive invariant of OrphanTx.
OrphanInv ==
    /\ Inv /\ OrphanMapsAgree /\ HandlerInv
    /\ orphans \in [DOMAIN orphans -> Peers] /\ DOMAIN orphans \subseteq Relayed
-----------------------------------------------------------------------------
(* Chains and what they hold *)


\* The blocks with their pprev links are a tree, and Chain is the chain in it.
LEMMA BlocksAreATree ==
    /\ Tree(Blocks, Genesis, Parent) /\ Chained(Chains, Blocks, Genesis, Parent)
<1>1. Tree(Blocks, Genesis, Parent)
  BY Zenon, BlockTreeAssumption DEF Tree
<1>2. Chains = ChainsOf(Blocks, Genesis, Parent)
  BY Zenon DEF Chains, ChainsOf
<1>3. QED
  BY Zenon, <1>1, <1>2, ChainsExist

\* A chain is its last block and the chain to its pprev, which it is not in.
LEMMA ChainFacts ==
    /\ Genesis \in Blocks /\ Chain(Genesis) = {Genesis}
    /\ \A b \in Blocks \ {Genesis} :
         Chain(b) = {b} \cup Chain(Parent[b]) /\ Parent[b] \in Blocks /\ b \notin Chain(Parent[b])
    /\ \A b \in Blocks : Chain(b) \subseteq Blocks /\ b \in Chain(b) /\ Genesis \in Chain(b)
  BY Zenon, BlocksAreATree, BlockTreeAssumption, ChainEndPoints DEF Chain, Chained

\* nHeight counts the links down to the genesis block: an ancestor is lower, and
\* the lower of two blocks of a chain is an ancestor of the higher one.
LEMMA HeightFacts ==
    /\ \A b \in Blocks : Height(b) \in Nat
    /\ Height(Genesis) = 0
    /\ \A b \in Blocks \ {Genesis} : Height(b) = Height(Parent[b]) + 1
    /\ \A b \in Blocks : \A a \in Chain(b) : Chain(a) \subseteq Chain(b)
    /\ \A b \in Blocks : \A a \in Chain(b) \ {b} : Height(a) < Height(b)
    /\ \A b \in Blocks : \A a, c \in Chain(b) : Height(a) <= Height(c) => a \in Chain(c)
<1> DEFINE len(b) == Cardinality(Chains[b])
<1>1. \A b \in Blocks : Height(b) = len(b) - 1
  BY Zenon DEF Height, Heights
<1>2. /\ \A b \in Blocks : len(b) \in Nat \ {0}
      /\ len(Genesis) = 1
      /\ \A b \in Blocks \ {Genesis} : len(b) = len(Parent[b]) + 1
      /\ \A b \in Blocks : \A a \in Chains[b] : Chains[a] \subseteq Chains[b]
      /\ \A b \in Blocks : \A a \in Chains[b] \ {b} : len(a) < len(b)
      /\ \A b \in Blocks : \A a, c \in Chains[b] : len(a) <= len(c) => a \in Chains[c]
  BY BlocksAreATree, ChainLengths
<1> HIDE DEF len
<1>3. \A b \in Blocks : Chains[b] \subseteq Blocks
  BY Zenon, ChainFacts DEF Chain
<1>4. \A b \in Blocks : Height(b) \in Nat
  BY <1>1, <1>2
<1>5. Height(Genesis) = 0 /\ \A b \in Blocks \ {Genesis} : Height(b) = Height(Parent[b]) + 1
  BY <1>1, <1>2, ChainFacts
<1>6. \A b \in Blocks : \A a \in Chains[b] \ {b} : Height(a) < Height(b)
  BY <1>1, <1>2, <1>3
<1>7. \A b \in Blocks : \A a, c \in Chains[b] : Height(a) <= Height(c) => a \in Chains[c]
  <2>1. ASSUME NEW b \in Blocks, NEW a \in Chains[b], NEW c \in Chains[b], Height(a) <= Height(c)
        PROVE  len(a) <= len(c)
    BY <1>1, <1>2, <1>3, <2>1
  <2>2. QED
    BY Zenon, <1>2, <2>1
<1>8. QED
  BY Zenon, <1>2, <1>4, <1>5, <1>6, <1>7 DEF Chain


\* What holds of the genesis block and of a block whenever it holds of its pprev
\* holds of all blocks.
LEMMA ByParent ==
    ASSUME NEW S \in SUBSET Blocks, Genesis \in S,
           \A b \in Blocks \ {Genesis} : Parent[b] \in S => b \in S
    PROVE  S = Blocks
  BY BlocksAreATree, TreeInduction

\* On the way up to a block there is a next block.
LEMMA TowardsFacts ==
    ASSUME NEW b \in Blocks, NEW a \in Chain(b), a # b
    PROVE  /\ Towards(a, b) \in Chain(b) /\ Towards(a, b) \in Blocks \ {Genesis}
           /\ Parent[Towards(a, b)] = a
<1> DEFINE S == {c \in Blocks : \A d \in Chain(c) \ {c} : \E e \in Chain(c) : e # Genesis /\ Parent[e] = d}
<1>1. S \in SUBSET Blocks /\ Genesis \in S
  BY Zenon, ChainFacts
<1>2. ASSUME NEW c \in Blocks \ {Genesis}, Parent[c] \in S PROVE c \in S
  <2>1. SUFFICES ASSUME NEW d \in Chain(c) \ {c}
                 PROVE  \E e \in Chain(c) : e # Genesis /\ Parent[e] = d
    BY Zenon
  <2>2. Chain(c) = {c} \cup Chain(Parent[c]) /\ d \in Chain(Parent[c])
    BY <2>1, ChainFacts
  <2>3. CASE d = Parent[c]
    BY Zenon, <2>2, <2>3
  <2>4. CASE d # Parent[c]
    BY Zenon, <1>2, <2>2, <2>4
  <2>5. QED
    BY Zenon, <2>3, <2>4
<1>3. S = Blocks
  <2> HIDE DEF S
  <2>1. QED
    BY Zenon, <1>1, <1>2, ByParent
<1>4. \E e \in Chain(b) : e # Genesis /\ Parent[e] = a
  BY Zenon, <1>3
<1>5. Towards(a, b) \in Chain(b) /\ Towards(a, b) # Genesis /\ Parent[Towards(a, b)] = a
  BY Zenon, <1>4 DEF Towards
<1>6. QED
  BY Zenon, <1>5, ChainFacts

\* A block adds its transactions, nullifiers and treestate to those of the chain
\* before it.  Its outputs and the outputs it leaves are unspent after it.
LEMMA BlockContents ==
    ASSUME NEW b \in Blocks \ {Genesis}
    PROVE  /\ Confirmed(b) = Confirmed(Parent[b]) \cup Range(TxsOf[b])
           /\ Range(TxsOf[b]) \cap Confirmed(Parent[b]) = {}
           /\ Spent(b) = Spent(Parent[b]) \cup UNION {Nullifiers[t] : t \in Range(TxsOf[b])}
           /\ Roots(b) = Roots(Parent[b]) \cup {Root[b]}
<1>1. Chain(b) = {b} \cup Chain(Parent[b])
  BY Zenon, ChainFacts
<1>2. Confirmed(b) = Confirmed(Parent[b]) \cup Range(TxsOf[b])
  BY Zenon, <1>1 DEF Confirmed
<1>3. Spent(b) = Spent(Parent[b]) \cup UNION {Nullifiers[t] : t \in Range(TxsOf[b])}
  BY Zenon, <1>2 DEF Spent
<1>4. Roots(b) = Roots(Parent[b]) \cup {Root[b]}
  BY Zenon, <1>1 DEF Roots
<1>5. QED
  BY Zenon, <1>2, <1>3, <1>4, ChainAssumption

\* An output is unspent when its transaction is in the chain, and no transaction
\* of the chain spends it.
LEMMA UnspentFacts ==
    ASSUME NEW v \in Blocks
    PROVE  /\ Confirmed(v) \subseteq Txs
           /\ \A o : o \in Unspent(v) <=> o \in Confirmed(v) /\ \A t \in Confirmed(v) : o \notin Inputs[t]
           /\ \A t \in Confirmed(v) : Nullifiers[t] \subseteq Spent(v)
<1>1. Unspent(v) = Confirmed(v) \ UNION {Inputs[t] : t \in Confirmed(v)}
  BY Zenon DEF Unspent, UnspentOf
<1>2. ASSUME NEW c \in Chain(v), NEW t \in Range(TxsOf[c]) PROVE t \in Txs
  <2>1. TxsOf[c] \in Seq(Txs)
    BY Zenon, ChainFacts, MempoolAssumption
  <2>2. QED
    BY <2>1 DEF Range
<1>3. Confirmed(v) \subseteq Txs
  BY Zenon, <1>2 DEF Confirmed
<1>4. QED
  BY Zenon, <1>1, <1>3 DEF Spent

\* A transaction is in one block of a chain only: its height there is the height
\* in every longer chain.
LEMMA HeightOfFacts ==
    ASSUME NEW b \in Blocks \ {Genesis}, NEW t \in Confirmed(Parent[b])
    PROVE  HeightOf(t, b) = HeightOf(t, Parent[b]) /\ HeightOf(t, b) \in Nat
<1> DEFINE a == Parent[b]
           Holds(c) == t \in Range(TxsOf[c])
<1>1. a \in Blocks /\ Chain(b) = {b} \cup Chain(a) /\ ~Holds(b) /\ Chain(a) \subseteq Blocks
  BY Zenon, ChainFacts, BlockContents
<1>2. PICK c \in Chain(a) : Holds(c)
  BY Zenon DEF Confirmed
<1>3. ASSUME NEW d \in Chain(a), Holds(d) PROVE d = c
  <2>1. ASSUME NEW x \in Chain(a), NEW y \in Chain(a), Holds(x), Holds(y), x # y, Height(x) <= Height(y)
        PROVE  FALSE
    <3>1. x \in Chain(y) /\ y \in Blocks /\ x \in Blocks
      BY Zenon, <1>1, <2>1, HeightFacts
    <3>2. y # Genesis
      BY Zenon, <2>1, <3>1, ChainFacts
    <3>3. x \in Chain(Parent[y]) /\ Parent[y] \in Blocks
      BY <2>1, <3>1, <3>2, ChainFacts
    <3>4. t \in Confirmed(Parent[y])
      BY Zenon, <2>1, <3>3 DEF Confirmed
    <3>5. QED
      BY Zenon, <2>1, <3>1, <3>2, <3>4, BlockContents
  <2>2. Height(c) \in Nat /\ Height(d) \in Nat
    BY Zenon, <1>1, HeightFacts
  <2>3. Height(c) <= Height(d) \/ Height(d) <= Height(c)
    BY <2>2
  <2>4. QED
    BY Zenon, <1>2, <1>3, <2>1, <2>3
<1>4. (CHOOSE d \in Chain(a) : Holds(d)) = c
  <2> HIDE DEF Holds, a
  <2>1. QED
    BY Zenon, <1>2, <1>3
<1>5. (CHOOSE d \in Chain(b) : Holds(d)) = c
  <2>1. c \in Chain(b) /\ \A d \in Chain(b) : Holds(d) => d = c
    BY Zenon, <1>1, <1>2, <1>3
  <2> HIDE DEF Holds, a
  <2>2. QED
    BY Zenon, <1>2, <2>1
<1>6. HeightOf(t, b) = Height(c) /\ HeightOf(t, a) = Height(c)
  BY Zenon, <1>4, <1>5 DEF HeightOf
<1>7. QED
  BY Zenon, <1>1, <1>2, <1>6, HeightFacts
-----------------------------------------------------------------------------
(* The pool's operations *)

\* erase() of some keys of a map.
LEMMA EraseFacts ==
    ASSUME NEW K, NEW V, NEW f \in Maps(K, V), NEW keys
    PROVE  Erase(f, keys) \in Maps(K, V)
<1>1. PICK D \in SUBSET K : f \in [D -> V]
  BY Zenon DEF Maps
<1> DEFINE E == D \ keys
           g == [x \in E |-> f[x]]
<1>2. Erase(f, keys) = g
  BY Zenon, <1>1 DEF Erase, Restrict
<1>3. g \in [E -> V] /\ E \in SUBSET K
  BY Zenon, <1>1
<1>4. QED
  BY Zenon, <1>1, <1>2, <1>3 DEF Maps

\* insert() of one value under some keys.
LEMMA PutFacts ==
    ASSUME NEW K, NEW V, NEW f \in Maps(K, V), NEW keys \in SUBSET K, NEW v \in V
    PROVE  Put(f, keys, v) \in Maps(K, V)
<1>1. PICK D \in SUBSET K : f \in [D -> V]
  BY Zenon DEF Maps
<1> DEFINE E == D \cup keys
           g == [x \in E |-> IF x \in keys THEN v ELSE f[x]]
<1>2. Put(f, keys, v) = g
  BY Zenon, <1>1 DEF Put
<1>3. g \in [E -> V] /\ E \in SUBSET K
  BY Zenon, <1>1
<1>4. QED
  BY <1>1, <1>2, <1>3 DEF Maps

\* What the constants say of a transaction.
LEMMA TxFacts ==
    \A t \in Txs : Inputs[t] \in SUBSET Txs /\ Nullifiers[t] \in SUBSET AllNullifiers
  BY Zenon, MempoolAssumption DEF AllNullifiers

\* mapNextTx and the nullifiers lead to transactions of the pool, one for each.
LEMMA MatchingFacts ==
    ASSUME NEW m, Matching(m)
    PROVE  /\ m.mapTx \in SUBSET Txs
           /\ m.mapNextTx \in Maps(Txs, Txs)
           /\ m.nullifiers \in Maps(AllNullifiers, Txs)
           /\ \A o \in DOMAIN m.mapNextTx : m.mapNextTx[o] \in m.mapTx /\ o \in Inputs[m.mapNextTx[o]]
           /\ \A n \in DOMAIN m.nullifiers : m.nullifiers[n] \in m.mapTx /\ n \in Nullifiers[m.nullifiers[n]]
           /\ \A t, u \in m.mapTx : t # u => Inputs[t] \cap Inputs[u] = {} /\ Nullifiers[t] \cap Nullifiers[u] = {}
<1>1. /\ m.mapTx \in SUBSET Txs
      /\ m.mapNextTx \in Maps(Txs, Txs)
      /\ m.nullifiers \in Maps(AllNullifiers, Txs)
  BY Zenon DEF Matching, Pools
<1>2. \A o \in DOMAIN m.mapNextTx : m.mapNextTx[o] \in m.mapTx /\ o \in Inputs[m.mapNextTx[o]]
  BY DEF Matching, Links
<1>3. \A n \in DOMAIN m.nullifiers : m.nullifiers[n] \in m.mapTx /\ n \in Nullifiers[m.nullifiers[n]]
  BY DEF Matching, Links
<1>4. \A t, u \in m.mapTx : t # u => Inputs[t] \cap Inputs[u] = {} /\ Nullifiers[t] \cap Nullifiers[u] = {}
  BY DEF Matching, Links
<1>5. QED
  BY Zenon, <1>1, <1>2, <1>3, <1>4

\* The maps of an index by keys after some of its members left it: uses gives the
\* keys of a member, disjoint from those of the others.
LEMMA UnlinkFacts ==
    ASSUME NEW T, NEW S, NEW uses, NEW f, DOMAIN f = UNION {uses[t] : t \in T},
           \A t \in T : \A o \in uses[t] : f[o] = t,
           NEW g, DOMAIN g = DOMAIN f \ UNION {uses[t] : t \in S \cap T},
           \A o \in DOMAIN g : g[o] = f[o]
    PROVE  /\ DOMAIN g = UNION {uses[t] : t \in T \ S}
           /\ \A t \in T \ S : \A o \in uses[t] : g[o] = t
<1>1. ASSUME NEW t \in T \ S, NEW o \in uses[t] PROVE o \in DOMAIN g
  BY <1>1
<1>2. ASSUME NEW o \in DOMAIN g PROVE \E t \in T \ S : o \in uses[t]
  BY <1>2
<1>3. DOMAIN g = UNION {uses[t] : t \in T \ S}
  BY <1>1, <1>2
<1>4. QED
  BY Zenon, <1>1, <1>3

\* CTxMemPool::remove takes a transaction out of every map.
LEMMA RemoveFacts ==
    ASSUME NEW m, Matching(m), NEW S
    PROVE  Matching(remove(m, S)) /\ remove(m, S).mapTx = m.mapTx \ S
<1> DEFINE r == remove(m, S)
           I == UNION {Inputs[t] : t \in S \cap m.mapTx}
           N == UNION {Nullifiers[t] : t \in S \cap m.mapTx}
<1>1. r = [mapTx |-> m.mapTx \ S, mapNextTx |-> Erase(m.mapNextTx, I), nullifiers |-> Erase(m.nullifiers, N)]
  BY Zenon DEF remove
<1>2. /\ r.mapTx = m.mapTx \ S /\ r.mapNextTx = Erase(m.mapNextTx, I) /\ r.nullifiers = Erase(m.nullifiers, N)
  BY <1>1
<1>3. /\ r.mapNextTx \in Maps(Txs, Txs)
      /\ DOMAIN r.mapNextTx = DOMAIN m.mapNextTx \ I
      /\ \A o \in DOMAIN r.mapNextTx : r.mapNextTx[o] = m.mapNextTx[o]
  <2> DEFINE f == m.mapNextTx
  <2>1. f \in Maps(Txs, Txs)
    BY Zenon, MatchingFacts
  <2>2. r.mapNextTx = Erase(f, I)
    BY Zenon, <1>2
  <2> HIDE DEF r, I, f
  <2>3. Erase(f, I) \in Maps(Txs, Txs)
    BY Zenon, <2>1, EraseFacts
  <2>4. DOMAIN Erase(f, I) = DOMAIN f \ I
    BY Zenon DEF Erase, Restrict
  <2>5. \A o \in DOMAIN f \ I : Erase(f, I)[o] = f[o]
    BY Zenon DEF Erase, Restrict
  <2>6. QED
    BY Zenon, <2>2, <2>3, <2>4, <2>5 DEF f
<1>4. /\ r.nullifiers \in Maps(AllNullifiers, Txs)
      /\ DOMAIN r.nullifiers = DOMAIN m.nullifiers \ N
      /\ \A o \in DOMAIN r.nullifiers : r.nullifiers[o] = m.nullifiers[o]
  <2> DEFINE f == m.nullifiers
  <2>1. f \in Maps(AllNullifiers, Txs)
    BY Zenon, MatchingFacts
  <2>2. r.nullifiers = Erase(f, N)
    BY Zenon, <1>2
  <2> HIDE DEF r, N, f
  <2>3. Erase(f, N) \in Maps(AllNullifiers, Txs)
    BY Zenon, <2>1, EraseFacts
  <2>4. DOMAIN Erase(f, N) = DOMAIN f \ N
    BY Zenon DEF Erase, Restrict
  <2>5. \A o \in DOMAIN f \ N : Erase(f, N)[o] = f[o]
    BY Zenon DEF Erase, Restrict
  <2>6. QED
    BY Zenon, <2>2, <2>3, <2>4, <2>5 DEF f
<1>5. r \in Pools
  <2>1. m.mapTx \ S \in SUBSET Txs
    BY Zenon, MatchingFacts
  <2>2. r = [mapTx |-> r.mapTx, mapNextTx |-> r.mapNextTx, nullifiers |-> r.nullifiers]
    BY Zenon, <1>1
  <2> HIDE DEF r
  <2>3. QED
    BY Zenon, <1>2, <1>3, <1>4, <2>1, <2>2 DEF Pools
<1> HIDE DEF r
<1>6. Links(m)
  BY Zenon DEF Matching
<1>7. /\ DOMAIN r.mapNextTx = UNION {Inputs[t] : t \in m.mapTx \ S}
      /\ \A t \in m.mapTx \ S : \A o \in Inputs[t] : r.mapNextTx[o] = t
  BY <1>3, <1>6, UnlinkFacts DEF Links
<1>8. /\ DOMAIN r.nullifiers = UNION {Nullifiers[t] : t \in m.mapTx \ S}
      /\ \A t \in m.mapTx \ S : \A n \in Nullifiers[t] : r.nullifiers[n] = t
  BY <1>4, <1>6, UnlinkFacts DEF Links
<1>9. Links(r)
  BY Zenon, <1>2, <1>7, <1>8 DEF Links
<1>10. QED
  BY Zenon, <1>2, <1>5, <1>9 DEF Matching, r

\* addUnchecked enters a transaction that shares no input and no nullifier with
\* the pool in every map.
LEMMA AddFacts ==
    ASSUME NEW m, Matching(m), NEW t \in Txs,
           Inputs[t] \cap DOMAIN m.mapNextTx = {}, Nullifiers[t] \cap DOMAIN m.nullifiers = {}
    PROVE  Matching(addUnchecked(m, t)) /\ addUnchecked(m, t).mapTx = m.mapTx \cup {t}
<1> DEFINE r == addUnchecked(m, t)
<1>1. r = [mapTx |-> m.mapTx \cup {t}, mapNextTx |-> Put(m.mapNextTx, Inputs[t], t),
           nullifiers |-> Put(m.nullifiers, Nullifiers[t], t)]
  BY Zenon DEF addUnchecked
<1>2. /\ r.mapTx = m.mapTx \cup {t} /\ r.mapNextTx = Put(m.mapNextTx, Inputs[t], t)
      /\ r.nullifiers = Put(m.nullifiers, Nullifiers[t], t)
  BY <1>1
<1>3. /\ r.mapNextTx \in Maps(Txs, Txs)
      /\ DOMAIN r.mapNextTx = DOMAIN m.mapNextTx \cup Inputs[t]
      /\ \A o \in DOMAIN r.mapNextTx : r.mapNextTx[o] = IF o \in Inputs[t] THEN t ELSE m.mapNextTx[o]
  <2> DEFINE f == m.mapNextTx
             k == Inputs[t]
  <2>1. f \in Maps(Txs, Txs) /\ k \in SUBSET Txs
    BY Zenon, MatchingFacts, TxFacts
  <2>2. r.mapNextTx = Put(f, k, t)
    BY Zenon, <1>2
  <2> HIDE DEF r, f, k
  <2>3. Put(f, k, t) \in Maps(Txs, Txs)
    BY Zenon, <2>1, PutFacts
  <2>4. DOMAIN Put(f, k, t) = DOMAIN f \cup k
    BY Zenon DEF Put
  <2>5. \A o \in DOMAIN f \cup k : Put(f, k, t)[o] = IF o \in k THEN t ELSE f[o]
    BY Zenon DEF Put
  <2>6. QED
    BY Zenon, <2>2, <2>3, <2>4, <2>5 DEF f, k
<1>4. /\ r.nullifiers \in Maps(AllNullifiers, Txs)
      /\ DOMAIN r.nullifiers = DOMAIN m.nullifiers \cup Nullifiers[t]
      /\ \A o \in DOMAIN r.nullifiers : r.nullifiers[o] = IF o \in Nullifiers[t] THEN t ELSE m.nullifiers[o]
  <2> DEFINE f == m.nullifiers
             k == Nullifiers[t]
  <2>1. f \in Maps(AllNullifiers, Txs) /\ k \in SUBSET AllNullifiers
    BY Zenon, MatchingFacts, TxFacts
  <2>2. r.nullifiers = Put(f, k, t)
    BY Zenon, <1>2
  <2> HIDE DEF r, f, k
  <2>3. Put(f, k, t) \in Maps(AllNullifiers, Txs)
    BY Zenon, <2>1, PutFacts
  <2>4. DOMAIN Put(f, k, t) = DOMAIN f \cup k
    BY Zenon DEF Put
  <2>5. \A o \in DOMAIN f \cup k : Put(f, k, t)[o] = IF o \in k THEN t ELSE f[o]
    BY Zenon DEF Put
  <2>6. QED
    BY Zenon, <2>2, <2>3, <2>4, <2>5 DEF f, k
<1>5. r \in Pools
  <2>1. m.mapTx \cup {t} \in SUBSET Txs
    BY Zenon, MatchingFacts
  <2>2. r = [mapTx |-> r.mapTx, mapNextTx |-> r.mapNextTx, nullifiers |-> r.nullifiers]
    BY Zenon, <1>1
  <2> HIDE DEF r
  <2>3. QED
    BY Zenon, <1>2, <1>3, <1>4, <2>1, <2>2 DEF Pools
<1> HIDE DEF r
<1>6. /\ DOMAIN r.mapNextTx = UNION {Inputs[u] : u \in m.mapTx \cup {t}}
      /\ \A u \in m.mapTx \cup {t} : \A o \in Inputs[u] : r.mapNextTx[o] = u
  BY <1>3 DEF Matching, Links
<1>7. /\ DOMAIN r.nullifiers = UNION {Nullifiers[u] : u \in m.mapTx \cup {t}}
      /\ \A u \in m.mapTx \cup {t} : \A n \in Nullifiers[u] : r.nullifiers[n] = u
  BY <1>4 DEF Matching, Links
<1>8. Links(r)
  BY Zenon, <1>2, <1>6, <1>7 DEF Links
<1>9. QED
  BY Zenon, <1>2, <1>5, <1>8 DEF Matching, r

\* What calculating the descendants of S returns holds S, and with an output of
\* the pool the transaction of the pool that spends it: as long as that is not so
\* every round adds one of finitely many transactions.
LEMMA DescendantFacts ==
    ASSUME NEW m, Matching(m), NEW S \in SUBSET Txs
    PROVE  /\ S \subseteq WithDescendants(m, S) /\ WithDescendants(m, S) \subseteq Txs
           /\ \A u \in m.mapTx : Inputs[u] \cap WithDescendants(m, S) # {} => u \in WithDescendants(m, S)
<1> DEFINE C == Cardinality(Txs)
           Spenders(R) == {m.mapNextTx[o] : o \in DOMAIN m.mapNextTx \cap R}
           Rounds(f) == f = [n \in 0 .. C |-> IF n = 0 THEN S ELSE f[n - 1] \cup Spenders(f[n - 1])]
           V == SUBSET Txs
           step == [x \in (0 .. C) \X V |-> x[2] \cup Spenders(x[2])]
           reach == CHOOSE f : Rounds(f)
           Closed(R) == Spenders(R) \subseteq R
<1>1. C \in Nat
  BY Zenon, MempoolAssumption, FS_CardinalityType
<1>2. WithDescendants(m, S) = reach[C]
  BY Zenon DEF WithDescendants
<1>3. \A R \in V : Spenders(R) \subseteq Txs
  BY MatchingFacts
<1>4. step \in [(0 .. C) \X V -> V]
  BY Zenon, <1>3
<1> HIDE DEF C, V, Spenders
<1>5. PICK f \in [0 .. C -> V] : Loops(f, C, S, step)
  <2>1. S \in V
    BY Zenon DEF V
  <2> HIDE DEF step
  <2>2. QED
    BY Zenon, <1>1, <1>4, <2>1, LineRecursion
<1>6. ASSUME NEW i \in 1 .. C PROVE f[i] = f[i - 1] \cup Spenders(f[i - 1]) /\ f[i - 1] \in V /\ f[i] \in V
  <2>1. i - 1 \in 0 .. C /\ i \in 0 .. C
    BY <1>1
  <2>2. <<i, f[i - 1]>> \in (0 .. C) \X V /\ f[i] \in V
    BY Zenon, <2>1
  <2>3. QED
    BY Zenon, <1>5, <2>2 DEF Loops
<1>7. Rounds(f)
  <2>1. ASSUME NEW i \in 0 .. C PROVE f[i] = IF i = 0 THEN S ELSE f[i - 1] \cup Spenders(f[i - 1])
    <3>1. i = 0 \/ i \in 1 .. C
      BY <1>1
    <3>2. QED
      BY Zenon, <1>5, <1>6, <3>1 DEF Loops
  <2>2. QED
    BY Zenon, <2>1
<1>8. Rounds(reach)
  <2> HIDE DEF Rounds
  <2>1. QED
    BY Zenon, <1>7
<1>9. reach[0] = S /\ \A i \in 1 .. C : reach[i] = reach[i - 1] \cup Spenders(reach[i - 1])
  <2>1. \A i \in 0 .. C : reach[i] = IF i = 0 THEN S ELSE reach[i - 1] \cup Spenders(reach[i - 1])
    <3> HIDE DEF reach
    <3>1. QED
      BY Zenon, <1>8
  <2>2. 0 \in 0 .. C /\ \A i \in 1 .. C : i \in 0 .. C /\ i # 0
    BY <1>1
  <2> HIDE DEF reach
  <2>3. QED
    BY Zenon, <2>1, <2>2
<1> DEFINE Good(i) == /\ reach[i] \in V /\ S \subseteq reach[i]
                      /\ Closed(reach[i]) \/ Cardinality(reach[i]) >= i
           G == {i \in 0 .. C : Good(i)}
<1> HIDE DEF reach, Rounds, step
<1>10. \A R \in V : IsFiniteSet(R) /\ Cardinality(R) \in Nat /\ Cardinality(R) <= C
  BY Zenon, MempoolAssumption, FS_CardinalityType, FS_Subset DEF V, C
<1>11. 0 \in G
  <2>1. reach[0] = S /\ S \in V
    BY Zenon, <1>9 DEF V
  <2>2. Cardinality(S) >= 0
    BY <1>10, <2>1
  <2>3. QED
    BY <1>1, <2>1, <2>2
<1>12. ASSUME NEW i \in 1 .. C, i - 1 \in G PROVE i \in G
  <2> DEFINE Q == reach[i - 1]
             R == reach[i]
  <2>1. R = Q \cup Spenders(Q) /\ Q \in V /\ S \subseteq Q /\ (Closed(Q) \/ Cardinality(Q) >= i - 1)
    BY Zenon, <1>9, <1>12
  <2>2. R \in V /\ S \subseteq R
    BY Zenon, <1>3, <2>1 DEF V
  <2>3. CASE Closed(Q)
    <3>1. R = Q
      BY Zenon, <2>1, <2>3
    <3>2. QED
      BY <2>1, <2>2, <2>3, <3>1
  <2>4. CASE ~Closed(Q)
    <3>1. Q \in SUBSET R /\ Q # R
      BY Zenon, <2>1, <2>4
    <3>2. IsFiniteSet(R) /\ Cardinality(R) \in Nat /\ Cardinality(Q) \in Nat
      BY Zenon, <1>10, <2>1, <2>2
    <3> HIDE DEF Q, R
    <3>3. Cardinality(Q) <= Cardinality(R) /\ Cardinality(Q) # Cardinality(R)
      BY Zenon, <3>1, <3>2, FS_Subset
    <3>4. Cardinality(R) >= i
      BY <2>1, <2>4, <3>2, <3>3
    <3>5. QED
      BY <2>2, <3>4 DEF R
  <2>5. QED
    BY Zenon, <2>3, <2>4
<1>13. Good(C)
  <2>1. G \in SUBSET (0 .. C) /\ C \in 0 .. C
    BY <1>1
  <2> HIDE DEF Good
  <2>2. G = 0 .. C
    <3> HIDE DEF G
    <3>1. QED
      BY Zenon, <1>1, <1>11, <1>12, <2>1, LineInduction
  <2>3. QED
    BY Zenon, <2>1, <2>2
<1>14. Closed(reach[C])
  <2>1. CASE Closed(reach[C])
    BY Zenon, <2>1
  <2>2. CASE Cardinality(reach[C]) >= C
    <3>1. reach[C] \in SUBSET Txs /\ Cardinality(reach[C]) = Cardinality(Txs)
      BY <1>1, <1>10, <1>13, <2>2 DEF V, C
    <3>2. reach[C] = Txs
      BY Zenon, <3>1, MempoolAssumption, FS_Subset
    <3>3. QED
      BY Zenon, <1>3, <1>13, <3>2
  <2>3. QED
    BY Zenon, <1>13, <2>1, <2>2
<1>15. ASSUME NEW u \in m.mapTx, NEW o \in Inputs[u] \cap reach[C] PROVE u \in reach[C]
  <2>1. o \in DOMAIN m.mapNextTx /\ m.mapNextTx[o] = u
    BY Zenon DEF Matching, Links
  <2>2. u \in Spenders(reach[C])
    BY Zenon, <2>1 DEF Spenders
  <2>3. QED
    BY Zenon, <1>14, <2>2
<1>16. QED
  BY Zenon, <1>2, <1>13, <1>15 DEF V

\* What is left of m in r after a removal of S with all that depends on it: of
\* what is left nothing spends from S, and nothing lost an input it had in m.
Kept(m, r, S) ==
    /\ Matching(r) /\ r.mapTx \subseteq m.mapTx \ S
    /\ \A u \in r.mapTx : Inputs[u] \cap S = {} /\ Inputs[u] \cap m.mapTx \subseteq r.mapTx

\* CTxMemPool::remove, recursively.
LEMMA RemoveRecursiveFacts ==
    ASSUME NEW m, Matching(m), NEW S \in SUBSET Txs
    PROVE  Kept(m, removeRecursive(m, S), S)
<1> DEFINE W == WithDescendants(m, S)
           r == removeRecursive(m, S)
<1>1. S \subseteq W /\ \A u \in m.mapTx : Inputs[u] \cap W # {} => u \in W
  BY Zenon, DescendantFacts
<1>2. r = remove(m, W)
  BY Zenon DEF removeRecursive
<1> HIDE DEF W, r
<1>3. Matching(r) /\ r.mapTx = m.mapTx \ W
  BY Zenon, <1>2, RemoveFacts
<1>4. QED
  BY Zenon, <1>1, <1>3 DEF Kept, r

\* removeConflicts leaves nothing that uses an input or a nullifier of t.
LEMMA RemoveConflictsFacts ==
    ASSUME NEW m, Matching(m), NEW t \in Txs
    PROVE  /\ Kept(m, removeConflicts(m, t), {})
           /\ \A u \in removeConflicts(m, t).mapTx :
                Inputs[u] \cap Inputs[t] = {} /\ Nullifiers[u] \cap Nullifiers[t] = {}
<1> DEFINE S == {m.mapNextTx[o] : o \in Inputs[t] \cap DOMAIN m.mapNextTx}
                    \cup {m.nullifiers[n] : n \in Nullifiers[t] \cap DOMAIN m.nullifiers}
           r == removeConflicts(m, t)
<1>1. r = removeRecursive(m, S)
  BY Zenon DEF removeConflicts
<1>2. S \in SUBSET Txs
  BY MatchingFacts
<1>3. ASSUME NEW u \in m.mapTx \ S
      PROVE  Inputs[u] \cap Inputs[t] = {} /\ Nullifiers[u] \cap Nullifiers[t] = {}
  <2>1. \A o \in Inputs[u] : o \in DOMAIN m.mapNextTx /\ m.mapNextTx[o] = u
    BY Zenon DEF Matching, Links
  <2>2. \A n \in Nullifiers[u] : n \in DOMAIN m.nullifiers /\ m.nullifiers[n] = u
    BY Zenon DEF Matching, Links
  <2>3. QED
    BY Zenon, <2>1, <2>2
<1> HIDE DEF S, r
<1>4. Kept(m, r, S)
  BY Zenon, <1>1, <1>2, RemoveRecursiveFacts
<1>5. QED
  BY Zenon, <1>3, <1>4 DEF Kept, r

\* removeForBlock takes out the transactions of the block, what conflicts with
\* them and what depends on such a conflict; what depends on a transaction of the
\* block only finds its input in the coins from now on.
LEMMA RemoveForBlockFacts ==
    ASSUME NEW m, Matching(m), NEW b \in Blocks
    PROVE  /\ Matching(removeForBlock(m, b)) /\ removeForBlock(m, b).mapTx \subseteq m.mapTx \ Range(TxsOf[b])
           /\ \A u \in removeForBlock(m, b).mapTx :
                /\ Inputs[u] \cap m.mapTx \subseteq removeForBlock(m, b).mapTx \cup Range(TxsOf[b])
                /\ \A t \in Range(TxsOf[b]) : Inputs[u] \cap Inputs[t] = {} /\ Nullifiers[u] \cap Nullifiers[t] = {}
<1> DEFINE T == TxsOf[b]
           N == Len(T)
           V == {x \in Pools : Links(x)}
           Handle(x, t) == removeConflicts(remove(x, {t}), t)
           Loop(f) == f = [n \in 0 .. N |-> IF n = 0 THEN m ELSE Handle(f[n - 1], T[n])]
           step == [x \in (0 .. N) \X V |-> IF x[1] = 0 THEN x[2] ELSE Handle(x[2], T[x[1]])]
           after == CHOOSE f : Loop(f)
<1>1. T \in Seq(Txs)
  BY Zenon, MempoolAssumption
<1>2. N \in Nat /\ \A i \in 1 .. N : T[i] \in Txs
  BY <1>1
<1>3. Range(T) = {T[i] : i \in 1 .. N}
  BY <1>1 DEF Range
<1>4. removeForBlock(m, b) = after[N]
  BY Zenon DEF removeForBlock
<1>5. \A x : x \in V <=> Matching(x)
  BY Zenon DEF Matching
<1> HIDE DEF T, N, V
<1>6. ASSUME NEW x, Matching(x), NEW t \in Txs
      PROVE  /\ Matching(Handle(x, t)) /\ Handle(x, t).mapTx \subseteq x.mapTx \ {t}
             /\ \A u \in Handle(x, t).mapTx :
                 /\ Inputs[u] \cap x.mapTx \subseteq Handle(x, t).mapTx \cup {t}
                 /\ Inputs[u] \cap Inputs[t] = {} /\ Nullifiers[u] \cap Nullifiers[t] = {}
  <2> DEFINE q == remove(x, {t})
             r == removeConflicts(q, t)
  <2>1. Matching(q) /\ q.mapTx = x.mapTx \ {t}
    BY Zenon, <1>6, RemoveFacts
  <2> HIDE DEF q
  <2>2. /\ Kept(q, r, {})
        /\ \A u \in r.mapTx : Inputs[u] \cap Inputs[t] = {} /\ Nullifiers[u] \cap Nullifiers[t] = {}
    BY Zenon, <2>1, RemoveConflictsFacts
  <2>3. r = Handle(x, t)
    BY Zenon DEF q
  <2> HIDE DEF r, Handle
  <2>4. Matching(r) /\ r.mapTx \subseteq x.mapTx \ {t} /\ \A u \in r.mapTx : Inputs[u] \cap x.mapTx \subseteq r.mapTx \cup {t}
    BY Zenon, <2>1, <2>2 DEF Kept
  <2>5. QED
    BY Zenon, <2>2, <2>3, <2>4
<1> HIDE DEF Handle
<1>7. step \in [(0 .. N) \X V -> V]
  <2>1. ASSUME NEW x \in (0 .. N) \X V PROVE (IF x[1] = 0 THEN x[2] ELSE Handle(x[2], T[x[1]])) \in V
    <3>1. x[1] \in 0 .. N /\ x[2] \in V
      BY Zenon
    <3>2. x[1] = 0 \/ T[x[1]] \in Txs
      BY <1>2, <3>1
    <3>3. QED
      BY <1>5, <1>6, <3>1, <3>2
  <2>2. QED
    BY Zenon, <2>1
<1>8. PICK f \in [0 .. N -> V] : Loops(f, N, m, step)
  <2>1. m \in V /\ N \in Nat
    BY Zenon, <1>2, <1>5
  <2> HIDE DEF step
  <2>2. QED
    BY Zenon, <1>7, <2>1, LineRecursion
<1>9. Loop(f)
  <2>1. ASSUME NEW i \in 0 .. N PROVE f[i] = IF i = 0 THEN m ELSE Handle(f[i - 1], T[i])
    <3>1. CASE i = 0
      BY Zenon, <1>8, <3>1 DEF Loops
    <3>2. CASE i # 0
      <4>1. i \in 1 .. N /\ i - 1 \in 0 .. N
        BY <1>2, <3>2
      <4>2. f[i] = step[<<i, f[i - 1]>>] /\ <<i, f[i - 1]>> \in (0 .. N) \X V
        BY Zenon, <1>8, <4>1 DEF Loops
      <4>3. QED
        BY Zenon, <3>2, <4>2
    <3>3. QED
      BY Zenon, <3>1, <3>2
  <2>2. QED
    BY Zenon, <2>1
<1>10. Loop(after)
  <2> HIDE DEF Loop
  <2>1. QED
    BY Zenon, <1>9
<1>11. after[0] = m /\ \A i \in 1 .. N : after[i] = Handle(after[i - 1], T[i])
  <2> HIDE DEF after
  <2>1. \A i \in 0 .. N : after[i] = IF i = 0 THEN m ELSE Handle(after[i - 1], T[i])
    BY Zenon, <1>10
  <2>2. 0 \in 0 .. N /\ \A i \in 1 .. N : i \in 0 .. N /\ i # 0
    BY <1>2
  <2>3. QED
    BY Zenon, <2>1, <2>2
<1> HIDE DEF after, Loop, step
<1> DEFINE Good(i) == LET a == after[i] IN
             /\ Matching(a) /\ a.mapTx \subseteq m.mapTx
             /\ \A j \in 1 .. i : T[j] \notin a.mapTx
             /\ \A u \in a.mapTx :
                  /\ Inputs[u] \cap m.mapTx \subseteq a.mapTx \cup Range(T)
                  /\ \A j \in 1 .. i : Inputs[u] \cap Inputs[T[j]] = {} /\ Nullifiers[u] \cap Nullifiers[T[j]] = {}
           G == {i \in 0 .. N : Good(i)}
<1>12. 0 \in G
  BY <1>2, <1>11
<1>13. ASSUME NEW i \in 1 .. N, i - 1 \in G PROVE i \in G
  <2> DEFINE a == after[i - 1]
             r == after[i]
             t == T[i]
  <2>1. t \in Txs /\ r = Handle(a, t) /\ i \in 0 .. N /\ t \in Range(T)
    BY <1>2, <1>3, <1>11
  <2>2. Good(i - 1)
    BY Zenon, <1>13
  <2>3. \A j \in 1 .. i : j = i \/ j \in 1 .. (i - 1)
    OBVIOUS
  <2> HIDE DEF a, r, t
  <2>4. /\ Matching(r) /\ r.mapTx \subseteq a.mapTx \ {t}
        /\ \A u \in r.mapTx : /\ Inputs[u] \cap a.mapTx \subseteq r.mapTx \cup {t}
                              /\ Inputs[u] \cap Inputs[t] = {} /\ Nullifiers[u] \cap Nullifiers[t] = {}
    <3>1. Matching(a)
      BY Zenon, <2>2 DEF a
    <3>2. QED
      BY Zenon, <1>6, <2>1, <3>1
  <2>5. /\ a.mapTx \subseteq m.mapTx
        /\ \A j \in 1 .. (i - 1) : T[j] \notin a.mapTx
        /\ \A u \in a.mapTx :
             /\ Inputs[u] \cap m.mapTx \subseteq a.mapTx \cup Range(T)
             /\ \A j \in 1 .. (i - 1) : Inputs[u] \cap Inputs[T[j]] = {} /\ Nullifiers[u] \cap Nullifiers[T[j]] = {}
    BY Zenon, <2>2 DEF a
  <2>6. r.mapTx \subseteq m.mapTx /\ \A u \in r.mapTx : Inputs[u] \cap m.mapTx \subseteq r.mapTx \cup Range(T)
    BY Zenon, <2>1, <2>4, <2>5
  <2>7. ASSUME NEW j \in 1 .. i
        PROVE  /\ T[j] \notin r.mapTx
               /\ \A u \in r.mapTx : Inputs[u] \cap Inputs[T[j]] = {} /\ Nullifiers[u] \cap Nullifiers[T[j]] = {}
    <3>1. CASE j = i
      BY Zenon, <2>4, <3>1 DEF t
    <3>2. CASE j \in 1 .. (i - 1)
      BY Zenon, <2>4, <2>5, <3>2
    <3>3. QED
      BY Zenon, <2>3, <3>1, <3>2
  <2>8. Good(i)
    BY Zenon, <2>4, <2>6, <2>7 DEF r
  <2> HIDE DEF Good
  <2>9. QED
    BY Zenon, <2>1, <2>8
<1>14. Good(N)
  <2>1. G \in SUBSET (0 .. N) /\ N \in 0 .. N
    BY <1>2
  <2> HIDE DEF Good
  <2>2. G = 0 .. N
    <3> HIDE DEF G
    <3>1. QED
      BY Zenon, <1>2, <1>12, <1>13, <2>1, LineInduction
  <2>3. QED
    BY Zenon, <2>1, <2>2
<1>15. QED
  BY Zenon, <1>3, <1>4, <1>14 DEF T

\* A removal of nothing, and one removal after another.
LEMMA KeptFacts ==
    /\ \A m : Matching(m) => Kept(m, m, {})
    /\ \A m, r, q, S, T : Kept(m, r, S) /\ Kept(r, q, T) => Kept(m, q, {})
<1>1. \A m : Matching(m) => Kept(m, m, {})
  BY Zenon DEF Kept
<1>2. ASSUME NEW m, NEW r, NEW q, NEW S, NEW T, Kept(m, r, S), Kept(r, q, T) PROVE Kept(m, q, {})
  BY Zenon, <1>2 DEF Kept
<1>3. QED
  BY Zenon, <1>1, <1>2

\* addUnchecked and EnsureSizeLimit.
LEMMA AddAndLimitFacts ==
    ASSUME Matching(pool), Cardinality(pool.mapTx) <= Capacity, NEW t \in Txs \ pool.mapTx,
           Inputs[t] \cap DOMAIN pool.mapNextTx = {}, Nullifiers[t] \cap DOMAIN pool.nullifiers = {},
           AddAndLimit(pool, t)
    PROVE  /\ Matching(pool') /\ pool'.mapTx \subseteq pool.mapTx \cup {t}
           /\ \A u \in pool'.mapTx : Inputs[u] \cap (pool.mapTx \cup {t}) \subseteq pool'.mapTx
           /\ Cardinality(pool'.mapTx) <= Capacity
           /\ evicted' \subseteq evicted \cup pool.mapTx \cup {t}
<1> DEFINE full == addUnchecked(pool, t)
<1>1. Matching(full) /\ full.mapTx = pool.mapTx \cup {t}
  BY Zenon, AddFacts
<1>2. \/ Cardinality(full.mapTx) <= Capacity /\ pool' = full /\ evicted' = evicted
      \/ \E victim \in full.mapTx : /\ pool' = removeRecursive(full, {victim})
                                    /\ evicted' = evicted \cup {victim}
  BY Zenon DEF AddAndLimit
<1>3. IsFiniteSet(pool.mapTx) /\ pool.mapTx \subseteq Txs /\ Cardinality(pool.mapTx) \in Nat
  BY Zenon, MempoolAssumption, MatchingFacts, FS_Subset, FS_CardinalityType
<1>4. IsFiniteSet(full.mapTx) /\ Cardinality(full.mapTx) = Cardinality(pool.mapTx) + 1
  <2> DEFINE M == pool.mapTx
  <2>1. IsFiniteSet(M) /\ t \notin M
    BY Zenon, <1>3
  <2> HIDE DEF M
  <2>2. IsFiniteSet(M \cup {t}) /\ Cardinality(M \cup {t}) = Cardinality(M) + 1
    BY Zenon, <2>1, FS_AddElement
  <2>3. QED
    BY Zenon, <1>1, <2>2 DEF M
<1> HIDE DEF full
<1>5. CASE Cardinality(full.mapTx) <= Capacity /\ pool' = full /\ evicted' = evicted
  BY Zenon, <1>1, <1>5
<1>6. ASSUME NEW victim \in full.mapTx, pool' = removeRecursive(full, {victim}), evicted' = evicted \cup {victim}
      PROVE  /\ Matching(pool') /\ pool'.mapTx \subseteq pool.mapTx \cup {t}
             /\ \A u \in pool'.mapTx : Inputs[u] \cap (pool.mapTx \cup {t}) \subseteq pool'.mapTx
             /\ Cardinality(pool'.mapTx) <= Capacity
             /\ evicted' \subseteq evicted \cup pool.mapTx \cup {t}
  <2>1. {victim} \in SUBSET Txs
    BY Zenon, <1>1, <1>3
  <2>2. Kept(full, pool', {victim})
    BY Zenon, <1>1, <1>6, <2>1, RemoveRecursiveFacts
  <2> DEFINE R == full.mapTx \ {victim}
  <2>3. IsFiniteSet(R) /\ Cardinality(R) = Cardinality(full.mapTx) - 1
    BY Zenon, <1>4, FS_RemoveElement
  <2>4. pool'.mapTx \in SUBSET R
    BY Zenon, <2>2 DEF Kept
  <2> HIDE DEF R
  <2>5. Cardinality(pool'.mapTx) <= Cardinality(R) /\ Cardinality(pool'.mapTx) \in Nat
    BY Zenon, <2>3, <2>4, FS_Subset, FS_CardinalityType
  <2>6. Cardinality(pool'.mapTx) <= Capacity
    BY <1>3, <1>4, <2>3, <2>5, MempoolAssumption
  <2>7. QED
    BY Zenon, <1>1, <1>6, <2>2, <2>6 DEF Kept
<1>7. QED
  BY Zenon, <1>2, <1>5, <1>6
-----------------------------------------------------------------------------
(* The steps of Mempool *)

\* What the invariant says of heights and sets.
LEMMA StateFacts ==
    ASSUME Inv
    PROVE  /\ tip \in Blocks /\ coins \in Blocks /\ target \in Blocks
           /\ Height(tip) \in Nat /\ pool.mapTx \subseteq Txs
           /\ IsFiniteSet(pool.mapTx) /\ Cardinality(pool.mapTx) \in Nat
           /\ phase # "resurrect" => coins = tip /\ Range(todo) = {}
           /\ Roots(coins) \subseteq Roots(tip)
<1>1. tip \in Blocks /\ coins \in Blocks /\ target \in Blocks
  BY Zenon DEF Inv, TypeOK
<1>2. Height(tip) \in Nat
  BY Zenon, <1>1, HeightFacts
<1>3. pool.mapTx \subseteq Txs
  BY Zenon, MatchingFacts DEF Inv
<1>4. IsFiniteSet(pool.mapTx) /\ Cardinality(pool.mapTx) \in Nat
  BY Zenon, <1>3, MempoolAssumption, FS_Subset, FS_CardinalityType
<1>5. phase # "resurrect" => coins = tip /\ Range(todo) = {}
  BY DEF Inv, TypeOK, Range
<1>6. Roots(coins) \subseteq Roots(tip)
  <2>1. CASE phase = "resurrect"
    <3>1. tip # Genesis /\ coins = Parent[tip]
      BY Zenon, <2>1 DEF Inv, CallInv
    <3>2. QED
      BY <1>1, <3>1, BlockContents
  <2>2. CASE phase # "resurrect"
    BY Zenon, <1>5, <2>2
  <2>3. QED
    BY Zenon, <2>1, <2>2
<1>7. QED
  BY Zenon, <1>1, <1>2, <1>3, <1>4, <1>5, <1>6

\* A removal keeps within the limit, and takes nothing in.
LEMMA SmallerPool ==
    ASSUME Inv, NEW S, Kept(pool, pool', S)
    PROVE  pool'.mapTx \subseteq Txs \ Coinbases /\ Cardinality(pool'.mapTx) <= Capacity
<1>1. pool'.mapTx \in SUBSET pool.mapTx
  BY Zenon DEF Kept
<1>2. Cardinality(pool'.mapTx) <= Cardinality(pool.mapTx) /\ Cardinality(pool'.mapTx) \in Nat
  BY Zenon, <1>1, StateFacts, FS_Subset, FS_CardinalityType
<1>3. QED
  BY SMTT(20), <1>1, <1>2, StateFacts, MempoolAssumption DEF Inv, TypeOK

\* The rest of the transactions of a disconnected block.
LEMMA RestOfTodo ==
    ASSUME NEW s \in Seq(Txs), s # <<>>
    PROVE  /\ Head(s) \in Txs /\ Tail(s) \in Seq(Txs)
           /\ Range(s) = {Head(s)} \cup Range(Tail(s))
<1>1. Len(s) \in Nat \ {0} /\ Head(s) = s[1] /\ \A i \in 1 .. Len(s) : s[i] \in Txs
  OBVIOUS
<1>2. Tail(s) \in Seq(Txs) /\ Len(Tail(s)) = Len(s) - 1 /\ \A i \in 1 .. Len(s) - 1 : Tail(s)[i] = s[i + 1]
  OBVIOUS
<1>3. Range(s) = {s[i] : i \in 1 .. Len(s)}
  BY DEF Range
<1>4. Range(Tail(s)) = {Tail(s)[i] : i \in 1 .. Len(s) - 1}
  <2>1. DOMAIN Tail(s) = 1 .. Len(s) - 1
    BY <1>2
  <2>2. QED
    BY Zenon, <2>1 DEF Range
<1>5. ASSUME NEW i \in 1 .. Len(s) PROVE s[i] \in {Head(s)} \cup Range(Tail(s))
  <2>1. CASE i = 1
    BY Zenon, <1>1, <2>1
  <2>2. CASE i # 1
    <3>1. i - 1 \in 1 .. Len(s) - 1 /\ Tail(s)[i - 1] = s[i]
      BY <1>1, <1>2, <2>2
    <3>2. QED
      BY Zenon, <1>4, <3>1
  <2>3. QED
    BY Zenon, <2>1, <2>2
<1>6. ASSUME NEW i \in 1 .. Len(s) - 1 PROVE Tail(s)[i] \in Range(s)
  BY <1>1, <1>2, <1>3
<1>7. Head(s) \in Range(s)
  BY <1>1, <1>3
<1>8. QED
  BY <1>1, <1>2, <1>3, <1>4, <1>5, <1>6, <1>7

\* A transaction that passes the checks and is not in the pool is not in the
\* chain either: had it been mined, an input of it would be spent or a nullifier.
LEMMA AcceptableIsNew ==
    ASSUME Inv, NEW t \in Txs, NEW h, Acceptable(pool, t, coins, h)
    PROVE  t \notin Confirmed(coins)
<1>1. SUFFICES ASSUME t \in Confirmed(coins) PROVE FALSE
  BY Zenon
<1>2. /\ t \notin Coinbases /\ Inputs[t] \subseteq pool.mapTx \cup Unspent(coins)
      /\ Nullifiers[t] \cap Spent(coins) = {}
  BY Zenon DEF Acceptable, Eligible, InputsFound
<1>3. coins \in Blocks /\ pool.mapTx \cap Confirmed(coins) = {}
  BY Zenon DEF Inv, TypeOK
<1>4. Inputs[t] \subseteq Confirmed(coins) /\ Nullifiers[t] \subseteq Spent(coins)
  BY Zenon, <1>1, <1>3, ChainAssumption, UnspentFacts
<1>5. \A o \in Inputs[t] : o \notin Unspent(coins)
  BY Zenon, <1>1, <1>3, UnspentFacts
<1>6. Inputs[t] \cup Nullifiers[t] # {}
  BY Zenon, <1>2, MempoolAssumption
<1>7. QED
  BY Zenon, <1>2, <1>3, <1>4, <1>5, <1>6

\* AcceptToMemoryPool takes a transaction in: outside of a call, or while the
\* transactions of a disconnected block are resurrected.
LEMMA AcceptStep ==
    ASSUME Inv, NEW t \in Txs, Acceptable(pool, t, coins, Height(tip) + 1), AddAndLimit(pool, t),
           UNCHANGED <<tip, coins, target, phase, disconnected>>,
           \/ phase = "settled" /\ todo' = todo
           \/ phase = "resurrect" /\ todo # <<>> /\ t = Head(todo) /\ todo' = Tail(todo)
    PROVE  Inv'
<1>1. /\ Matching(pool) /\ Cardinality(pool.mapTx) <= Capacity /\ pool.mapTx \subseteq Txs \ Coinbases
      /\ evicted \subseteq Txs \ Coinbases /\ todo \in Seq(Txs) /\ pool.mapTx \cap Confirmed(coins) = {}
      /\ \A u \in pool.mapTx : Fits(u)
  BY Zenon DEF Inv, TypeOK, CallInv
<1>2. t \notin Coinbases \cup pool.mapTx
  BY Zenon DEF Acceptable, Eligible
<1>3. Inputs[t] \cap DOMAIN pool.mapNextTx = {} /\ Nullifiers[t] \cap DOMAIN pool.nullifiers = {}
  BY Zenon DEF Acceptable, Eligible
<1>4. /\ Matching(pool') /\ pool'.mapTx \subseteq pool.mapTx \cup {t}
      /\ \A u \in pool'.mapTx : Inputs[u] \cap (pool.mapTx \cup {t}) \subseteq pool'.mapTx
      /\ Cardinality(pool'.mapTx) <= Capacity
      /\ evicted' \subseteq evicted \cup pool.mapTx \cup {t}
  BY Zenon, <1>1, <1>2, <1>3, AddAndLimitFacts
<1>5. todo' \in Seq(Txs) /\ Range(todo) \subseteq Range(todo') \cup {t} /\ Range(todo') \subseteq Range(todo)
  BY Zenon, <1>1, RestOfTodo
<1>6. TypeOK'
  BY Zenon, <1>1, <1>2, <1>4 DEF Inv, TypeOK
<1>7. CallInv'
  BY Zenon, <1>5 DEF Inv, CallInv
<1>8. (pool.mapTx \cap Confirmed(coins))' = {}
  <2>1. Confirmed(coins)' = Confirmed(coins)
    BY Zenon DEF Confirmed
  <2>2. QED
    BY Zenon, <1>1, <1>4, <2>1, AcceptableIsNew
<1>9. ASSUME NEW u \in pool'.mapTx PROVE Fits(u)'
  <2>1. CASE u = t
    <3>1. Inputs[t] \subseteq pool.mapTx \cup Unspent(coins)
      BY Zenon DEF Acceptable, InputsFound
    <3>2. Nullifiers[t] \cap Spent(coins) = {} /\ Anchors[t] \subseteq Roots(tip)
      BY Zenon, StateFacts DEF Acceptable
    <3>3. ~IsExpiredTx(t, Height(tip))
      <4>1. ~IsExpiredTx(t, Height(tip) + 1 + Soon)
        BY Zenon DEF Acceptable, Eligible
      <4>2. QED
        BY SMTT(20), <4>1, StateFacts, MempoolAssumption DEF IsExpiredTx
    <3>4. Branch[t] = Epoch(Height(tip) + 1) /\ IsFinalTx(t, Height(tip) + 1) /\ Mature(t, coins)
      BY Zenon DEF Acceptable, Eligible
    <3>5. phase # "resurrect" => Mature(t, tip)
      BY Zenon, <3>4, StateFacts
    <3>6. (Inputs[t] \subseteq pool.mapTx \cup Unspent(coins) \cup Range(todo))'
      BY Zenon, <1>4, <1>9, <2>1, <3>1 DEF Unspent
    <3>7. QED
      BY Zenon, <2>1, <3>2, <3>3, <3>4, <3>5, <3>6
         DEF Fits, Unspent, Spent, Confirmed, Roots, IsExpiredTx, Mature, IsFinalTx
  <2>2. CASE u # t
    <3>1. u \in pool.mapTx /\ Fits(u)
      BY Zenon, <1>1, <1>4, <2>2
    <3>2. (Inputs[u] \subseteq pool.mapTx \cup Unspent(coins) \cup Range(todo))'
      BY Zenon, <1>4, <1>5, <3>1 DEF Fits, Unspent
    <3>3. QED
      BY Zenon, <3>1, <3>2 DEF Fits, Spent, Confirmed, Roots, IsExpiredTx, Mature, IsFinalTx, Unspent
  <2>3. QED
    BY Zenon, <2>1, <2>2
<1>10. QED
  BY Zenon, <1>4, <1>6, <1>7, <1>8, <1>9 DEF Inv

\* A transaction of a disconnected block that is refused is removed with what
\* depends on it.
LEMMA RefuseStep ==
    ASSUME Inv, phase = "resurrect", todo # <<>>,
           pool' = removeRecursive(pool, {Head(todo)}), todo' = Tail(todo),
           UNCHANGED <<tip, coins, evicted, target, phase, disconnected>>
    PROVE  Inv'
<1>1. todo \in Seq(Txs) /\ Matching(pool)
  BY Zenon DEF Inv, CallInv
<1>2. {Head(todo)} \in SUBSET Txs /\ todo' \in Seq(Txs) /\ Range(todo) = {Head(todo)} \cup Range(todo')
  BY Zenon, <1>1, RestOfTodo
<1>3. Kept(pool, pool', {Head(todo)})
  BY Zenon, <1>1, <1>2, RemoveRecursiveFacts
<1>4. TypeOK'
  BY Zenon, <1>3, SmallerPool DEF Inv, TypeOK
<1>5. CallInv'
  BY Zenon, <1>2 DEF Inv, CallInv
<1>6. (pool.mapTx \cap Confirmed(coins))' = {}
  BY Zenon, <1>3 DEF Inv, Kept, Confirmed
<1>7. ASSUME NEW u \in pool'.mapTx PROVE Fits(u)'
  <2>1. u \in pool.mapTx /\ Inputs[u] \cap {Head(todo)} = {} /\ Inputs[u] \cap pool.mapTx \subseteq pool'.mapTx
    BY Zenon, <1>3, <1>7 DEF Kept
  <2>2. Fits(u)
    BY Zenon, <2>1 DEF Inv
  <2>3. (Inputs[u] \subseteq pool.mapTx \cup Unspent(coins) \cup Range(todo))'
    BY Zenon, <1>2, <2>1, <2>2 DEF Fits, Unspent
  <2>4. QED
    BY Zenon, <2>2, <2>3 DEF Fits, Spent, Confirmed, Roots, IsExpiredTx, Mature, IsFinalTx, Unspent
<1>8. QED
  BY Zenon, <1>3, <1>4, <1>5, <1>6, <1>7 DEF Inv, Kept

\* DisconnectTip steps the coins back: the outputs of the block are to be
\* resurrected now.
LEMMA DisconnectStep ==
    ASSUME Inv, DisconnectBlock
    PROVE  Inv'
<1> DEFINE a == Parent[tip]
<1>1. /\ phase = "step" /\ coins' = a /\ todo' = TxsOf[tip] /\ phase' = "resurrect"
      /\ UNCHANGED <<tip, pool, evicted, target, disconnected>>
  BY Zenon DEF DisconnectBlock
<1>2. /\ tip \in Blocks \ {Genesis} /\ a \in Blocks
  BY StateFacts, ChainFacts DEF DisconnectBlock
<1>3. coins = tip /\ Range(todo) = {}
  BY Zenon, <1>1, StateFacts
<1>4. TxsOf[tip] \in Seq(Txs)
  BY Zenon, <1>2, MempoolAssumption
<1>5. /\ Confirmed(tip) = Confirmed(a) \cup Range(TxsOf[tip])
      /\ Spent(a) \subseteq Spent(tip)
  BY <1>2, BlockContents
<1>6. Unspent(tip) \subseteq Unspent(a) \cup Range(TxsOf[tip])
  BY Zenon, <1>2, <1>5, UnspentFacts
<1>7. TypeOK'
  BY Zenon, <1>1, <1>2 DEF Inv, TypeOK
<1>8. CallInv'
  BY Zenon, <1>1, <1>2, <1>4 DEF CallInv
<1> HIDE DEF a
<1>9. (pool.mapTx \cap Confirmed(coins))' = {}
  <2>1. Confirmed(coins)' = Confirmed(a)
    BY Zenon, <1>1 DEF Confirmed
  <2>2. QED
    BY Zenon, <1>1, <1>3, <1>5, <2>1 DEF Inv
<1>10. ASSUME NEW u \in pool.mapTx PROVE Fits(u)'
  <2>1. Fits(u)
    BY Zenon DEF Inv
  <2>2. Inputs[u] \subseteq pool.mapTx \cup Unspent(a) \cup Range(TxsOf[tip])
    BY Zenon, <1>3, <1>6, <2>1 DEF Fits
  <2>3. Nullifiers[u] \cap Spent(a) = {}
    BY Zenon, <1>3, <1>5, <2>1 DEF Fits
  <2>4. Unspent(coins)' = Unspent(a) /\ Spent(coins)' = Spent(a)
    BY Zenon, <1>1 DEF Unspent, Spent, Confirmed
  <2>5. QED
    BY Zenon, <1>1, <2>1, <2>2, <2>3, <2>4 DEF Fits, Roots, IsExpiredTx
<1>11. QED
  BY Zenon, <1>1, <1>7, <1>8, <1>9, <1>10 DEF Inv, Matching

\* The treestate and the tip follow: what spends from the treestate of the block
\* goes, unless the block did not change it.
LEMMA FinishStep ==
    ASSUME Inv, FinishDisconnect
    PROVE  Inv'
<1>1. /\ phase = "resurrect" /\ todo = <<>> /\ tip' = coins /\ disconnected' = TRUE /\ phase' = "step"
      /\ pool' = IF Root[tip] # Root[coins] THEN removeWithAnchor(pool, Root[tip]) ELSE pool
      /\ UNCHANGED <<coins, evicted, target, todo>>
  BY Zenon DEF FinishDisconnect
<1>2. tip \in Blocks \ {Genesis} /\ coins = Parent[tip] /\ coins \in Blocks /\ Matching(pool)
  BY Zenon, <1>1, StateFacts DEF Inv, CallInv
<1>3. Roots(tip) = Roots(coins) \cup {Root[tip]} /\ Root[coins] \in Roots(coins)
  BY Zenon, <1>2, BlockContents, ChainFacts DEF Roots
<1>4. Height(tip) = Height(coins) + 1 /\ Height(coins) \in Nat
  BY Zenon, <1>2, HeightFacts
<1>5. /\ Kept(pool, pool', {})
      /\ \A u \in pool'.mapTx : Root[tip] \notin Anchors[u] \/ Root[tip] = Root[coins]
  <2>1. CASE Root[tip] = Root[coins]
    BY Zenon, <1>1, <1>2, <2>1, KeptFacts
  <2>2. CASE Root[tip] # Root[coins]
    <3> DEFINE S == {t \in pool.mapTx : Root[tip] \in Anchors[t]}
    <3>1. pool' = removeRecursive(pool, S) /\ S \in SUBSET Txs
      BY Zenon, <1>1, <2>2, StateFacts DEF removeWithAnchor
    <3>2. Kept(pool, pool', S)
      <4> HIDE DEF S
      <4>1. QED
        BY Zenon, <1>2, <3>1, RemoveRecursiveFacts
    <3>3. QED
      BY Zenon, <3>2 DEF Kept
  <2>3. QED
    BY Zenon, <2>1, <2>2
<1>6. TypeOK'
  BY Zenon, <1>1, <1>5, SmallerPool DEF Inv, TypeOK
<1>7. CallInv'
  BY Zenon, <1>1 DEF Inv, CallInv
<1>8. (pool.mapTx \cap Confirmed(coins))' = {}
  BY Zenon, <1>1, <1>5 DEF Inv, Kept, Confirmed
<1>9. ASSUME NEW u \in pool'.mapTx PROVE Fits(u)'
  <2>1. u \in pool.mapTx /\ Inputs[u] \cap pool.mapTx \subseteq pool'.mapTx
    BY Zenon, <1>5, <1>9 DEF Kept
  <2>2. Fits(u) /\ u \in Txs
    BY Zenon, <2>1, StateFacts DEF Inv
  <2>3. (Inputs[u] \subseteq pool.mapTx \cup Unspent(coins) \cup Range(todo))'
    BY Zenon, <1>1, <2>1, <2>2 DEF Fits, Unspent
  <2>4. Anchors[u] \subseteq Roots(coins)
    BY Zenon, <1>3, <1>5, <1>9, <2>2 DEF Fits
  <2>5. ~IsExpiredTx(u, Height(coins))
    BY SMTT(20), <1>4, <2>2, MempoolAssumption DEF Fits, IsExpiredTx
  <2>6. Roots(tip)' = Roots(coins)
    BY Zenon, <1>1 DEF Roots
  <2>7. QED
    BY Zenon, <1>1, <2>2, <2>3, <2>4, <2>5, <2>6 DEF Fits, Spent, Confirmed, IsExpiredTx
<1>10. QED
  BY Zenon, <1>5, <1>6, <1>7, <1>8, <1>9 DEF Inv, Kept

\* What was mature and final for a block on top of the tip is for one on top of
\* the next block.
LEMMA MatureLater ==
    ASSUME NEW b \in Blocks \ {Genesis}, NEW t \in Txs, Mature(t, Parent[b]),
           Inputs[t] \cap Coinbases \cap Unspent(b) \subseteq Unspent(Parent[b])
    PROVE  Mature(t, b)
<1>1. Parent[b] \in Blocks /\ Height(b) = Height(Parent[b]) + 1 /\ Height(Parent[b]) \in Nat
  BY Zenon, ChainFacts, HeightFacts
<1>2. SUFFICES ASSUME NEW i \in Inputs[t] \cap Coinbases \cap Unspent(b)
               PROVE  Height(b) + 1 - HeightOf(i, b) >= Maturity
  BY Zenon DEF Mature
<1>3. i \in Unspent(Parent[b]) /\ i \in Confirmed(Parent[b])
  BY Zenon, <1>1, <1>2, UnspentFacts
<1>4. HeightOf(i, b) = HeightOf(i, Parent[b]) /\ HeightOf(i, b) \in Nat
  BY Zenon, <1>3, HeightOfFacts
<1>5. Height(Parent[b]) + 1 - HeightOf(i, Parent[b]) >= Maturity
  BY Zenon, <1>2, <1>3 DEF Mature
<1>6. QED
  BY SMTT(20), <1>1, <1>4, <1>5, MempoolAssumption

\* A block is connected on top of the tip.
LEMMA ConnectStep ==
    ASSUME Inv, ConnectTip
    PROVE  Inv'
<1> DEFINE b == Towards(tip, target)
           m == removeForBlock(pool, b)
           T == Range(TxsOf[b])
<1>1. /\ phase = "step" /\ tip' = b /\ coins' = b /\ pool' = removeExpired(m, Height(b))
      /\ UNCHANGED <<evicted, target, phase, todo, disconnected>>
  BY Zenon DEF ConnectTip
<1>2. coins = tip /\ Range(todo) = {} /\ Matching(pool) /\ pool.mapTx \cap Confirmed(tip) = {}
  BY Zenon, <1>1, StateFacts DEF Inv
<1>3. b \in Blocks \ {Genesis} /\ Parent[b] = tip
  BY Zenon, StateFacts, TowardsFacts DEF ConnectTip
<1> HIDE DEF b
<1>4. /\ Matching(m) /\ m.mapTx \subseteq pool.mapTx \ T
      /\ \A u \in m.mapTx :
           /\ Inputs[u] \cap pool.mapTx \subseteq m.mapTx \cup T
           /\ \A t \in T : Inputs[u] \cap Inputs[t] = {} /\ Nullifiers[u] \cap Nullifiers[t] = {}
  BY Zenon, <1>2, <1>3, RemoveForBlockFacts
<1> HIDE DEF m
<1>5. Matching(pool') /\ pool'.mapTx \subseteq m.mapTx
      /\ \A u \in pool'.mapTx : ~IsExpiredTx(u, Height(b)) /\ Inputs[u] \cap m.mapTx \subseteq pool'.mapTx
  <2> DEFINE S == {t \in m.mapTx : IsExpiredTx(t, Height(b))}
  <2>1. pool' = removeRecursive(m, S) /\ S \in SUBSET Txs
    BY Zenon, <1>1, <1>4, MatchingFacts DEF removeExpired
  <2>2. Kept(m, pool', S)
    <3> HIDE DEF S
    <3>1. QED
      BY Zenon, <1>4, <2>1, RemoveRecursiveFacts
  <2>3. QED
    BY Zenon, <2>2 DEF Kept
<1>6. /\ Confirmed(b) = Confirmed(tip) \cup T /\ T \cap Confirmed(tip) = {}
      /\ Spent(b) = Spent(tip) \cup UNION {Nullifiers[t] : t \in T}
      /\ Roots(tip) \subseteq Roots(b)
  BY <1>3, BlockContents
<1>7. Height(b) = Height(tip) + 1 /\ Height(tip) \in Nat
  BY Zenon, <1>3, HeightFacts, StateFacts
<1> HIDE DEF T
<1>8. TypeOK'
  <2>1. pool'.mapTx \subseteq pool.mapTx
    BY Zenon, <1>4, <1>5
  <2>2. pool'.mapTx \in SUBSET pool.mapTx
    BY Zenon, <2>1
  <2>3. Cardinality(pool'.mapTx) <= Cardinality(pool.mapTx) /\ Cardinality(pool'.mapTx) \in Nat
    BY Zenon, <2>2, StateFacts, FS_Subset, FS_CardinalityType
  <2>4. Cardinality(pool'.mapTx) <= Capacity
    BY SMTT(20), <2>3, StateFacts, MempoolAssumption DEF Inv, TypeOK
  <2>5. QED
    BY Zenon, <1>1, <1>3, <2>1, <2>4 DEF Inv, TypeOK
<1>9. CallInv'
  BY Zenon, <1>1 DEF Inv, CallInv
<1>10. (pool.mapTx \cap Confirmed(coins))' = {}
  <2>1. Confirmed(coins)' = Confirmed(b)
    BY Zenon, <1>1 DEF Confirmed
  <2>2. QED
    BY Zenon, <1>2, <1>4, <1>5, <1>6, <2>1
<1>11. ASSUME NEW u \in pool'.mapTx PROVE Fits(u)'
  <2>1. u \in m.mapTx /\ u \in pool.mapTx /\ u \in Txs
    BY Zenon, <1>4, <1>5, StateFacts
  <2>2. Fits(u)
    BY Zenon, <2>1 DEF Inv
  <2>3. /\ Inputs[u] \cap pool.mapTx \subseteq pool'.mapTx \cup T
        /\ \A t \in T : Inputs[u] \cap Inputs[t] = {} /\ Nullifiers[u] \cap Nullifiers[t] = {}
    BY Zenon, <1>4, <1>5, <2>1
  <2>4. Inputs[u] \subseteq pool.mapTx \cup Unspent(tip)
    BY Zenon, <1>2, <2>2 DEF Fits
  <2>5. ASSUME NEW i \in Inputs[u] PROVE i \in pool'.mapTx \cup Unspent(b)
    <3>1. i \in pool'.mapTx \/ i \in T \/ i \in Unspent(tip)
      BY Zenon, <2>3, <2>4
    <3>2. \A t \in T : i \notin Inputs[t]
      BY Zenon, <2>3
    <3>3. CASE i \in T
      <4>1. \A t \in Confirmed(tip) : i \notin Inputs[t]
        BY Zenon, <1>6, <3>3, StateFacts, ChainAssumption
      <4>2. QED
        BY Zenon, <1>3, <1>6, <3>2, <3>3, <4>1, UnspentFacts
    <3>4. CASE i \in Unspent(tip)
      <4>1. i \in Confirmed(tip) /\ \A t \in Confirmed(tip) : i \notin Inputs[t]
        BY Zenon, <3>4, StateFacts, UnspentFacts
      <4>2. QED
        BY Zenon, <1>3, <1>6, <3>2, <4>1, UnspentFacts
    <3>5. QED
      BY Zenon, <3>1, <3>3, <3>4
  <2>6. Nullifiers[u] \cap Spent(b) = {}
    BY SMTT(20), <1>2, <1>6, <2>2, <2>3 DEF Fits
  <2>7. Anchors[u] \subseteq Roots(b)
    BY Zenon, <1>6, <2>2 DEF Fits
  <2>8. ~disconnected => Mature(u, b) /\ IsFinalTx(u, Height(b) + 1)
    <3>1. SUFFICES ASSUME ~disconnected PROVE Mature(u, b) /\ IsFinalTx(u, Height(b) + 1)
      BY Zenon
    <3>2. Mature(u, tip) /\ IsFinalTx(u, Height(tip) + 1)
      BY Zenon, <1>1, <2>2, <3>1 DEF Fits
    <3>3. Inputs[u] \cap Coinbases \subseteq Unspent(tip)
      BY Zenon, <2>4 DEF Inv, TypeOK
    <3>4. Mature(u, b)
      BY Zenon, <1>3, <2>1, <3>2, <3>3, MatureLater
    <3>5. IsFinalTx(u, Height(b) + 1)
      BY <1>7, <2>1, <3>2, MempoolAssumption DEF IsFinalTx
    <3>6. QED
      BY Zenon, <3>4, <3>5
  <2>9. /\ Unspent(coins)' = Unspent(b) /\ Spent(coins)' = Spent(b) /\ Roots(tip)' = Roots(b)
        /\ Height(tip)' = Height(b)
    BY Zenon, <1>1 DEF Unspent, Spent, Confirmed, Roots
  <2>10. ~IsExpiredTx(u, Height(b))
    BY Zenon, <1>5, <1>11
  <2>11. QED
    BY Zenon, <1>1, <2>5, <2>6, <2>7, <2>8, <2>9, <2>10 DEF Fits, IsExpiredTx, IsFinalTx, Mature
<1>12. QED
  BY Zenon, <1>5, <1>8, <1>9, <1>10, <1>11 DEF Inv

\* The end of the call: after a disconnect removeForReorg decides again what the
\* height decides, and in any case the epoch is that of the next block.
LEMMA EndStepStep ==
    ASSUME Inv, EndStep
    PROVE  Inv'
<1> DEFINE h == Height(tip) + 1
           m == IF disconnected THEN removeForReorg(pool, coins, h) ELSE pool
<1>1. /\ phase = "step" /\ target' = tip /\ phase' = "settled" /\ disconnected' = FALSE
      /\ pool' = removeWithoutBranchId(m, Epoch(h))
      /\ UNCHANGED <<tip, coins, evicted, todo>>
  BY Zenon DEF EndStep
<1>2. coins = tip /\ Range(todo) = {} /\ Matching(pool) /\ \A u \in pool.mapTx : Fits(u)
  BY Zenon, <1>1, StateFacts DEF Inv
<1>3. Kept(pool, m, {}) /\ \A u \in m.mapTx : Mature(u, tip) /\ IsFinalTx(u, h)
  <2>1. CASE ~disconnected
    <3>1. m = pool
      BY Zenon, <2>1
    <3>2. \A u \in pool.mapTx : Mature(u, tip) /\ IsFinalTx(u, h)
      BY Zenon, <1>1, <1>2, <2>1 DEF Fits
    <3>3. QED
      BY Zenon, <1>2, <3>1, <3>2, KeptFacts
  <2>2. CASE disconnected
    <3> DEFINE S == {t \in pool.mapTx :
                       \/ ~IsFinalTx(t, h)
                       \/ /\ Inputs[t] \cap Coinbases # {}
                          /\ \/ ~(Inputs[t] \ pool.mapTx \subseteq Unspent(coins))
                             \/ ~Mature(t, coins)}
    <3>1. m = removeRecursive(pool, S)
      BY Zenon, <2>2 DEF removeForReorg
    <3>2. S \in SUBSET Txs
      BY Zenon, StateFacts
    <3>3. \A u \in pool.mapTx \ S : IsFinalTx(u, h) /\ (Inputs[u] \cap Coinbases = {} \/ Mature(u, tip))
      BY Zenon, <1>2
    <3> HIDE DEF S, m
    <3>4. Kept(pool, m, S)
      BY Zenon, <1>2, <3>1, <3>2, RemoveRecursiveFacts
    <3>5. \A u : Inputs[u] \cap Coinbases = {} => Mature(u, tip)
      BY Zenon DEF Mature
    <3>6. QED
      BY Zenon, <3>3, <3>4, <3>5 DEF Kept
  <2>3. QED
    BY Zenon, <2>1, <2>2
<1> HIDE DEF m
<1>4. Kept(pool, pool', {}) /\ pool'.mapTx \subseteq m.mapTx /\ \A u \in pool'.mapTx : Branch[u] = Epoch(h)
  <2> DEFINE S == {t \in m.mapTx : Branch[t] # Epoch(h)}
  <2>1. pool' = removeRecursive(m, S) /\ Matching(m)
    BY Zenon, <1>1, <1>3 DEF removeWithoutBranchId, Kept
  <2>2. S \in SUBSET Txs
    BY Zenon, <2>1, MatchingFacts
  <2>3. \A u \in m.mapTx \ S : Branch[u] = Epoch(h)
    BY Zenon
  <2> HIDE DEF S
  <2>4. Kept(m, pool', S)
    BY Zenon, <2>1, <2>2, RemoveRecursiveFacts
  <2>5. Kept(pool, pool', {})
    BY Zenon, <1>3, <2>4, KeptFacts
  <2>6. QED
    BY Zenon, <2>3, <2>4, <2>5 DEF Kept
<1>5. TypeOK'
  BY Zenon, <1>1, <1>4, SmallerPool DEF Inv, TypeOK
<1>6. CallInv'
  BY Zenon, <1>1 DEF Inv, CallInv
<1>7. (pool.mapTx \cap Confirmed(coins))' = {}
  BY Zenon, <1>1, <1>4 DEF Inv, Kept, Confirmed
<1>8. ASSUME NEW u \in pool'.mapTx PROVE Fits(u)'
  <2>1. u \in pool.mapTx /\ Inputs[u] \cap pool.mapTx \subseteq pool'.mapTx
    BY Zenon, <1>4, <1>8 DEF Kept
  <2>2. Fits(u)
    BY Zenon, <1>2, <2>1
  <2>3. (Inputs[u] \subseteq pool.mapTx \cup Unspent(coins) \cup Range(todo))'
    BY Zenon, <1>1, <2>1, <2>2 DEF Fits, Unspent
  <2>4. Mature(u, tip) /\ IsFinalTx(u, h) /\ Branch[u] = Epoch(h)
    BY Zenon, <1>3, <1>4, <1>8
  <2>5. QED
    BY Zenon, <1>1, <2>2, <2>3, <2>4 DEF Fits, Spent, Confirmed, Roots, IsExpiredTx, IsFinalTx, Mature, Unspent
<1>9. QED
  BY Zenon, <1>4, <1>5, <1>6, <1>7, <1>8 DEF Inv, Kept

\* The pool starts empty.
LEMMA InitInv == Init => Inv
<1> SUFFICES ASSUME Init PROVE Inv
  BY Zenon
<1>1. /\ tip = Genesis /\ coins = Genesis /\ pool = EmptyPool /\ evicted = {}
      /\ target = Genesis /\ phase = "settled" /\ todo = <<>> /\ disconnected = FALSE
  BY Zenon DEF Init
<1>2. pool.mapTx = {} /\ pool.mapNextTx = [o \in {} |-> o] /\ pool.nullifiers = [n \in {} |-> n]
  BY Zenon, <1>1 DEF EmptyPool
<1>3. Cardinality({}) = 0
  BY Zenon, FS_EmptySet
<1>4. TypeOK
  <2>1. 0 <= Capacity
    BY MempoolAssumption
  <2>2. {tip, coins, target} \subseteq Blocks
    BY Zenon, <1>1, ChainFacts
  <2>3. pool.mapTx \subseteq Txs \ Coinbases /\ Cardinality(pool.mapTx) <= Capacity /\ evicted \subseteq Txs \ Coinbases
    BY Zenon, <1>1, <1>2, <1>3, <2>1
  <2>4. QED
    BY Zenon, <1>1, <2>2, <2>3 DEF TypeOK
<1>5. pool \in Pools
  <2>1. [o \in {} |-> o] \in Maps(Txs, Txs) /\ [o \in {} |-> o] \in Maps(AllNullifiers, Txs)
    <3>1. \A K : [o \in {} |-> o] \in Maps(K, Txs)
      <4> SUFFICES ASSUME NEW K PROVE [o \in {} |-> o] \in Maps(K, Txs)
        BY Zenon
      <4>1. [o \in {} |-> o] \in [{} -> Txs] /\ {} \in SUBSET K
        BY Zenon
      <4>2. QED
        BY Zenon, <4>1 DEF Maps
    <3>2. QED
      BY Zenon, <3>1
  <2>2. QED
    BY Zenon, <1>1, <2>1 DEF Pools, EmptyPool
<1>6. Links(pool)
  BY Zenon, <1>2 DEF Links
<1>7. CallInv
  BY <1>1 DEF CallInv
<1>8. QED
  BY Zenon, <1>2, <1>4, <1>5, <1>6, <1>7 DEF Inv, Matching

\* What the invariant says depends on no variable but those of Mempool.
LEMMA InvFrame ==
    ASSUME Inv, UNCHANGED vars
    PROVE  Inv'
  BY Zenon DEF Inv, vars, TypeOK, Matching, Pools, Links, CallInv, Fits, Confirmed, Unspent, Spent, Roots, Mature,
         IsFinalTx, IsExpiredTx

\* Every step of Mempool keeps the invariant.
LEMMA NextInv == Inv /\ Next => Inv'
<1> SUFFICES ASSUME Inv, Next PROVE Inv'
  BY Zenon
<1>1. ASSUME NEW t \in Txs, AcceptToMemoryPool(t) PROVE Inv'
  BY Zenon, <1>1, AcceptStep DEF AcceptToMemoryPool
<1>2. ASSUME NEW t \in Txs, Forget(t) PROVE Inv'
  <2>1. evicted' \subseteq evicted /\ UNCHANGED <<tip, coins, pool, target, phase, todo, disconnected>>
    BY Zenon, <1>2 DEF Forget
  <2>2. TypeOK'
    BY Zenon, <2>1 DEF Inv, TypeOK
  <2>3. QED
    BY Zenon, <2>1, <2>2 DEF Inv, Matching, Pools, Links, CallInv, Fits, Confirmed, Unspent, Spent, Roots, Mature,
                      IsFinalTx, IsExpiredTx
<1>3. ASSUME NEW b \in Blocks, BeginActivate(b) \/ InvalidateBlock(b) PROVE Inv'
  <2>1. /\ phase = "settled" /\ phase' = "step" /\ target' \in Blocks
        /\ UNCHANGED <<tip, coins, pool, evicted, todo, disconnected>>
    BY Zenon, <1>3, StateFacts, ChainFacts DEF BeginActivate, InvalidateBlock
  <2>2. TypeOK' /\ CallInv'
    BY Zenon, <2>1 DEF Inv, TypeOK, CallInv
  <2>3. ASSUME NEW u \in pool.mapTx PROVE Fits(u)'
    BY Zenon, <2>1 DEF Inv, Fits, Confirmed, Unspent, Spent, Roots, Mature, IsFinalTx, IsExpiredTx
  <2>4. QED
    BY Zenon, <2>1, <2>2, <2>3 DEF Inv, Matching, Pools, Links, Confirmed
<1>4. CASE DisconnectBlock
  BY Zenon, <1>4, DisconnectStep
<1>5. CASE Resurrect
  <2> DEFINE t == Head(todo)
  <2>1. /\ phase = "resurrect" /\ todo # <<>> /\ todo' = Tail(todo)
        /\ UNCHANGED <<tip, coins, target, phase, disconnected>>
        /\ \/ Acceptable(pool, t, coins, Height(tip) + 1) /\ AddAndLimit(pool, t)
           \/ pool' = removeRecursive(pool, {t}) /\ UNCHANGED evicted
    BY Zenon, <1>5 DEF Resurrect
  <2>2. t \in Txs
    BY Zenon, <2>1, RestOfTodo DEF Inv, CallInv
  <2>3. CASE Acceptable(pool, t, coins, Height(tip) + 1) /\ AddAndLimit(pool, t)
    BY Zenon, <2>1, <2>2, <2>3, AcceptStep
  <2>4. CASE pool' = removeRecursive(pool, {t}) /\ UNCHANGED evicted
    BY Zenon, <2>1, <2>4, RefuseStep
  <2>5. QED
    BY Zenon, <2>1, <2>3, <2>4
<1>6. CASE FinishDisconnect
  BY Zenon, <1>6, FinishStep
<1>7. CASE ConnectTip
  BY Zenon, <1>7, ConnectStep
<1>8. CASE EndStep
  BY Zenon, <1>8, EndStepStep
<1>9. QED
  BY Zenon, <1>1, <1>2, <1>3, <1>4, <1>5, <1>6, <1>7, <1>8 DEF Next
-----------------------------------------------------------------------------
(* The orphans *)

\* mapOrphanTransactionsByPrev as it is for the orphans of D.
Index(D) == [i \in UNION {Inputs[t] : t \in D} |-> {t \in D : i \in Inputs[t]}]

\* EraseOrphanTx takes orphans out of the index, with sets that get empty.
LEMMA UnlinkIndex ==
    ASSUME NEW D, NEW S
    PROVE  UnlinkOrphans(Index(D), S) = Index(D \ S)
<1> DEFINE I == UNION {Inputs[t] : t \in D}
           W(i) == {t \in D : i \in Inputs[t]}
           left == [i \in DOMAIN Index(D) |-> Index(D)[i] \ S]
           J == {i \in DOMAIN Index(D) : left[i] # {}}
           K == UNION {Inputs[t] : t \in D \ S}
<1>1. DOMAIN Index(D) = I /\ \A i \in I : Index(D)[i] = W(i)
  BY Zenon DEF Index
<1>2. UnlinkOrphans(Index(D), S) = [i \in J |-> left[i]]
  BY Zenon DEF UnlinkOrphans, Restrict
<1>3. \A i \in I : left[i] = W(i) \ S
  BY Zenon, <1>1
<1>4. J = K
  <2>1. ASSUME NEW i \in J PROVE i \in K
    BY Zenon, <1>1, <1>3
  <2>2. ASSUME NEW t \in D \ S, NEW i \in Inputs[t] PROVE i \in J
    <3>1. i \in I /\ t \in W(i) \ S
      BY Zenon
    <3>2. QED
      BY Zenon, <1>1, <1>3, <3>1
  <2>3. QED
    BY Zenon, <2>1, <2>2
<1>5. \A i \in K : left[i] = {t \in D \ S : i \in Inputs[t]}
  BY <1>1, <1>3
<1> HIDE DEF left, J, K
<1>6. [i \in J |-> left[i]] = [i \in K |-> {t \in D \ S : i \in Inputs[t]}]
  BY Zenon, <1>4, <1>5
<1>7. QED
  BY Zenon, <1>2, <1>6 DEF Index, K

\* AddOrphanTx enters an orphan in the index, once for each input.
LEMMA LinkIndex ==
    ASSUME NEW D, NEW t
    PROVE  LinkOrphan(Index(D), t) = Index(IF t \in Large THEN D ELSE D \cup {t})
<1>1. CASE t \in Large
  BY Zenon, <1>1 DEF LinkOrphan
<1>2. CASE t \notin Large
  <2> DEFINE I == UNION {Inputs[u] : u \in D}
             b == Index(D)
             E == D \cup {t}
             K == UNION {Inputs[u] : u \in E}
             F(i) == (IF i \in DOMAIN b THEN b[i] ELSE {}) \cup (IF i \in Inputs[t] THEN {t} ELSE {})
  <2>1. DOMAIN b = I /\ \A i \in I : b[i] = {u \in D : i \in Inputs[u]}
    BY Zenon DEF Index
  <2>2. DOMAIN b \cup Inputs[t] = K
    BY Zenon, <2>1
  <2>3. LinkOrphan(b, t) = [i \in DOMAIN b \cup Inputs[t] |-> F(i)]
    BY Zenon, <1>2 DEF LinkOrphan
  <2>4. ASSUME NEW i \in K PROVE F(i) = {u \in E : i \in Inputs[u]}
    <3>1. (IF i \in DOMAIN b THEN b[i] ELSE {}) = {u \in D : i \in Inputs[u]}
      BY Zenon, <2>1
    <3>2. QED
      BY Zenon, <3>1
  <2>5. Index(E) = [i \in K |-> {u \in E : i \in Inputs[u]}]
    BY Zenon DEF Index
  <2> HIDE DEF b, F, K, E, I
  <2>6. LinkOrphan(b, t) = Index(E)
    BY Zenon, <2>2, <2>3, <2>4, <2>5
  <2>7. QED
    BY Zenon, <1>2, <2>6 DEF b, E
<1>3. QED
  BY Zenon, <1>1, <1>2

\* What the invariant says of the orphans alone.
OrphansOK ==
    /\ orphans \in [DOMAIN orphans -> Peers] /\ DOMAIN orphans \subseteq Relayed
    /\ Cardinality(DOMAIN orphans) <= MaxOrphans /\ byPrev = Index(DOMAIN orphans)

\* OrphanInv, taken apart.
LEMMA OrphanInvFacts ==
    OrphanInv <=> /\ Inv /\ OrphansOK /\ HandlerInv
                  /\ call # Idle => call.left \cup call.erase \subseteq DOMAIN orphans
  BY Zenon DEF OrphanInv, OrphansOK, OrphanMapsAgree, Index

\* Orphans that are erased are erased from both maps.
LEMMA EraseStep ==
    ASSUME OrphansOK, NEW S, EraseOrphanTxs(S)
    PROVE  /\ OrphansOK' /\ DOMAIN orphans' = DOMAIN orphans \ S
           /\ \A t \in DOMAIN orphans' : orphans'[t] = orphans[t]
<1> DEFINE D == DOMAIN orphans
           E == D \ S
<1>1. orphans' = [t \in E |-> orphans[t]]
  BY Zenon DEF EraseOrphanTxs, EraseOrphans, Restrict
<1>2. byPrev' = Index(E)
  <2>1. byPrev' = UnlinkOrphans(Index(D), S \cap D)
    BY Zenon DEF EraseOrphanTxs, OrphansOK
  <2>2. D \ (S \cap D) = E
    BY Zenon
  <2> HIDE DEF D, E
  <2>3. QED
    BY Zenon, <2>1, <2>2, UnlinkIndex
<1>3. IsFiniteSet(D) /\ E \in SUBSET D
  BY Zenon, OrphanAssumption, MempoolAssumption, FS_Subset DEF OrphansOK
<1>4. Cardinality(E) <= MaxOrphans
  <2>1. Cardinality(E) <= Cardinality(D) /\ Cardinality(E) \in Nat /\ Cardinality(D) \in Nat
    <3> HIDE DEF D, E
    <3>1. QED
      BY Zenon, <1>3, FS_Subset, FS_CardinalityType
  <2>2. QED
    BY <2>1, OrphanAssumption DEF OrphansOK
<1>5. DOMAIN orphans' = E /\ orphans' \in [E -> Peers]
  BY Zenon, <1>1 DEF OrphansOK
<1>6. OrphansOK'
  <2> HIDE DEF E
  <2>1. E \subseteq Relayed
    BY Zenon DEF E, OrphansOK
  <2>2. QED
    BY Zenon, <1>2, <1>4, <1>5, <2>1 DEF OrphansOK, Index
<1>7. QED
  BY Zenon, <1>1, <1>5, <1>6

\* An orphan comes in, and LimitOrphanTxSize evicts some.
LEMMA OrphanedStep ==
    ASSUME OrphansOK, NEW p \in Peers, NEW t \in Relayed, TxOrphaned(p, t)
    PROVE  OrphansOK'
<1> DEFINE D == DOMAIN orphans
           o == AddOrphanTx(orphans, t, p)
           N == IF t \in Large THEN D ELSE D \cup {t}
<1>1. PICK gone \in LimitOrphanTxSize(o) :
        /\ orphans' = EraseOrphans(o, gone)
        /\ byPrev' = UnlinkOrphans(LinkOrphan(byPrev, t), gone)
  BY Zenon DEF TxOrphaned
<1>2. D \subseteq Relayed /\ orphans \in [D -> Peers] /\ byPrev = Index(D)
  BY Zenon DEF OrphansOK
<1>3. DOMAIN o = N /\ \A u \in N : o[u] \in Peers
  BY Zenon, <1>2 DEF AddOrphanTx
<1>4. N \subseteq Relayed /\ IsFiniteSet(N)
  <2>1. N \subseteq Relayed /\ N \in SUBSET Txs
    BY Zenon, <1>2, OrphanAssumption
  <2>2. QED
    BY Zenon, <2>1, MempoolAssumption, FS_Subset
<1> HIDE DEF D, N, o
<1>5. byPrev' = Index(N \ gone)
  <2>1. LinkOrphan(byPrev, t) = Index(N)
    BY Zenon, <1>2, LinkIndex DEF N
  <2>2. QED
    BY Zenon, <1>1, <2>1, UnlinkIndex
<1>6. orphans' = [u \in N \ gone |-> o[u]]
  BY Zenon, <1>1, <1>3 DEF EraseOrphans, Restrict
<1>7. gone \subseteq N /\ Cardinality(gone) = IF Cardinality(N) - MaxOrphans > 0 THEN Cardinality(N) - MaxOrphans ELSE 0
  BY Zenon, <1>1, <1>3 DEF LimitOrphanTxSize
<1>8. Cardinality(N \ gone) = Cardinality(N) - Cardinality(gone) /\ Cardinality(N) \in Nat
  <2>1. N \cap gone = gone
    BY Zenon, <1>7
  <2>2. QED
    BY Zenon, <1>4, <2>1, FS_Difference, FS_CardinalityType
<1>9. Cardinality(N \ gone) <= MaxOrphans
  BY <1>7, <1>8, OrphanAssumption
<1>10. DOMAIN orphans' = N \ gone /\ orphans' \in [N \ gone -> Peers]
  BY Zenon, <1>3, <1>6
<1>11. N \ gone \subseteq Relayed
  BY Zenon, <1>4
<1> DEFINE M == N \ gone
<1> HIDE DEF M
<1>12. QED
  BY Zenon, <1>5, <1>9, <1>10, <1>11 DEF OrphansOK, Index, M

\* No orphan: the maps are empty.
LEMMA InitOrphanInv == InitOrphans => OrphanInv
<1> SUFFICES ASSUME InitOrphans PROVE OrphanInv
  BY Zenon
<1>1. Init /\ orphans = [t \in {} |-> t] /\ byPrev = [t \in {} |-> {}] /\ call = Idle
  BY Zenon DEF InitOrphans
<1>2. DOMAIN orphans = {} /\ Cardinality({}) = 0
  BY Zenon, <1>1, FS_EmptySet
<1>3. byPrev = Index({})
  BY Zenon, <1>1 DEF Index
<1>4. orphans \in [{} -> Peers]
  BY Zenon, <1>1
<1>5. OrphansOK
  BY <1>2, <1>3, <1>4, OrphanAssumption DEF OrphansOK
<1>6. HandlerInv
  BY Zenon, <1>1 DEF HandlerInv
<1>7. QED
  BY Zenon, <1>1, <1>5, <1>6, InitInv, OrphanInvFacts

\* The locals of the tx handler.
Calls ==
    [work : Seq(Txs), accepted : SUBSET Txs, left : SUBSET Txs, erase : SUBSET Txs, misbehaving : SUBSET Peers]

\* What the handler still owes the orphan t, with its locals as in c and the pool
\* as in m.
Settled(c, m, t) ==
    Inputs[t] \cap c.accepted # {} /\ orphans[t] \notin c.misbehaving =>
        \/ Inputs[t] \cap Range(c.work) # {}
        \/ ~InputsFound(m, t, coins)

\* A transaction is accepted: what waits for it waits for vWorkQueue.
LEMMA TxAcceptedStep ==
    ASSUME OrphanInv, NEW t \in Relayed, TxAccepted(t)
    PROVE  OrphanInv'
<1>1. /\ phase = "settled" /\ Acceptable(pool, t, coins, Height(tip) + 1) /\ AddAndLimit(pool, t)
      /\ call' = [work |-> <<t>>, accepted |-> {t}, left |-> {}, erase |-> {}, misbehaving |-> {}]
      /\ UNCHANGED <<tip, coins, target, phase, todo, disconnected, orphans, byPrev>>
  BY Zenon DEF TxAccepted, Quiet, Height1
<1>2. t \in Txs /\ Inv /\ OrphansOK
  BY Zenon, OrphanAssumption, OrphanInvFacts
<1>3. Inv'
  BY Zenon, <1>1, <1>2, AcceptStep
<1>4. OrphansOK'
  BY Zenon, <1>1, <1>2 DEF OrphansOK, Index
<1>5. /\ call'.work = <<t>> /\ call'.accepted = {t} /\ call'.left = {} /\ call'.erase = {}
      /\ call' \in Calls
  <2>1. <<t>> \in Seq(Txs)
    BY <1>2
  <2>2. QED
    BY Zenon, <1>1, <1>2, <2>1 DEF Calls
<1>6. Range(call'.work) = {t}
  BY <1>5 DEF Range
<1>7. HandlerInv'
  BY Zenon, <1>1, <1>5, <1>6 DEF HandlerInv, Calls
<1>8. (call # Idle => call.left \cup call.erase \subseteq DOMAIN orphans)'
  BY Zenon, <1>5
<1>9. QED
  BY Zenon, <1>3, <1>4, <1>7, <1>8, OrphanInvFacts DEF OrphanInv, OrphansOK, OrphanMapsAgree, Index

\* The handler takes the next transaction off vWorkQueue, and turns to all that
\* wait for it.
LEMMA NextParentStep ==
    ASSUME OrphanInv, NextParent
    PROVE  OrphanInv'
<1> DEFINE t == Head(call.work)
           more == IF t \in DOMAIN byPrev THEN byPrev[t] ELSE {}
<1>1. /\ call # Idle /\ call.left = {} /\ call.work # <<>>
      /\ call' = [call EXCEPT !.work = Tail(@), !.left = more]
      /\ UNCHANGED <<vars, orphans, byPrev>>
  BY Zenon DEF NextParent
<1>2. /\ Inv /\ OrphansOK /\ phase = "settled" /\ call \in Calls /\ call.erase \subseteq DOMAIN orphans
      /\ \A u \in DOMAIN orphans \ (call.erase \cup call.left) : Settled(call, pool, u)
  BY Zenon, <1>1, OrphanInvFacts DEF HandlerInv, Calls, Settled
<1>3. more = {u \in DOMAIN orphans : t \in Inputs[u]}
  <2>1. byPrev = Index(DOMAIN orphans)
    BY Zenon, <1>2 DEF OrphansOK
  <2>2. QED
    BY Zenon, <2>1 DEF Index
<1>4. call.work \in Seq(Txs) /\ DOMAIN orphans \subseteq Txs
  BY Zenon, <1>2, OrphanAssumption DEF Calls, OrphansOK
<1> HIDE DEF t, more
<1>5. Tail(call.work) \in Seq(Txs) /\ Range(call.work) = {t} \cup Range(Tail(call.work))
  BY Zenon, <1>1, <1>4, RestOfTodo DEF t
<1>6. /\ call' \in Calls /\ call'.work = Tail(call.work) /\ call'.left = more /\ call'.erase = call.erase
      /\ call'.accepted = call.accepted /\ call'.misbehaving = call.misbehaving
  <2>1. more \in SUBSET Txs
    BY Zenon, <1>3, <1>4
  <2>2. QED
    BY Zenon, <1>1, <1>2, <1>5, <2>1 DEF Calls
<1>7. Inv'
  BY Zenon, <1>1, <1>2, InvFrame
<1>8. ASSUME NEW u \in DOMAIN orphans \ (call'.erase \cup call'.left) PROVE Settled(call', pool, u)
  <2>1. Settled(call, pool, u) /\ t \notin Inputs[u]
    BY Zenon, <1>1, <1>2, <1>3, <1>6, <1>8
  <2>2. QED
    BY Zenon, <1>5, <1>6, <2>1 DEF Settled
<1>9. HandlerInv'
  BY Zenon, <1>1, <1>2, <1>6, <1>8 DEF HandlerInv, Calls, Settled, InputsFound, Unspent, vars
<1>10. (call # Idle => call.left \cup call.erase \subseteq DOMAIN orphans)'
  BY Zenon, <1>1, <1>2, <1>3, <1>6
<1>11. OrphansOK'
  BY Zenon, <1>1, <1>2 DEF OrphansOK, Index
<1>12. QED
  BY Zenon, <1>7, <1>9, <1>10, <1>11 DEF OrphanInv, OrphansOK, OrphanMapsAgree, Index

\* An orphan is tried: it is accepted and put on vWorkQueue, refused and marked
\* to be erased, or kept because an input is missing or its peer misbehaved.
LEMMA TryOrphanStep ==
    ASSUME OrphanInv, NEW t \in Relayed, NEW bad \in BOOLEAN, TryOrphan(t, bad)
    PROVE  OrphanInv'
<1> DEFINE now == [call EXCEPT !.left = @ \ {t}]
           peer == orphans[t]
<1>1. /\ call # Idle /\ t \in call.left
      /\ \/ /\ Acceptable(pool, t, coins, Height(tip) + 1) /\ AddAndLimit(pool, t)
            /\ call' = OrphanAccepted(now, t)
         \/ /\ call' = [now EXCEPT !.erase = @ \cup {t}, !.misbehaving = @ \cup IF bad THEN {peer} ELSE {}]
            /\ UNCHANGED <<pool, evicted>>
         \/ /\ peer \in call.misbehaving \/ Missing(t)
            /\ call' = now /\ UNCHANGED <<pool, evicted>>
      /\ UNCHANGED <<tip, coins, target, phase, todo, disconnected, orphans, byPrev>>
  BY Zenon DEF TryOrphan, Height1
<1>2. /\ Inv /\ OrphansOK /\ phase = "settled" /\ call \in Calls
      /\ call.left \cup call.erase \subseteq DOMAIN orphans
      /\ \A u \in DOMAIN orphans \ (call.erase \cup call.left) : Settled(call, pool, u)
  BY Zenon, <1>1, OrphanInvFacts DEF HandlerInv, Calls, Settled
<1>3. t \in Txs /\ t \in DOMAIN orphans /\ peer \in Peers /\ DOMAIN orphans \subseteq Txs
  BY Zenon, <1>1, <1>2, OrphanAssumption DEF OrphansOK
<1>4. /\ now \in Calls /\ now.left = call.left \ {t} /\ now.work = call.work /\ now.erase = call.erase
      /\ now.accepted = call.accepted /\ now.misbehaving = call.misbehaving
  BY Zenon, <1>2 DEF Calls
<1> HIDE DEF now, peer
<1>5. OrphansOK'
  BY Zenon, <1>1, <1>2 DEF OrphansOK, Index
<1>6. SUFFICES /\ Inv' /\ call' \in Calls /\ call'.left \cup call'.erase \subseteq DOMAIN orphans
               /\ \A u \in DOMAIN orphans \ (call'.erase \cup call'.left) : Settled(call', pool', u)
  <2>1. HandlerInv'
    BY Zenon, <1>1, <1>2, <1>6 DEF HandlerInv, Calls, Settled, InputsFound, Unspent
  <2>2. QED
    BY Zenon, <1>1, <1>5, <1>6, <2>1 DEF OrphanInv, OrphansOK, OrphanMapsAgree, Index
<1>7. CASE /\ Acceptable(pool, t, coins, Height(tip) + 1) /\ AddAndLimit(pool, t)
           /\ call' = OrphanAccepted(now, t)
  <2>1. Inv'
    BY Zenon, <1>1, <1>2, <1>3, <1>7, AcceptStep
  <2>2. call.work \in Seq(Txs) /\ Append(call.work, t) \in Seq(Txs)
    BY <1>2, <1>3 DEF Calls
  <2>3. /\ call' \in Calls /\ call'.left = call.left \ {t} /\ call'.work = Append(call.work, t)
        /\ call'.erase = call.erase \cup {t} /\ call'.accepted = call.accepted \cup {t}
        /\ call'.misbehaving = call.misbehaving
    BY Zenon, <1>3, <1>4, <1>7, <2>2 DEF Calls, OrphanAccepted
  <2>4. Range(call.work) \cup {t} \subseteq Range(call'.work)
    <3>1. /\ Len(Append(call.work, t)) = Len(call.work) + 1 /\ Len(call.work) \in Nat
          /\ \A i \in 1 .. Len(call.work) : Append(call.work, t)[i] = call.work[i]
          /\ Append(call.work, t)[Len(call.work) + 1] = t
      BY <2>2
    <3>2. DOMAIN call.work = 1 .. Len(call.work) /\ DOMAIN Append(call.work, t) = 1 .. Len(call.work) + 1
      BY <2>2, <3>1
    <3>3. QED
      BY <2>3, <3>1, <3>2 DEF Range
  <2>5. pool'.mapTx \subseteq pool.mapTx \cup {t}
    <3>1. /\ t \in Txs \ pool.mapTx /\ Matching(pool) /\ Cardinality(pool.mapTx) <= Capacity
          /\ Inputs[t] \cap DOMAIN pool.mapNextTx = {} /\ Nullifiers[t] \cap DOMAIN pool.nullifiers = {}
      BY Zenon, <1>2, <1>3, <1>7 DEF Acceptable, Eligible, Inv, TypeOK
    <3>2. QED
      BY Zenon, <1>7, <3>1, AddAndLimitFacts
  <2>6. ASSUME NEW u \in DOMAIN orphans \ (call'.erase \cup call'.left) PROVE Settled(call', pool', u)
    <3>1. u # t /\ Settled(call, pool, u)
      BY Zenon, <1>2, <2>3, <2>6
    <3>2. CASE t \in Inputs[u]
      BY Zenon, <2>4, <3>2 DEF Settled
    <3>3. CASE t \notin Inputs[u]
      BY Zenon, <2>3, <2>4, <2>5, <3>1, <3>3 DEF Settled, InputsFound
    <3>4. QED
      BY Zenon, <3>2, <3>3
  <2>7. QED
    BY Zenon, <1>2, <1>3, <2>1, <2>3, <2>6
<1>8. CASE /\ call' = [now EXCEPT !.erase = @ \cup {t}, !.misbehaving = @ \cup IF bad THEN {peer} ELSE {}]
           /\ UNCHANGED <<pool, evicted>>
  <2>1. Inv'
    BY Zenon, <1>1, <1>2, <1>8, InvFrame DEF vars
  <2>2. /\ call' \in Calls /\ call'.left = call.left \ {t} /\ call'.work = call.work
        /\ call'.erase = call.erase \cup {t} /\ call'.accepted = call.accepted
        /\ call.misbehaving \subseteq call'.misbehaving
    BY Zenon, <1>3, <1>4, <1>8 DEF Calls
  <2>3. ASSUME NEW u \in DOMAIN orphans \ (call'.erase \cup call'.left) PROVE Settled(call', pool', u)
    <3>1. Settled(call, pool, u)
      BY Zenon, <1>2, <2>2, <2>3
    <3>2. QED
      BY Zenon, <1>8, <2>2, <3>1 DEF Settled
  <2>4. QED
    BY Zenon, <1>2, <1>3, <2>1, <2>2, <2>3
<1>9. CASE /\ peer \in call.misbehaving \/ Missing(t)
           /\ call' = now /\ UNCHANGED <<pool, evicted>>
  <2>1. Inv'
    BY Zenon, <1>1, <1>2, <1>9, InvFrame DEF vars
  <2>2. ASSUME NEW u \in DOMAIN orphans \ (call'.erase \cup call'.left) PROVE Settled(call', pool', u)
    <3>1. CASE u = t
      BY Zenon, <1>4, <1>9, <3>1 DEF Settled, Missing, peer
    <3>2. CASE u # t
      <4>1. Settled(call, pool, u)
        BY Zenon, <1>2, <1>4, <1>9, <2>2, <3>2
      <4>2. QED
        BY Zenon, <1>4, <1>9, <4>1 DEF Settled
    <3>3. QED
      BY Zenon, <3>1, <3>2
  <2>3. QED
    BY Zenon, <1>2, <1>4, <1>9, <2>1, <2>2
<1>10. QED
  BY Zenon, <1>1, <1>7, <1>8, <1>9

\* Every step keeps the invariant.
LEMMA NextOrphanInv == OrphanInv /\ NextOrphans => OrphanInv'
<1> SUFFICES ASSUME OrphanInv, NextOrphans PROVE OrphanInv'
  BY Zenon
<1>1. Inv /\ OrphansOK
  BY Zenon, OrphanInvFacts
<1>2. CASE call = Idle /\ Next /\ UNCHANGED orphanVars
  <2>1. Inv'
    BY Zenon, <1>1, <1>2, NextInv
  <2>2. OrphansOK' /\ call' = Idle
    BY Zenon, <1>1, <1>2 DEF orphanVars, OrphansOK, Index
  <2>3. QED
    BY Zenon, <2>1, <2>2 DEF OrphanInv, OrphansOK, OrphanMapsAgree, Index, HandlerInv
<1>3. ASSUME NEW t \in Relayed, TxAccepted(t) PROVE OrphanInv'
  BY Zenon, <1>3, TxAcceptedStep
<1>4. ASSUME NEW t \in Relayed, NEW p \in Peers, TxOrphaned(p, t) PROVE OrphanInv'
  <2>1. OrphansOK' /\ call = Idle /\ UNCHANGED <<vars, call>>
    BY Zenon, <1>1, <1>4, OrphanedStep DEF TxOrphaned, Quiet
  <2>2. Inv'
    BY Zenon, <1>1, <2>1, InvFrame
  <2>3. QED
    BY Zenon, <2>1, <2>2 DEF OrphanInv, OrphansOK, OrphanMapsAgree, Index, HandlerInv
<1>5. ASSUME NEW t \in Relayed, NEW bad \in BOOLEAN, TryOrphan(t, bad) PROVE OrphanInv'
  BY Zenon, <1>5, TryOrphanStep
<1>6. CASE NextParent
  BY Zenon, <1>6, NextParentStep
<1>7. ASSUME NEW S, EraseOrphanTxs(S), UNCHANGED vars, call' = Idle PROVE OrphanInv'
  <2>1. OrphansOK'
    BY Zenon, <1>1, <1>7, EraseStep
  <2>2. Inv'
    BY Zenon, <1>1, <1>7, InvFrame
  <2>3. QED
    BY Zenon, <1>7, <2>1, <2>2 DEF OrphanInv, OrphansOK, OrphanMapsAgree, Index, HandlerInv
<1>8. CASE EndOfCall
  BY Zenon, <1>7, <1>8 DEF EndOfCall
<1>9. ASSUME NEW p \in Peers, EraseOrphansFor(p) PROVE OrphanInv'
  BY Zenon, <1>7, <1>9 DEF EraseOrphansFor, Quiet
<1>10. QED
  BY Zenon, <1>2, <1>3, <1>4, <1>5, <1>6, <1>8, <1>9 DEF NextOrphans
-----------------------------------------------------------------------------
(* Theorems *)

\* The inductive invariants: that of the pool alone, and that of the pool with
\* the orphans.
THEOREM PoolInvariant == Spec => []Inv
<1>1. Inv /\ UNCHANGED vars => Inv'
  BY Zenon, InvFrame
<1>2. QED
  BY <1>1, InitInv, NextInv, PTL DEF Spec

\* The same with the handler of tx messages beside the calls that move the chain.
THEOREM OrphanInvariant == SpecOrphans => []OrphanInv
<1>1. OrphanInv /\ UNCHANGED allVars => OrphanInv'
  <2> SUFFICES ASSUME OrphanInv, UNCHANGED allVars PROVE OrphanInv'
    BY Zenon
  <2>1. UNCHANGED vars /\ orphans' = orphans /\ byPrev' = byPrev /\ call' = call
    BY Zenon DEF allVars, orphanVars
  <2>2. Inv'
    BY Zenon, <2>1, InvFrame DEF OrphanInv
  <2>3. HandlerInv'
    BY Zenon, <2>1 DEF OrphanInv, HandlerInv, vars, InputsFound, Unspent
  <2>4. QED
    BY Zenon, <2>1, <2>2, <2>3 DEF OrphanInv, OrphanMapsAgree
<1>2. QED
  BY <1>1, InitOrphanInv, NextOrphanInv, PTL DEF SpecOrphans

\* The pool's maps agree with its transactions at every point of a call: the
\* assertions of CTxMemPool::check and checkNullifiers never fail, and the pool
\* stays within its limit, for every chain that ConnectBlock allows.
THEOREM MapsAgree == SpecOrphans => []MapsMatchPool
<1>1. OrphanInv => MapsMatchPool
  BY Zenon DEF OrphanInv, Inv, MapsMatchPool, Matching, Links
<1>2. QED
  BY <1>1, OrphanInvariant, PTL

\* Between two calls every transaction of the pool could be mined next, in the
\* order of its inputs, whatever blocks were disconnected and connected before:
\* its inputs, nullifiers, anchors, maturity, epoch, lock time and expiry.
THEOREM PoolCanBeMined == SpecOrphans => []PoolFitsChain
<1>1. ASSUME Inv PROVE PoolFitsChain
  <2>1. SUFFICES ASSUME phase = "settled", NEW t \in pool.mapTx
                 PROVE  /\ Inputs[t] \subseteq pool.mapTx \cup Unspent(tip)
                        /\ Nullifiers[t] \cap Spent(tip) = {}
                        /\ Anchors[t] \subseteq Roots(tip)
                        /\ Mature(t, tip)
                        /\ Branch[t] = Epoch(Height(tip) + 1)
                        /\ IsFinalTx(t, Height(tip) + 1) /\ ~IsExpiredTx(t, Height(tip))
    BY Zenon DEF PoolFitsChain
  <2>2. coins = tip /\ Range(todo) = {} /\ ~disconnected /\ Fits(t)
    BY Zenon, <1>1, <2>1, StateFacts DEF Inv, CallInv
  <2>3. QED
    BY Zenon, <2>1, <2>2 DEF Fits
<1>2. OrphanInv => PoolFitsChain
  BY Zenon, <1>1 DEF OrphanInv
<1>3. QED
  BY <1>2, OrphanInvariant, PTL

\* The assertion of removeForReorg holds whenever the chain has moved: whatever
\* spends a coinbase finds the coins of the inputs it has outside of the pool.
THEOREM CoinsAreFound == SpecOrphans => []ReorgFindsCoins
<1>1. ASSUME Inv PROVE ReorgFindsCoins
  <2>1. SUFFICES ASSUME phase = "step", NEW t \in pool.mapTx
                 PROVE  Inputs[t] \ pool.mapTx \subseteq Unspent(coins)
    BY Zenon DEF ReorgFindsCoins
  <2>2. Range(todo) = {} /\ Fits(t)
    BY Zenon, <1>1, <2>1, StateFacts DEF Inv
  <2>3. QED
    BY Zenon, <2>2 DEF Fits
<1>2. OrphanInv => ReorgFindsCoins
  BY Zenon, <1>1 DEF OrphanInv
<1>3. QED
  BY <1>2, OrphanInvariant, PTL

\* mapOrphanTransactionsByPrev is the index of mapOrphanTransactions, whatever
\* evicts, resolves or disowns an orphan; their number stays within -maxorphantx.
THEOREM OrphansAgree == SpecOrphans => []OrphanMapsAgree
<1>1. OrphanInv => OrphanMapsAgree
  BY Zenon DEF OrphanInv
<1>2. QED
  BY <1>1, OrphanInvariant, PTL

\* When the tx handler returns no orphan that waited for what it accepted, directly
\* or through other orphans, could still be accepted, for any number of orphans
\* and any order in which they came, unless its peer misbehaved.
THEOREM OrphansResolved == SpecOrphans => OrphansAreResolved
<1> DEFINE Done == EndOfCall => \A t \in DOMAIN orphans' :
                     Inputs[t] \cap call.accepted # {} /\ orphans[t] \notin call.misbehaving
                         => ~Acceptable(pool, t, coins, Height1)
<1>1. OrphanInv => Done
  <2> SUFFICES ASSUME OrphanInv, EndOfCall, NEW t \in DOMAIN orphans',
                      Inputs[t] \cap call.accepted # {}, orphans[t] \notin call.misbehaving
               PROVE  ~Acceptable(pool, t, coins, Height1)
    BY Zenon
  <2>1. call # Idle /\ call.left = {} /\ call.work = <<>> /\ EraseOrphanTxs(call.erase)
    BY Zenon DEF EndOfCall
  <2>2. t \in DOMAIN orphans \ call.erase
    BY Zenon, <2>1, EraseStep, OrphanInvFacts
  <2>3. Range(call.work) = {}
    BY <2>1 DEF Range
  <2>4. ~InputsFound(pool, t, coins)
    BY Zenon, <2>1, <2>2, <2>3 DEF OrphanInv, HandlerInv
  <2>5. QED
    BY Zenon, <2>4 DEF Acceptable
<1>2. SpecOrphans => [][Done]_allVars
  <2> HIDE DEF Done
  <2>1. QED
    BY <1>1, OrphanInvariant, PTL
<1>3. QED
  BY Zenon, <1>2 DEF OrphansAreResolved
=============================================================================
