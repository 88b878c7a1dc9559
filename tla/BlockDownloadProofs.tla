------------------------ MODULE BlockDownloadProofs ------------------------
(***************************************************************************)
(* TLAPS proofs about the block download, for every tree of blocks and     *)
(* every set of peers, whatever they announce and deliver.                 *)
(***************************************************************************)
EXTENDS BlockDownload, DataFacts, TLAPS

\* The hashes of a list of requests, and those whose header was validated.
Hashes(q) == {q[i].hash : i \in DOMAIN q}
ValidHashes(q) == {q[i].hash : i \in {j \in DOMAIN q : q[j].fValidatedHeaders}}
Distinct(q) == \A i, j \in DOMAIN q : q[i].hash = q[j].hash => i = j

\* What mapBlocksInFlight, the lists and the counters over them consist of.
Entries == [hash : Blocks, fValidatedHeaders : BOOLEAN, left : Int]
Lists == Seq(Entries)
NodeStates ==
    [best : Blocks \cup {None}, unknown : Blocks \cup {None}, common : Blocks \cup {None},
     fSyncStarted : BOOLEAN, stalling : Int \cup {None}, vBlocksInFlight : Lists,
     nBlocksInFlight : Int, nValidHeaders : Int, fPreferredDownload : BOOLEAN,
     fShouldBan : BOOLEAN, version : BOOLEAN, fDisconnect : BOOLEAN]
Maps(K, V) == UNION {[D -> V] : D \in SUBSET K}
Nets == [node : Maps(Peers, NodeStates), inFlight : Maps(Blocks, Peers), queued : Int]

\* A list counts what is in it, and has no hash twice.
ListOK(s) ==
    LET q == s.vBlocksInFlight
    IN  /\ Distinct(q) /\ s.nBlocksInFlight = Len(q)
        /\ s.nValidHeaders = Cardinality(ValidHashes(q))

\* The lists together are mapBlocksInFlight.
Joined(n) ==
    /\ IsFiniteSet(DOMAIN n.inFlight)
    /\ \A b \in DOMAIN n.inFlight : n.inFlight[b] \in DOMAIN n.node
    /\ \A p \in DOMAIN n.node :
        /\ ListOK(n.node[p])
        /\ Hashes(n.node[p].vBlocksInFlight) = {b \in DOMAIN n.inFlight : n.inFlight[b] = p}
Linked(n) == n \in Nets /\ Joined(n)
AllValid(n) == UNION {ValidHashes(n.node[p].vBlocksInFlight) : p \in DOMAIN n.node}

\* What a peer's state satisfies besides.
NodeIn(s, K) ==
    /\ s.nBlocksInFlight <= MAX_BLOCKS_IN_TRANSIT_PER_PEER
    /\ s.stalling # None => s.vBlocksInFlight # <<>>
    /\ s.fPreferredDownload => s.version
    /\ {s.best, s.common} \subseteq K \cup {None}
NodeOK(s) == NodeIn(s, known)

\* The blocks: headers are accepted from the genesis block up.
IndexInv ==
    /\ known \subseteq Blocks /\ have \subseteq known /\ failed \subseteq known \ have
    /\ Genesis \in known /\ \A b \in known \ {Genesis} : Parent[b] \in known
    /\ tip \in have /\ ibd \in BOOLEAN

\* The counters over all peers.
CounterInv ==
    /\ nPreferredDownload = Cardinality({p \in Live : net.node[p].fPreferredDownload})
    /\ nSyncStarted = Cardinality({p \in Live : net.node[p].fSyncStarted})
    /\ net.queued >= Cardinality(AllValid(net))

\* The inductive invariant.
Inv ==
    /\ IndexInv /\ CounterInv /\ Linked(net)
    /\ IsFiniteSet(Live) /\ Live \cap fresh = {} /\ fresh \subseteq Peers
    /\ todo \subseteq copied /\ copied \subseteq Live
    /\ DOMAIN net.inFlight \cap have = {}
    /\ \A p \in Live : NodeOK(net.node[p])
-----------------------------------------------------------------------------
(* Chains *)

\* The blocks with their pprev links are a tree, and Chain is the chain in it.
LEMMA BlocksAreATree ==
    /\ Tree(Blocks, Genesis, Parent) /\ Chained(Chains, Blocks, Genesis, Parent)
<1>1. Tree(Blocks, Genesis, Parent)
  BY Zenon, BlockTreeAssumption DEF Tree
<1>2. Chains = ChainsOf(Blocks, Genesis, Parent)
  BY Zenon DEF Chains, ChainsOf
<1>3. QED
  BY Zenon, <1>1, <1>2, ChainsExist

\* A chain is its last block and the chain to its pprev, which it is not in.
LEMMA ChainFacts ==
    /\ Genesis \in Blocks /\ Chain(Genesis) = {Genesis}
    /\ \A b \in Blocks \ {Genesis} :
         Chain(b) = {b} \cup Chain(Parent[b]) /\ Parent[b] \in Blocks /\ b \notin Chain(Parent[b])
    /\ \A b \in Blocks : Chain(b) \subseteq Blocks /\ b \in Chain(b) /\ Genesis \in Chain(b)
  BY Zenon, BlocksAreATree, BlockTreeAssumption, ChainEndPoints DEF Chain, Chained

\* nHeight counts the links down to the genesis block: an ancestor is lower, and
\* the lower of two blocks of a chain is an ancestor of the higher one.
LEMMA HeightFacts ==
    /\ \A b \in Blocks : Height(b) \in Nat
    /\ Height(Genesis) = 0
    /\ \A b \in Blocks \ {Genesis} : Height(b) = Height(Parent[b]) + 1
    /\ \A b \in Blocks : \A a \in Chain(b) : Chain(a) \subseteq Chain(b)
    /\ \A b \in Blocks : \A a \in Chain(b) \ {b} : Height(a) < Height(b)
    /\ \A b \in Blocks : \A a, c \in Chain(b) : Height(a) <= Height(c) => a \in Chain(c)
<1> DEFINE len(b) == Cardinality(Chains[b])
<1>1. \A b \in Blocks : Height(b) = len(b) - 1
  BY Zenon DEF Height, Heights
<1>2. /\ \A b \in Blocks : len(b) \in Nat \ {0}
      /\ len(Genesis) = 1
      /\ \A b \in Blocks \ {Genesis} : len(b) = len(Parent[b]) + 1
      /\ \A b \in Blocks : \A a \in Chains[b] : Chains[a] \subseteq Chains[b]
      /\ \A b \in Blocks : \A a \in Chains[b] \ {b} : len(a) < len(b)
      /\ \A b \in Blocks : \A a, c \in Chains[b] : len(a) <= len(c) => a \in Chains[c]
  BY BlocksAreATree, ChainLengths
<1> HIDE DEF len
<1>3. \A b \in Blocks : Chains[b] \subseteq Blocks
  BY Zenon, ChainFacts DEF Chain
<1>4. \A b \in Blocks : Height(b) \in Nat
  BY <1>1, <1>2
<1>5. Height(Genesis) = 0 /\ \A b \in Blocks \ {Genesis} : Height(b) = Height(Parent[b]) + 1
  BY <1>1, <1>2, ChainFacts
<1>6. \A b \in Blocks : \A a \in Chains[b] \ {b} : Height(a) < Height(b)
  BY <1>1, <1>2, <1>3
<1>7. \A b \in Blocks : \A a, c \in Chains[b] : Height(a) <= Height(c) => a \in Chains[c]
  <2>1. ASSUME NEW b \in Blocks, NEW a \in Chains[b], NEW c \in Chains[b], Height(a) <= Height(c)
        PROVE  len(a) <= len(c)
    BY <1>1, <1>2, <1>3, <2>1
  <2>2. QED
    BY Zenon, <1>2, <2>1
<1>8. QED
  BY Zenon, <1>2, <1>4, <1>5, <1>6, <1>7 DEF Chain

\* What holds of the genesis block and of a block whenever it holds of its pprev
\* holds of all blocks.
LEMMA ByParent ==
    ASSUME NEW S \in SUBSET Blocks, Genesis \in S,
           \A b \in Blocks \ {Genesis} : Parent[b] \in S => b \in S
    PROVE  S = Blocks
  BY BlocksAreATree, TreeInduction

\* CChain::FindFork: the chains to two blocks are one chain up to the fork.
LEMMA ForkFacts ==
    ASSUME NEW b \in Blocks, NEW t \in Blocks
    PROVE  /\ Fork(b, t) \in Chain(b) \cap Chain(t) /\ Fork(b, t) \in Blocks
           /\ Chain(Fork(b, t)) = Chain(b) \cap Chain(t)
<1> DEFINE C == Chain(b) \cap Chain(t)
           h == [c \in Blocks |-> Height(b) - Height(c)]
<1>1. C \subseteq Blocks /\ C # {}
  BY Zenon, ChainFacts
<1>2. ASSUME NEW c \in C PROVE Height(c) \in Nat /\ Height(b) \in Nat /\ h[c] \in Nat /\ h[c] = Height(b) - Height(c)
  <2>1. Height(c) \in Nat /\ Height(b) \in Nat /\ Height(c) <= Height(b)
    BY <1>1, HeightFacts
  <2>2. QED
    BY <1>1, <2>1
<1>3. PICK g \in C : \A c \in C : h[g] <= h[c]
  <2> HIDE DEF h, C
  <2>1. QED
    BY Zenon, <1>1, <1>2, LeastElement
<1>4. \A c \in C : Height(c) <= Height(g)
  <2> HIDE DEF h, C
  <2>1. QED
    BY <1>2, <1>3
<1> DEFINE f == Fork(b, t)
<1>5. f \in C /\ \A c \in C : Height(c) <= Height(f)
  <2>1. f = CHOOSE x \in C : \A c \in C : Height(c) <= Height(x)
    BY Zenon DEF Fork
  <2> HIDE DEF f, C
  <2>2. QED
    BY Zenon, <1>3, <1>4, <2>1
<1> HIDE DEF f
<1>6. Chain(f) \subseteq C
  BY Zenon, <1>5, HeightFacts
<1>7. C \subseteq Chain(f)
  BY Zenon, <1>5, HeightFacts
<1>8. QED
  BY Zenon, <1>1, <1>5, <1>6, <1>7 DEF f


\* A chain has a block at every height up to its own, and one only.
LEMMA AtHeightFacts ==
    ASSUME NEW b \in Blocks, NEW h \in 0 .. Height(b)
    PROVE  AtHeight(b, h) \in Chain(b) /\ Height(AtHeight(b, h)) = h
<1> DEFINE S == {c \in Blocks : \A k \in 0 .. Height(c) : \E a \in Chain(c) : Height(a) = k}
<1>1. S \in SUBSET Blocks /\ Genesis \in S
  BY ChainFacts, HeightFacts
<1>2. ASSUME NEW c \in Blocks \ {Genesis}, Parent[c] \in S PROVE c \in S
  <2>1. SUFFICES ASSUME NEW k \in 0 .. Height(c) PROVE \E a \in Chain(c) : Height(a) = k
    BY Zenon
  <2>2. Chain(c) = {c} \cup Chain(Parent[c]) /\ Height(c) = Height(Parent[c]) + 1 /\ Height(Parent[c]) \in Nat
    BY Zenon, ChainFacts, HeightFacts
  <2>3. CASE k = Height(c)
    BY Zenon, <2>2, <2>3
  <2>4. CASE k # Height(c)
    <3>1. k \in 0 .. Height(Parent[c])
      BY <2>2, <2>4
    <3>2. QED
      BY Zenon, <1>2, <2>2, <3>1
  <2>5. QED
    BY Zenon, <2>3, <2>4
<1>3. S = Blocks
  <2> HIDE DEF S
  <2>1. QED
    BY Zenon, <1>1, <1>2, ByParent
<1>4. \E a \in Chain(b) : Height(a) = h
  BY Zenon, <1>3
<1>5. QED
  BY Zenon, <1>4 DEF AtHeight
-----------------------------------------------------------------------------
(* Lists of requests *)

\* What sequences of requests are.
LEMMA ListFacts ==
    ASSUME NEW q \in Seq(Entries)
    PROVE  /\ Len(q) \in Nat /\ DOMAIN q = 1 .. Len(q)
           /\ \A i \in DOMAIN q : q[i] \in Entries
           /\ ValidHashes(q) \subseteq Hashes(q) /\ Hashes(q) \subseteq Blocks
<1>1. Len(q) \in Nat /\ DOMAIN q = 1 .. Len(q) /\ \A i \in DOMAIN q : q[i] \in Entries
  OBVIOUS
<1>2. ValidHashes(q) \subseteq Hashes(q) /\ Hashes(q) \subseteq Blocks
  BY Zenon, <1>1 DEF ValidHashes, Hashes, Entries
<1>3. QED
  BY Zenon, <1>1, <1>2

\* Two lists of the same requests differ in what is left of their time only.
SameList(q, r) ==
    /\ DOMAIN r = DOMAIN q /\ Len(r) = Len(q)
    /\ \A i \in DOMAIN q : r[i].hash = q[i].hash /\ r[i].fValidatedHeaders = q[i].fValidatedHeaders
LEMMA SameListFacts ==
    ASSUME NEW q, NEW r, SameList(q, r)
    PROVE  /\ Hashes(r) = Hashes(q) /\ ValidHashes(r) = ValidHashes(q)
           /\ Distinct(q) => Distinct(r)
<1>1. Hashes(r) = Hashes(q)
  BY Zenon DEF SameList, Hashes
<1>2. ValidHashes(r) = ValidHashes(q)
  BY Zenon DEF SameList, ValidHashes
<1>3. QED
  BY Zenon, <1>1, <1>2 DEF SameList, Distinct

\* The request of a block is erased from its list.
LEMMA EraseEntryFacts ==
    ASSUME NEW q \in Seq(Entries), Distinct(q), NEW b \in Hashes(q)
    PROVE  /\ EraseEntry(q, b) \in Seq(Entries) /\ Len(EraseEntry(q, b)) = Len(q) - 1
           /\ Distinct(EraseEntry(q, b)) /\ Hashes(EraseEntry(q, b)) = Hashes(q) \ {b}
           /\ ValidHashes(EraseEntry(q, b)) = ValidHashes(q) \ {b}
           /\ q[EntryOf(q, b)].fValidatedHeaders <=> b \in ValidHashes(q)
<1> DEFINE k == EntryOf(q, b)
           n == Len(q)
           r == EraseEntry(q, b)
           at(i) == IF i < k THEN i ELSE i + 1
<1>1. n \in Nat /\ DOMAIN q = 1 .. n /\ \A i \in 1 .. n : q[i] \in Entries
  BY Zenon, ListFacts
<1>2. k \in 1 .. n /\ q[k].hash = b
  BY Zenon, <1>1 DEF Hashes, EntryOf
<1>3. \A i \in 1 .. n : q[i].hash = b => i = k
  BY Zenon, <1>1, <1>2 DEF Distinct
<1>4. r = [i \in 1 .. n - 1 |-> IF i < k THEN q[i] ELSE q[i + 1]]
  BY Zenon DEF EraseEntry
<1> HIDE DEF k, n, r
<1>5. \A i \in 1 .. n - 1 : at(i) \in (1 .. n) \ {k} /\ r[i] = q[at(i)]
  BY <1>1, <1>2, <1>4
<1>6. \A j \in (1 .. n) \ {k} : \E i \in 1 .. n - 1 : at(i) = j
  <2> SUFFICES ASSUME NEW j \in (1 .. n) \ {k} PROVE \E i \in 1 .. n - 1 : at(i) = j
    BY Zenon
  <2>1. CASE j < k
    <3>1. j \in 1 .. n - 1 /\ at(j) = j
      BY <1>1, <1>2, <2>1
    <3>2. QED
      BY Zenon, <3>1
  <2>2. CASE j > k
    <3>1. j - 1 \in 1 .. n - 1 /\ at(j - 1) = j
      BY <1>1, <1>2, <2>2
    <3>2. QED
      BY Zenon, <3>1
  <2>3. QED
    BY <1>1, <1>2, <2>1, <2>2
<1>7. \A i, j \in 1 .. n - 1 : at(i) = at(j) => i = j
  BY <1>1, <1>2
<1>8. r \in Seq(Entries) /\ Len(r) = n - 1 /\ DOMAIN r = 1 .. n - 1
  <2>1. \A i \in 1 .. n - 1 : (IF i < k THEN q[i] ELSE q[i + 1]) \in Entries
    BY <1>1, <1>2
  <2>2. n - 1 \in Nat
    BY <1>1, <1>2
  <2>3. QED
    BY <1>4, <2>1, <2>2
<1> HIDE DEF at
<1>9. Distinct(r)
  BY <1>1, <1>5, <1>7, <1>8 DEF Distinct
<1>10. Hashes(r) = Hashes(q) \ {b}
  <2>1. ASSUME NEW i \in 1 .. n - 1 PROVE r[i].hash \in Hashes(q) \ {b}
    BY Zenon, <1>1, <1>3, <1>5 DEF Hashes
  <2>2. ASSUME NEW j \in 1 .. n, q[j].hash # b PROVE q[j].hash \in Hashes(r)
    BY Zenon, <1>2, <1>5, <1>6, <1>8, <2>2 DEF Hashes
  <2>3. QED
    BY Zenon, <1>1, <1>8, <2>1, <2>2 DEF Hashes
<1>11. ValidHashes(r) = ValidHashes(q) \ {b}
  <2>1. ASSUME NEW i \in 1 .. n - 1, r[i].fValidatedHeaders PROVE r[i].hash \in ValidHashes(q) \ {b}
    BY Zenon, <1>1, <1>3, <1>5, <2>1 DEF ValidHashes
  <2>2. ASSUME NEW j \in 1 .. n, q[j].hash # b, q[j].fValidatedHeaders PROVE q[j].hash \in ValidHashes(r)
    BY Zenon, <1>2, <1>5, <1>6, <1>8, <2>2 DEF ValidHashes
  <2>3. QED
    BY Zenon, <1>1, <1>8, <2>1, <2>2 DEF ValidHashes
<1>12. q[k].fValidatedHeaders <=> b \in ValidHashes(q)
  BY Zenon, <1>1, <1>2, <1>3 DEF ValidHashes
<1>13. QED
  BY Zenon, <1>8, <1>9, <1>10, <1>11, <1>12 DEF k, n, r

\* A request is added to a list.
LEMMA AppendEntryFacts ==
    ASSUME NEW q \in Seq(Entries), Distinct(q), NEW e \in Entries, e.hash \notin Hashes(q)
    PROVE  /\ Append(q, e) \in Seq(Entries) /\ Len(Append(q, e)) = Len(q) + 1 /\ Append(q, e) # <<>>
           /\ Distinct(Append(q, e)) /\ Hashes(Append(q, e)) = Hashes(q) \cup {e.hash}
           /\ ValidHashes(Append(q, e)) = ValidHashes(q) \cup IF e.fValidatedHeaders THEN {e.hash} ELSE {}
<1> DEFINE n == Len(q)
           r == Append(q, e)
<1>1. n \in Nat /\ DOMAIN q = 1 .. n /\ \A i \in 1 .. n : q[i] \in Entries
  BY Zenon, ListFacts
<1>2. /\ r \in Seq(Entries) /\ Len(r) = n + 1 /\ DOMAIN r = 1 .. n + 1 /\ r # <<>>
      /\ \A i \in 1 .. n : r[i] = q[i]
      /\ r[n + 1] = e
  BY SMTT(20), <1>1
<1> HIDE DEF n, r
<1>3. \A i \in 1 .. n + 1 : i = n + 1 \/ i \in 1 .. n
  BY <1>1
<1>4. 1 .. n \subseteq 1 .. n + 1 /\ n + 1 \in 1 .. n + 1
  BY <1>1
<1>5. \A i \in 1 .. n : q[i].hash # e.hash
  BY Zenon, <1>1 DEF Hashes
<1>6. Distinct(r)
  BY Zenon, <1>1, <1>2, <1>3, <1>4, <1>5 DEF Distinct
<1>7. Hashes(r) = Hashes(q) \cup {e.hash}
  BY Zenon, <1>1, <1>2, <1>3, <1>4 DEF Hashes
<1>8. ValidHashes(r) = ValidHashes(q) \cup IF e.fValidatedHeaders THEN {e.hash} ELSE {}
  <2>1. ASSUME NEW i \in 1 .. n, q[i].fValidatedHeaders PROVE q[i].hash \in ValidHashes(r)
    BY Zenon, <1>2, <1>4, <2>1 DEF ValidHashes
  <2>2. ASSUME e.fValidatedHeaders PROVE e.hash \in ValidHashes(r)
    BY Zenon, <1>2, <1>4, <2>2 DEF ValidHashes
  <2>3. ASSUME NEW h \in ValidHashes(r) PROVE h \in ValidHashes(q) \/ (e.fValidatedHeaders /\ h = e.hash)
    <3>1. PICK i \in 1 .. n + 1 : r[i].fValidatedHeaders /\ h = r[i].hash
      BY Zenon, <1>2, <2>3 DEF ValidHashes
    <3>2. CASE i = n + 1
      BY Zenon, <1>2, <3>1, <3>2
    <3>3. CASE i \in 1 .. n
      BY Zenon, <1>1, <1>2, <3>1, <3>3 DEF ValidHashes
    <3>4. QED
      BY Zenon, <1>3, <3>2, <3>3
  <2>4. ASSUME NEW h \in ValidHashes(q) PROVE h \in ValidHashes(r)
    BY Zenon, <1>1, <2>1, <2>4 DEF ValidHashes
  <2>5. QED
    BY Zenon, <2>2, <2>3, <2>4
<1>9. QED
  BY Zenon, <1>2, <1>6, <1>7, <1>8 DEF n, r
-----------------------------------------------------------------------------
(* The net of requests *)

\* The types of a net.
LEMMA NetFacts ==
    ASSUME NEW n \in Nets
    PROVE  /\ n = [node |-> n.node, inFlight |-> n.inFlight, queued |-> n.queued]
           /\ n.node \in Maps(Peers, NodeStates) /\ n.inFlight \in Maps(Blocks, Peers) /\ n.queued \in Int
           /\ DOMAIN n.node \subseteq Peers /\ n.node \in [DOMAIN n.node -> NodeStates]
           /\ DOMAIN n.inFlight \subseteq Blocks /\ n.inFlight \in [DOMAIN n.inFlight -> Peers]
<1>1. /\ n = [node |-> n.node, inFlight |-> n.inFlight, queued |-> n.queued]
      /\ n.node \in Maps(Peers, NodeStates) /\ n.inFlight \in Maps(Blocks, Peers) /\ n.queued \in Int
  BY Zenon DEF Nets
<1>2. DOMAIN n.node \subseteq Peers /\ n.node \in [DOMAIN n.node -> NodeStates]
  BY Zenon, <1>1 DEF Maps
<1>3. DOMAIN n.inFlight \subseteq Blocks /\ n.inFlight \in [DOMAIN n.inFlight -> Peers]
  BY Zenon, <1>1 DEF Maps
<1>4. QED
  BY Zenon, <1>1, <1>2, <1>3

\* The types of a peer's state.
LEMMA StateFacts ==
    ASSUME NEW s \in NodeStates
    PROVE  /\ s.best \in Blocks \cup {None} /\ s.unknown \in Blocks \cup {None} /\ s.common \in Blocks \cup {None}
           /\ s.fSyncStarted \in BOOLEAN /\ s.stalling \in Int \cup {None} /\ s.vBlocksInFlight \in Seq(Entries)
           /\ s.nBlocksInFlight \in Int /\ s.nValidHeaders \in Int /\ s.fPreferredDownload \in BOOLEAN
           /\ s.fShouldBan \in BOOLEAN /\ s.version \in BOOLEAN /\ s.fDisconnect \in BOOLEAN
  BY Zenon DEF NodeStates, Lists

\* The requests a peer owes, by mapBlocksInFlight.
Owed(I, p) == {b \in DOMAIN I : I[b] = p}

\* A net with another state of a peer, and other requests of it only.
PutPeer(n, p, s, I, k) == [node |-> [n.node EXCEPT ![p] = s], inFlight |-> I, queued |-> k]

LEMMA PutPeerFacts ==
    ASSUME NEW n, Linked(n), NEW p \in DOMAIN n.node, NEW s \in NodeStates, ListOK(s), NEW k \in Int,
           NEW I, I \in Maps(Blocks, DOMAIN n.node), IsFiniteSet(DOMAIN I),
           \A q \in DOMAIN n.node \ {p} : Owed(I, q) = Owed(n.inFlight, q),
           Hashes(s.vBlocksInFlight) = Owed(I, p)
    PROVE  /\ Linked(PutPeer(n, p, s, I, k)) /\ DOMAIN PutPeer(n, p, s, I, k).node = DOMAIN n.node
           /\ PutPeer(n, p, s, I, k).node[p] = s
           /\ \A q \in DOMAIN n.node \ {p} : PutPeer(n, p, s, I, k).node[q] = n.node[q]
           /\ AllValid(PutPeer(n, p, s, I, k)) =
                (AllValid(n) \ ValidHashes(n.node[p].vBlocksInFlight)) \cup ValidHashes(s.vBlocksInFlight)
<1> DEFINE m == PutPeer(n, p, s, I, k)
           D == DOMAIN n.node
           v(q) == ValidHashes(n.node[q].vBlocksInFlight)
<1>1. n \in Nets /\ Joined(n)
  BY Zenon DEF Linked
<1>2. D \subseteq Peers /\ n.node \in [D -> NodeStates] /\ n.inFlight \in [DOMAIN n.inFlight -> Peers]
  BY Zenon, <1>1, NetFacts
<1>3. m.node = [n.node EXCEPT ![p] = s] /\ m.inFlight = I /\ m.queued = k
  BY Zenon DEF PutPeer
<1>4. DOMAIN m.node = D /\ m.node[p] = s /\ \A q \in D \ {p} : m.node[q] = n.node[q]
  BY Zenon, <1>2, <1>3
<1>5. m \in Nets
  <2>1. m.node \in [D -> NodeStates]
    BY Zenon, <1>2, <1>3
  <2>2. m.node \in Maps(Peers, NodeStates)
    BY Zenon, <1>2, <2>1 DEF Maps
  <2>3. I \in Maps(Blocks, Peers)
    <3>1. DOMAIN I \subseteq Blocks /\ I \in [DOMAIN I -> D]
      BY Zenon DEF Maps
    <3>2. I \in [DOMAIN I -> Peers]
      BY Zenon, <1>2, <3>1
    <3>3. QED
      BY Zenon, <3>1, <3>2 DEF Maps
  <2>4. m = [node |-> m.node, inFlight |-> I, queued |-> k]
    BY Zenon, <1>3 DEF PutPeer
  <2> HIDE DEF m
  <2>5. QED
    BY <2>2, <2>3, <2>4 DEF Nets
<1> HIDE DEF m
<1>6. Joined(m)
  <2>1. \A b \in DOMAIN I : I[b] \in D
    BY Zenon DEF Maps
  <2>2. ASSUME NEW q \in D
        PROVE  ListOK(m.node[q]) /\ Hashes(m.node[q].vBlocksInFlight) = Owed(I, q)
    <3>1. CASE q = p
      BY Zenon, <1>4, <3>1
    <3>2. CASE q # p
      <4>1. ListOK(n.node[q]) /\ Hashes(n.node[q].vBlocksInFlight) = Owed(n.inFlight, q)
        BY Zenon, <1>1 DEF Joined, Owed
      <4>2. QED
        BY Zenon, <1>4, <3>2, <4>1
    <3>3. QED
      BY Zenon, <3>1, <3>2
  <2>3. QED
    BY Zenon, <1>3, <1>4, <2>1, <2>2 DEF Joined, Owed
<1>7. ASSUME NEW q \in D PROVE v(q) \subseteq Owed(n.inFlight, q)
  <2>1. Hashes(n.node[q].vBlocksInFlight) = Owed(n.inFlight, q)
    BY Zenon, <1>1 DEF Joined, Owed
  <2>2. n.node[q].vBlocksInFlight \in Seq(Entries)
    BY Zenon, <1>2, StateFacts
  <2>3. QED
    BY Zenon, <2>1, <2>2, ListFacts
<1>8. \A q \in D \ {p} : v(q) \cap v(p) = {}
  BY Zenon, <1>7 DEF Owed
<1>9. AllValid(m) = (AllValid(n) \ v(p)) \cup ValidHashes(s.vBlocksInFlight)
  <2>1. AllValid(n) = UNION {v(q) : q \in D}
    BY Zenon DEF AllValid
  <2>2. AllValid(m) = UNION {ValidHashes(m.node[q].vBlocksInFlight) : q \in D}
    BY Zenon, <1>4 DEF AllValid
  <2>3. \A q \in D \ {p} : ValidHashes(m.node[q].vBlocksInFlight) = v(q)
    BY Zenon, <1>4
  <2>4. ValidHashes(m.node[p].vBlocksInFlight) = ValidHashes(s.vBlocksInFlight)
    BY Zenon, <1>4
  <2> HIDE DEF D, v
  <2>5. p \in D
    BY Zenon DEF D
  <2>6. QED
    BY <1>8, <2>1, <2>2, <2>3, <2>4, <2>5
<1>10. QED
  BY Zenon, <1>4, <1>5, <1>6, <1>9 DEF Linked, m

\* How much nQueuedValidatedHeaders is ahead of the validated requests.
Surplus(n) == n.queued - Cardinality(AllValid(n))

LEMMA AllValidFacts ==
    ASSUME NEW n, Linked(n)
    PROVE  /\ AllValid(n) \subseteq DOMAIN n.inFlight
           /\ IsFiniteSet(AllValid(n)) /\ Cardinality(AllValid(n)) \in Nat
           /\ \A p \in DOMAIN n.node : AllValid(n) \cap Owed(n.inFlight, p) = ValidHashes(n.node[p].vBlocksInFlight)
<1>1. n \in Nets /\ Joined(n)
  BY Zenon DEF Linked
<1>2. ASSUME NEW p \in DOMAIN n.node PROVE ValidHashes(n.node[p].vBlocksInFlight) \subseteq Owed(n.inFlight, p)
  <2>1. Hashes(n.node[p].vBlocksInFlight) = Owed(n.inFlight, p)
    BY Zenon, <1>1 DEF Joined, Owed
  <2>2. n.node[p].vBlocksInFlight \in Seq(Entries)
    BY Zenon, <1>1, NetFacts, StateFacts
  <2>3. QED
    BY Zenon, <2>1, <2>2, ListFacts
<1>3. AllValid(n) \subseteq DOMAIN n.inFlight
  BY <1>2 DEF AllValid, Owed
<1>4. \A p \in DOMAIN n.node : AllValid(n) \cap Owed(n.inFlight, p) = ValidHashes(n.node[p].vBlocksInFlight)
  BY <1>2 DEF AllValid, Owed
<1>5. IsFiniteSet(AllValid(n)) /\ Cardinality(AllValid(n)) \in Nat
  <2> DEFINE F == DOMAIN n.inFlight
             A == AllValid(n)
  <2>1. IsFiniteSet(F) /\ A \in SUBSET F
    BY Zenon, <1>1, <1>3 DEF Joined
  <2> HIDE DEF F, A
  <2>2. IsFiniteSet(A)
    BY Zenon, <2>1, FS_Subset
  <2>3. QED
    BY Zenon, <2>2, FS_CardinalityType DEF A
<1>6. QED
  BY Zenon, <1>3, <1>4, <1>5

\* What a peer's state keeps when its requests change.
SameFields(s, t) ==
    /\ t.best = s.best /\ t.unknown = s.unknown /\ t.common = s.common /\ t.fSyncStarted = s.fSyncStarted
    /\ t.fPreferredDownload = s.fPreferredDownload /\ t.version = s.version

\* A peer's state with other requests.
NewList(s, l, i, j) == [s EXCEPT !.vBlocksInFlight = l, !.nBlocksInFlight = i, !.nValidHeaders = j]
LEMMA NewListFacts ==
    ASSUME NEW s \in NodeStates, NEW l \in Lists, NEW i \in Int, NEW j \in Int
    PROVE  /\ NewList(s, l, i, j) \in NodeStates /\ NewList(s, l, i, j).vBlocksInFlight = l
           /\ NewList(s, l, i, j).nBlocksInFlight = i /\ NewList(s, l, i, j).nValidHeaders = j
           /\ NewList(s, l, i, j).stalling = s.stalling /\ SameFields(s, NewList(s, l, i, j))
  BY Zenon DEF NodeStates, SameFields, NewList

\* A peer's state with another time left of its stall.
NewStall(s, x) == [s EXCEPT !.stalling = x]
LEMMA NewStallFacts ==
    ASSUME NEW s \in NodeStates, NEW x \in Int \cup {None}
    PROVE  /\ NewStall(s, x) \in NodeStates /\ NewStall(s, x).vBlocksInFlight = s.vBlocksInFlight
           /\ NewStall(s, x).nBlocksInFlight = s.nBlocksInFlight /\ NewStall(s, x).nValidHeaders = s.nValidHeaders
           /\ NewStall(s, x).stalling = x /\ SameFields(s, NewStall(s, x))
  BY Zenon DEF NodeStates, SameFields, NewStall

\* A peer's state is replaced by one with the same requests.
LEMMA SamePeerFacts ==
    ASSUME NEW n, Linked(n), NEW p \in DOMAIN n.node, NEW s \in NodeStates,
           SameList(n.node[p].vBlocksInFlight, s.vBlocksInFlight),
           s.nBlocksInFlight = n.node[p].nBlocksInFlight, s.nValidHeaders = n.node[p].nValidHeaders
    PROVE  /\ Linked([n EXCEPT !.node[p] = s]) /\ DOMAIN [n EXCEPT !.node[p] = s].node = DOMAIN n.node
           /\ [n EXCEPT !.node[p] = s].inFlight = n.inFlight /\ [n EXCEPT !.node[p] = s].queued = n.queued
           /\ [n EXCEPT !.node[p] = s].node[p] = s
           /\ \A q \in DOMAIN n.node \ {p} : [n EXCEPT !.node[p] = s].node[q] = n.node[q]
           /\ AllValid([n EXCEPT !.node[p] = s]) = AllValid(n)
<1> DEFINE m == [n EXCEPT !.node[p] = s]
           q == n.node[p].vBlocksInFlight
           r == s.vBlocksInFlight
           I == n.inFlight
<1>1. n \in Nets /\ Joined(n)
  BY Zenon DEF Linked
<1>2. m = PutPeer(n, p, s, I, n.queued) /\ m.inFlight = I /\ m.queued = n.queued
  BY <1>1, NetFacts DEF PutPeer
<1>3. Hashes(r) = Hashes(q) /\ ValidHashes(r) = ValidHashes(q) /\ (Distinct(q) => Distinct(r)) /\ Len(r) = Len(q)
  BY Zenon, SameListFacts DEF SameList
<1>4. ListOK(n.node[p]) /\ Hashes(q) = Owed(I, p) /\ IsFiniteSet(DOMAIN I) /\ n.queued \in Int
  BY Zenon, <1>1, NetFacts DEF Joined, Owed
<1>5. ListOK(s)
  BY Zenon, <1>3, <1>4 DEF ListOK
<1>6. I \in Maps(Blocks, DOMAIN n.node)
  <2>1. DOMAIN I \subseteq Blocks /\ I \in [DOMAIN I -> Peers] /\ \A b \in DOMAIN I : I[b] \in DOMAIN n.node
    BY Zenon, <1>1, NetFacts DEF Joined
  <2> HIDE DEF I
  <2>2. QED
    BY <2>1 DEF Maps
<1>7. ValidHashes(q) \subseteq AllValid(n)
  BY Zenon DEF AllValid
<1>8. Hashes(s.vBlocksInFlight) = Owed(I, p)
  BY Zenon, <1>3, <1>4
<1>9. ValidHashes(n.node[p].vBlocksInFlight) = ValidHashes(s.vBlocksInFlight)
  BY Zenon, <1>3
<1> DEFINE k == n.queued
<1> HIDE DEF k
<1>10. k \in Int /\ m = PutPeer(n, p, s, I, k)
  BY Zenon, <1>2, <1>4 DEF k
<1>11. \A x \in DOMAIN n.node \ {p} : Owed(I, x) = Owed(n.inFlight, x)
  BY Zenon
<1> HIDE DEF m, q, r, I
<1>12. /\ Linked(m) /\ DOMAIN m.node = DOMAIN n.node /\ m.node[p] = s
       /\ \A x \in DOMAIN n.node \ {p} : m.node[x] = n.node[x]
       /\ AllValid(m) = (AllValid(n) \ ValidHashes(n.node[p].vBlocksInFlight)) \cup ValidHashes(s.vBlocksInFlight)
  <2>1. IsFiniteSet(DOMAIN I)
    BY Zenon, <1>4
  <2>2. QED
    BY <1>5, <1>6, <1>8, <1>10, <1>11, <2>1, PutPeerFacts
<1>13. AllValid(m) = AllValid(n)
  BY Zenon, <1>7, <1>9, <1>12 DEF q
<1>14. QED
  BY Zenon, <1>2, <1>12, <1>13 DEF m, I

\* mapBlocksInFlight without one request, and with one more.
Without(I, b) == Restrict(I, DOMAIN I \ {b})
LEMMA EraseOwed ==
    ASSUME NEW V, NEW I \in Maps(Blocks, V), IsFiniteSet(DOMAIN I), NEW b \in DOMAIN I
    PROVE  /\ Without(I, b) \in Maps(Blocks, V)
           /\ DOMAIN Without(I, b) = DOMAIN I \ {b} /\ IsFiniteSet(DOMAIN Without(I, b))
           /\ \A q \in V : Owed(Without(I, b), q) = Owed(I, q) \ {b}
<1> DEFINE F == DOMAIN I
           J == Without(I, b)
<1>1. F \subseteq Blocks /\ I \in [F -> V] /\ IsFiniteSet(F)
  BY Zenon DEF Maps
<1>2. J = [c \in F \ {b} |-> I[c]]
  BY Zenon DEF Restrict, Without
<1>3. IsFiniteSet(F \ {b})
  <2> HIDE DEF F
  <2>1. QED
    BY Zenon, <1>1, FS_RemoveElement
<1> HIDE DEF F, J
<1>4. J \in [F \ {b} -> V] /\ F \ {b} \subseteq Blocks
  BY Zenon, <1>1, <1>2
<1>5. J \in Maps(Blocks, V)
  BY Zenon, <1>4 DEF Maps
<1>6. \A q \in V : Owed(J, q) = Owed(I, q) \ {b}
  BY Zenon, <1>2, <1>4 DEF Owed, F
<1>7. QED
  BY Zenon, <1>3, <1>4, <1>5, <1>6 DEF F, J

LEMMA AddOwed ==
    ASSUME NEW V, NEW I \in Maps(Blocks, V), IsFiniteSet(DOMAIN I), NEW b \in Blocks \ DOMAIN I, NEW p \in V,
           NEW J, J = [c \in DOMAIN I \cup {b} |-> IF c = b THEN p ELSE I[c]]
    PROVE  /\ J \in Maps(Blocks, V)
           /\ DOMAIN J = DOMAIN I \cup {b} /\ IsFiniteSet(DOMAIN J)
           /\ Owed(J, p) = Owed(I, p) \cup {b} /\ \A q \in V \ {p} : Owed(J, q) = Owed(I, q)
<1> DEFINE F == DOMAIN I
<1>1. F \subseteq Blocks /\ I \in [F -> V] /\ IsFiniteSet(F)
  BY Zenon DEF Maps
<1>2. IsFiniteSet(F \cup {b})
  <2> HIDE DEF F
  <2>1. QED
    BY Zenon, <1>1, FS_AddElement
<1> HIDE DEF F
<1>3. J = [c \in F \cup {b} |-> IF c = b THEN p ELSE I[c]]
  BY Zenon DEF F
<1>4. J \in [F \cup {b} -> V] /\ F \cup {b} \subseteq Blocks
  BY Zenon, <1>1, <1>3
<1>5. J \in Maps(Blocks, V)
  BY Zenon, <1>4 DEF Maps
<1>6. Owed(J, p) = Owed(I, p) \cup {b} /\ \A q \in V \ {p} : Owed(J, q) = Owed(I, q)
  BY Zenon, <1>1, <1>3, <1>4 DEF Owed, F
<1>7. QED
  BY Zenon, <1>2, <1>4, <1>5, <1>6 DEF F

\* The peer is not asked for the block any more.
Delivered(n, m, b) ==
    /\ Linked(m) /\ DOMAIN m.node = DOMAIN n.node /\ DOMAIN m.inFlight = DOMAIN n.inFlight \ {b}
    /\ Surplus(m) = Surplus(n)
    /\ \A q \in DOMAIN n.node :
        /\ SameFields(n.node[q], m.node[q])
        /\ m.node[q].nBlocksInFlight <= n.node[q].nBlocksInFlight
        /\ m.node[q] = n.node[q] \/ m.node[q].stalling = None

LEMMA ReceivedFacts ==
    ASSUME NEW n, Linked(n), NEW b
    PROVE  Delivered(n, MarkBlockAsReceived(n, b), b)
<1>1. n \in Nets /\ Joined(n)
  BY Zenon DEF Linked
<1> DEFINE D == DOMAIN n.node
           I == n.inFlight
<1>2. /\ n.node \in [D -> NodeStates] /\ DOMAIN I \subseteq Blocks /\ I \in [DOMAIN I -> Peers] /\ n.queued \in Int
      /\ \A c \in DOMAIN I : I[c] \in D
      /\ IsFiniteSet(DOMAIN I)
  BY Zenon, <1>1, NetFacts DEF Joined
<1>3. CASE b \notin DOMAIN I
  <2>1. MarkBlockAsReceived(n, b) = n
    BY Zenon, <1>3 DEF MarkBlockAsReceived
  <2>2. \A q \in D : n.node[q].nBlocksInFlight \in Int
    BY Zenon, <1>2, StateFacts
  <2>3. \A q \in D : n.node[q].nBlocksInFlight <= n.node[q].nBlocksInFlight
    BY <2>2
  <2>4. QED
    BY Zenon, <1>3, <2>1, <2>3 DEF Delivered, SameFields
<1>4. CASE b \in DOMAIN I
  <2> DEFINE p == I[b]
             s == n.node[p]
             q == s.vBlocksInFlight
             one == OneIf(q[EntryOf(q, b)].fValidatedHeaders)
             t == [s EXCEPT !.vBlocksInFlight = EraseEntry(q, b), !.nBlocksInFlight = @ - 1,
                            !.nValidHeaders = @ - one, !.stalling = None]
             J == Restrict(I, DOMAIN I \ {b})
             m == MarkBlockAsReceived(n, b)
  <2>1. p \in D /\ s \in NodeStates
    BY Zenon, <1>2, <1>4
  <2>2. q \in Seq(Entries) /\ s.nBlocksInFlight \in Int /\ s.nValidHeaders \in Int
    BY Zenon, <2>1, StateFacts
  <2>3. ListOK(s) /\ Hashes(q) = Owed(I, p) /\ b \in Hashes(q)
    BY Zenon, <1>1, <1>4, <2>1 DEF Joined, Owed
  <2>4. Distinct(q) /\ s.nBlocksInFlight = Len(q) /\ s.nValidHeaders = Cardinality(ValidHashes(q))
    BY Zenon, <2>3 DEF ListOK
  <2>5. m = PutPeer(n, p, t, J, n.queued - one)
    <3>1. [n.node EXCEPT ![p].vBlocksInFlight = EraseEntry(q, b), ![p].nBlocksInFlight = @ - 1,
                         ![p].nValidHeaders = @ - one, ![p].stalling = None] = [n.node EXCEPT ![p] = t]
      BY Zenon, <1>2, <2>1
    <3>2. QED
      BY Zenon, <1>4, <3>1 DEF MarkBlockAsReceived, PutPeer
  <2> DEFINE r == EraseEntry(q, b)
             W == ValidHashes(q)
             k == n.queued - one
  <2> HIDE DEF t, J, m, one
  <2>6. /\ r \in Seq(Entries) /\ Len(r) = Len(q) - 1 /\ Distinct(r) /\ Hashes(r) = Hashes(q) \ {b}
        /\ ValidHashes(r) = W \ {b} /\ (q[EntryOf(q, b)].fValidatedHeaders <=> b \in W)
    <3> HIDE DEF q
    <3>1. QED
      BY Zenon, <2>2, <2>3, <2>4, EraseEntryFacts
  <2>7. one = IF b \in W THEN 1 ELSE 0
    BY Zenon, <2>6 DEF OneIf, one
  <2>8. W \subseteq AllValid(n) /\ (b \in AllValid(n) <=> b \in W)
    <3>1. AllValid(n) \cap Owed(I, p) = W
      BY Zenon, <2>1, AllValidFacts
    <3>2. b \in Owed(I, p)
      BY Zenon, <2>3
    <3>3. QED
      BY Zenon, <3>1, <3>2
  <2>9. Cardinality(ValidHashes(r)) = Cardinality(W) - one
    <3>1. IsFiniteSet(AllValid(n)) /\ W \in SUBSET AllValid(n)
      BY Zenon, <2>8, AllValidFacts
    <3> HIDE DEF W, one, r
    <3>2. IsFiniteSet(W)
      BY Zenon, <3>1, FS_Subset
    <3>3. Cardinality(W) \in Nat
      BY Zenon, <3>2, FS_CardinalityType
    <3>4. Cardinality(W \ {b}) = IF b \in W THEN Cardinality(W) - 1 ELSE Cardinality(W)
      BY Zenon, <3>2, FS_RemoveElement
    <3>5. QED
      BY <2>6, <2>7, <3>3, <3>4
  <2>10. /\ t \in NodeStates /\ t.vBlocksInFlight = r /\ t.nBlocksInFlight = s.nBlocksInFlight - 1
         /\ t.nValidHeaders = s.nValidHeaders - one /\ t.stalling = None /\ SameFields(s, t)
    <3>1. one \in Int
      BY <2>7
    <3> HIDE DEF one, s
    <3>2. r \in Seq(Entries)
      BY Zenon, <2>6
    <3> HIDE DEF r
    <3> DEFINE i == s.nBlocksInFlight - 1
               j == s.nValidHeaders - one
               u == NewList(s, r, i, j)
    <3>3. t = NewStall(u, None)
      BY Zenon, <2>1 DEF r, t, NodeStates, NewList, NewStall
    <3>4. r \in Lists /\ i \in Int /\ j \in Int
      BY <2>2, <3>1, <3>2 DEF Lists, s
    <3>5. i = s.nBlocksInFlight - 1 /\ j = s.nValidHeaders - one
      BY Zenon
    <3> HIDE DEF i, j, t
    <3>6. /\ u \in NodeStates /\ u.vBlocksInFlight = r /\ u.nBlocksInFlight = i /\ u.nValidHeaders = j
          /\ SameFields(s, u)
      BY <2>1, <3>4, NewListFacts
    <3> HIDE DEF u
    <3>7. /\ t \in NodeStates /\ t.vBlocksInFlight = u.vBlocksInFlight /\ t.nBlocksInFlight = u.nBlocksInFlight
          /\ t.nValidHeaders = u.nValidHeaders /\ t.stalling = None /\ SameFields(u, t)
      BY Zenon, <3>3, <3>6, NewStallFacts
    <3>8. SameFields(s, t)
      BY Zenon, <3>6, <3>7 DEF SameFields
    <3>9. QED
      BY Zenon, <3>5, <3>6, <3>7, <3>8
  <2>11. ListOK(t)
    BY Zenon, <2>4, <2>6, <2>9, <2>10 DEF ListOK
  <2> HIDE DEF r, W
  <2>12. I \in Maps(Blocks, D)
    <3> HIDE DEF I, D
    <3>1. QED
      BY <1>2 DEF Maps
  <2>13. /\ J \in Maps(Blocks, D) /\ DOMAIN J = DOMAIN I \ {b} /\ IsFiniteSet(DOMAIN J)
         /\ \A x \in D : Owed(J, x) = Owed(I, x) \ {b}
    <3>0. J = Without(I, b)
      BY Zenon DEF Without, J
    <3> HIDE DEF I, D, J
    <3>1. IsFiniteSet(DOMAIN I) /\ b \in DOMAIN I
      BY Zenon, <1>2, <1>4
    <3> HIDE DEF p, t, m
    <3>2. QED
      BY <2>12, <3>0, <3>1, EraseOwed
  <2>14. \A x \in D \ {p} : Owed(J, x) = Owed(n.inFlight, x)
    BY Zenon, <2>1, <2>13 DEF Owed
  <2>15. Hashes(t.vBlocksInFlight) = Owed(J, p)
    BY Zenon, <2>1, <2>3, <2>6, <2>10, <2>13
  <2>16. k \in Int
    BY <1>2, <2>7
  <2>17. m = PutPeer(n, p, t, J, k)
    BY Zenon, <2>5
  <2>18. k = n.queued - one /\ m.queued = k /\ m.inFlight = J
    <3>1. k = n.queued - one
      BY Zenon
    <3> HIDE DEF k, p, I
    <3>2. m.queued = k /\ m.inFlight = J
      BY Zenon, <2>17 DEF PutPeer
    <3>3. QED
      BY Zenon, <3>1, <3>2
  <2> HIDE DEF k, p
  <2>19. /\ Linked(m) /\ DOMAIN m.node = DOMAIN n.node /\ m.node[p] = t
         /\ \A x \in DOMAIN n.node \ {p} : m.node[x] = n.node[x]
         /\ AllValid(m) = (AllValid(n) \ ValidHashes(n.node[p].vBlocksInFlight)) \cup ValidHashes(t.vBlocksInFlight)
    BY <2>1, <2>10, <2>11, <2>13, <2>14, <2>15, <2>16, <2>17, PutPeerFacts
  <2>20. AllValid(m) = AllValid(n) \ {b}
    <3>1. ValidHashes(n.node[p].vBlocksInFlight) = W
      BY Zenon DEF W
    <3>2. ValidHashes(t.vBlocksInFlight) = W \ {b}
      BY Zenon, <2>6, <2>10
    <3>3. AllValid(m) = (AllValid(n) \ W) \cup (W \ {b})
      BY Zenon, <2>19, <3>1, <3>2
    <3>4. QED
      BY Zenon, <2>8, <3>3
  <2>21. Surplus(m) = Surplus(n)
    <3> DEFINE A == AllValid(n)
    <3>1. IsFiniteSet(A) /\ Cardinality(A) \in Nat
      BY Zenon, AllValidFacts
    <3>2. one = IF b \in A THEN 1 ELSE 0
      BY Zenon, <2>7, <2>8
    <3> HIDE DEF A, one
    <3>3. Cardinality(A \ {b}) = IF b \in A THEN Cardinality(A) - 1 ELSE Cardinality(A)
      BY Zenon, <3>1, FS_RemoveElement
    <3>4. Cardinality(AllValid(m)) = Cardinality(A) - one
      BY <2>20, <3>1, <3>2, <3>3 DEF A
    <3>5. QED
      BY <1>2, <2>18, <3>1, <3>2, <3>4 DEF Surplus, A
  <2>22. ASSUME NEW x \in D
         PROVE  /\ SameFields(n.node[x], m.node[x])
                /\ m.node[x].nBlocksInFlight <= n.node[x].nBlocksInFlight
                /\ m.node[x] = n.node[x] \/ m.node[x].stalling = None
    <3>1. CASE x = p
      BY <2>2, <2>10, <2>19, <3>1
    <3>2. CASE x # p
      <4>1. m.node[x] = n.node[x] /\ n.node[x].nBlocksInFlight \in Int
        BY Zenon, <1>2, <2>19, <3>2, StateFacts
      <4>2. QED
        BY <4>1 DEF SameFields
    <3>3. QED
      BY Zenon, <3>1, <3>2
  <2>23. QED
    BY Zenon, <2>13, <2>18, <2>19, <2>21, <2>22 DEF Delivered, m
<1>5. QED
  BY Zenon, <1>3, <1>4

\* A peer is asked for a block that nobody was asked for.
Asked(n, m, p, b) ==
    /\ Linked(m) /\ DOMAIN m.node = DOMAIN n.node /\ DOMAIN m.inFlight = DOMAIN n.inFlight \cup {b}
    /\ Surplus(m) = Surplus(n)
    /\ \A q \in DOMAIN n.node \ {p} : m.node[q] = n.node[q]
    /\ SameFields(n.node[p], m.node[p])
    /\ m.node[p].nBlocksInFlight = n.node[p].nBlocksInFlight + 1
    /\ m.node[p].vBlocksInFlight # <<>>

LEMMA InFlightFacts ==
    ASSUME NEW n, Linked(n), NEW p \in DOMAIN n.node, NEW b \in Blocks \ DOMAIN n.inFlight, NEW valid \in BOOLEAN
    PROVE  Asked(n, MarkBlockAsInFlight(n, p, b, valid), p, b)
<1>1. n \in Nets /\ Joined(n)
  BY Zenon DEF Linked
<1> DEFINE D == DOMAIN n.node
           I == n.inFlight
<1>2. /\ n.node \in [D -> NodeStates] /\ DOMAIN I \subseteq Blocks /\ I \in [DOMAIN I -> Peers] /\ n.queued \in Int
      /\ \A c \in DOMAIN I : I[c] \in D
      /\ IsFiniteSet(DOMAIN I)
  BY Zenon, <1>1, NetFacts DEF Joined
<1> DEFINE s == n.node[p]
           q == s.vBlocksInFlight
           one == OneIf(valid)
           e == [hash |-> b, fValidatedHeaders |-> valid, left |-> GetBlockTimeout(n.queued)]
           t == [s EXCEPT !.vBlocksInFlight = Append(q, e), !.nBlocksInFlight = @ + 1, !.nValidHeaders = @ + one]
           J == [c \in DOMAIN I \cup {b} |-> IF c = b THEN p ELSE I[c]]
           m == MarkBlockAsInFlight(n, p, b, valid)
<1>3. s \in NodeStates /\ q \in Seq(Entries) /\ s.nBlocksInFlight \in Int /\ s.nValidHeaders \in Int
  BY Zenon, <1>2, StateFacts
<1>4. ListOK(s) /\ Hashes(q) = Owed(I, p)
  BY Zenon, <1>1 DEF Joined, Owed
<1>5. Distinct(q) /\ s.nBlocksInFlight = Len(q) /\ s.nValidHeaders = Cardinality(ValidHashes(q)) /\ b \notin Hashes(q)
  BY Zenon, <1>4 DEF ListOK, Owed
<1>6. e \in Entries /\ e.hash = b /\ e.fValidatedHeaders = valid
  BY <1>2, BlockDownloadAssumption DEF Entries, GetBlockTimeout
<1>7. m = PutPeer(n, p, t, J, n.queued + one)
  <2>1. MarkBlockAsReceived(n, b) = n
    BY Zenon DEF MarkBlockAsReceived
  <2>2. [n.node EXCEPT ![p].vBlocksInFlight = Append(@, e), ![p].nBlocksInFlight = @ + 1,
                       ![p].nValidHeaders = @ + one] = [n.node EXCEPT ![p] = t]
    <3> HIDE DEF e, one
    <3>1. QED
      BY Zenon, <1>2
  <2>3. QED
    BY Zenon, <2>1, <2>2 DEF MarkBlockAsInFlight, PutPeer
<1> DEFINE r == Append(q, e)
           W == ValidHashes(q)
<1>8. /\ r \in Seq(Entries) /\ Len(r) = Len(q) + 1 /\ r # <<>> /\ Distinct(r) /\ Hashes(r) = Hashes(q) \cup {b}
      /\ ValidHashes(r) = W \cup IF valid THEN {b} ELSE {}
  <2> HIDE DEF q, e
  <2>1. QED
    BY Zenon, <1>3, <1>5, <1>6, AppendEntryFacts
<1>9. one = IF valid THEN 1 ELSE 0
  BY Zenon DEF OneIf
<1>10. W \subseteq AllValid(n) /\ b \notin AllValid(n)
  BY Zenon, AllValidFacts DEF AllValid
<1>11. ASSUME NEW A, IsFiniteSet(A), b \notin A
       PROVE  Cardinality(A) \in Nat /\ Cardinality(A \cup IF valid THEN {b} ELSE {}) = Cardinality(A) + one
  <2>1. Cardinality(A) \in Nat
    BY Zenon, <1>11, FS_CardinalityType
  <2>2. Cardinality(A \cup {b}) = Cardinality(A) + 1
    BY Zenon, <1>11, FS_AddElement
  <2>3. A \cup {} = A
    BY Zenon
  <2>4. CASE valid
    BY Zenon, <1>9, <2>1, <2>2, <2>4
  <2>5. CASE ~valid
    BY <1>9, <2>1, <2>3, <2>5
  <2>6. QED
    BY Zenon, <2>4, <2>5
<1>12. Cardinality(ValidHashes(r)) = Cardinality(W) + one
  <2>1. IsFiniteSet(AllValid(n)) /\ W \in SUBSET AllValid(n) /\ b \notin W
    BY Zenon, <1>10, AllValidFacts
  <2> HIDE DEF W, one, r
  <2>2. IsFiniteSet(W)
    BY Zenon, <2>1, FS_Subset
  <2>3. QED
    BY Zenon, <1>8, <1>11, <2>1, <2>2
<1>13. /\ t \in NodeStates /\ t.vBlocksInFlight = r /\ t.nBlocksInFlight = s.nBlocksInFlight + 1
       /\ t.nValidHeaders = s.nValidHeaders + one /\ SameFields(s, t)
  <2>1. one \in Int
    BY <1>9
  <2> HIDE DEF one, s
  <2>2. r \in Seq(Entries)
    BY Zenon, <1>8
  <2> HIDE DEF r
  <2> DEFINE i == s.nBlocksInFlight + 1
             j == s.nValidHeaders + one
  <2>3. t = NewList(s, r, i, j)
    BY Zenon, <1>3 DEF r, NodeStates, NewList
  <2>4. r \in Lists /\ i \in Int /\ j \in Int
    BY <1>3, <2>1, <2>2 DEF Lists
  <2>5. i = s.nBlocksInFlight + 1 /\ j = s.nValidHeaders + one
    BY Zenon
  <2> HIDE DEF i, j, t
  <2>6. QED
    BY <1>3, <2>3, <2>4, <2>5, NewListFacts
<1>14. ListOK(t)
  BY Zenon, <1>5, <1>8, <1>12, <1>13 DEF ListOK
<1>15. I \in Maps(Blocks, D)
  <2> HIDE DEF I, D
  <2>1. QED
    BY <1>2 DEF Maps
<1>16. /\ J \in Maps(Blocks, D) /\ DOMAIN J = DOMAIN I \cup {b} /\ IsFiniteSet(DOMAIN J)
       /\ Owed(J, p) = Owed(I, p) \cup {b} /\ \A x \in D \ {p} : Owed(J, x) = Owed(I, x)
  <2>1. b \in Blocks \ DOMAIN I /\ p \in D /\ J = [c \in DOMAIN I \cup {b} |-> IF c = b THEN p ELSE I[c]]
    BY Zenon
  <2> HIDE DEF I, D, J
  <2>2. QED
    BY <1>2, <1>15, <2>1, AddOwed
<1>17. Hashes(t.vBlocksInFlight) = Owed(J, p)
  BY Zenon, <1>4, <1>8, <1>13, <1>16
<1> DEFINE k == n.queued + one
<1>18. k \in Int /\ m = PutPeer(n, p, t, J, k)
  BY <1>2, <1>7, <1>9
<1>19. k = n.queued + one /\ m.queued = k /\ m.inFlight = J
  BY <1>18 DEF PutPeer
<1> HIDE DEF t, J, m, k
<1>20. /\ Linked(m) /\ DOMAIN m.node = DOMAIN n.node /\ m.node[p] = t
       /\ \A x \in DOMAIN n.node \ {p} : m.node[x] = n.node[x]
       /\ AllValid(m) = (AllValid(n) \ ValidHashes(n.node[p].vBlocksInFlight)) \cup ValidHashes(t.vBlocksInFlight)
  <2>1. t \in NodeStates
    BY Zenon, <1>13
  <2>2. J \in Maps(Blocks, DOMAIN n.node) /\ IsFiniteSet(DOMAIN J)
    BY Zenon, <1>16
  <2>3. \A x \in DOMAIN n.node \ {p} : Owed(J, x) = Owed(n.inFlight, x)
    BY Zenon, <1>16
  <2>4. QED
    BY SMTT(20), <1>14, <1>17, <1>18, <2>1, <2>2, <2>3, PutPeerFacts
<1>21. AllValid(m) = AllValid(n) \cup IF valid THEN {b} ELSE {}
  BY Zenon, <1>8, <1>10, <1>13, <1>20
<1>22. Surplus(m) = Surplus(n)
  <2> DEFINE A == AllValid(n)
  <2>1. IsFiniteSet(A) /\ b \notin A
    BY Zenon, <1>10, AllValidFacts
  <2>2. one \in Int
    BY <1>9
  <2> HIDE DEF A, one
  <2>3. Cardinality(A) \in Nat /\ Cardinality(AllValid(m)) = Cardinality(A) + one
    BY Zenon, <1>11, <1>21, <2>1 DEF A
  <2>4. QED
    BY <1>2, <1>19, <2>2, <2>3 DEF Surplus, A
<1>23. QED
  BY Zenon, <1>8, <1>13, <1>16, <1>19, <1>20, <1>22 DEF Asked, m
-----------------------------------------------------------------------------
(* FindNextBlocksToDownload *)

\* Of blocks of one chain there is a highest and a lowest one.
LEMMA ExtremeBlocks ==
    ASSUME NEW b \in Blocks, NEW S \in SUBSET Chain(b), S # {}
    PROVE  /\ \E x \in S : \A c \in S : Height(c) <= Height(x)
           /\ \E x \in S : \A c \in S : Height(x) <= Height(c)
<1> DEFINE up == [c \in Blocks |-> Height(c)]
           down == [c \in Blocks |-> Height(b) - Height(c)]
<1>1. S \subseteq Blocks
  BY Zenon, ChainFacts
<1>2. ASSUME NEW c \in S
      PROVE  /\ Height(c) \in Nat /\ Height(b) \in Nat
             /\ up[c] = Height(c) /\ down[c] = Height(b) - Height(c) /\ down[c] \in Nat
  <2>1. Height(c) \in Nat /\ Height(b) \in Nat /\ Height(c) <= Height(b)
    BY <1>1, HeightFacts
  <2>2. QED
    BY <1>1, <2>1
<1> HIDE DEF up, down
<1>3. PICK x \in S : \A c \in S : down[x] <= down[c]
  BY Zenon, <1>2, LeastElement
<1>4. PICK y \in S : \A c \in S : up[y] <= up[c]
  BY <1>2, LeastElement
<1>5. \A c \in S : Height(c) <= Height(x)
  BY <1>2, <1>3
<1>6. \A c \in S : Height(y) <= Height(c)
  BY Zenon, <1>2, <1>4
<1>7. QED
  BY Zenon, <1>5, <1>6

\* The headers of a chain are known from the genesis block up.
LEMMA KnownChains ==
    ASSUME IndexInv, NEW b \in known
    PROVE  Chain(b) \subseteq known
<1> DEFINE S == {c \in Blocks : c \in known => Chain(c) \subseteq known}
<1>1. S \in SUBSET Blocks /\ Genesis \in S
  BY Zenon, ChainFacts DEF IndexInv
<1>2. ASSUME NEW c \in Blocks \ {Genesis}, Parent[c] \in S PROVE c \in S
  BY <1>2, ChainFacts DEF IndexInv
<1>3. S = Blocks
  <2> HIDE DEF S
  <2>1. QED
    BY Zenon, <1>1, <1>2, ByParent
<1>4. QED
  BY Zenon, <1>3 DEF IndexInv

\* What the search finds: blocks that are not there and nobody was asked for,
\* each once, and not too many.
LEMMA ToDownloadFacts ==
    ASSUME NEW s, s.best \in Blocks, NEW count \in Nat
    PROVE  /\ ToDownload(s, count) \in Seq(Blocks) /\ Len(ToDownload(s, count)) <= count
           /\ \A i \in 1 .. Len(ToDownload(s, count)) : Missing(ToDownload(s, count)[i])
           /\ \A i, j \in 1 .. Len(ToDownload(s, count)) :
                 ToDownload(s, count)[i] = ToDownload(s, count)[j] => i = j
<1> DEFINE N == Height(s.best)
           at(h) == AtHeight(s.best, h)
           Take(h, d) == Len(d) < count /\ at(h) \in Successors(s) /\ InWindow(s, at(h)) /\ Missing(at(h))
           V == Seq(Blocks)
           More(d, h) == IF Take(h, d) THEN Append(d, at(h)) ELSE d
           Loop(f) == f = [h \in 0 .. N |-> IF h = 0 THEN <<>> ELSE More(f[h - 1], h)]
           step == [x \in (0 .. N) \X V |-> More(x[2], x[1])]
           found == CHOOSE f : Loop(f)
<1>1. N \in Nat /\ \A h \in 0 .. N : at(h) \in Blocks /\ Height(at(h)) = h
  <2>1. N \in Nat
    BY Zenon, HeightFacts
  <2>2. ASSUME NEW h \in 0 .. N PROVE at(h) \in Blocks /\ Height(at(h)) = h
    BY Zenon, AtHeightFacts, ChainFacts
  <2>3. QED
    BY Zenon, <2>1, <2>2
<1>2. ToDownload(s, count) = found[N]
  BY Zenon DEF ToDownload
<1>3. \A h, d : Take(h, d) => Len(d) < count /\ Missing(at(h))
  BY Zenon
<1> HIDE DEF N, at, Take
<1>4. ASSUME NEW d \in V, NEW h \in 0 .. N PROVE More(d, h) \in V
  BY <1>1
<1>5. step \in [(0 .. N) \X V -> V]
  <2> HIDE DEF More, V
  <2>1. ASSUME NEW x \in (0 .. N) \X V PROVE More(x[2], x[1]) \in V
    BY Zenon, <1>4
  <2>2. QED
    BY Zenon, <2>1
<1>6. <<>> \in V
  OBVIOUS
<1> HIDE DEF V, More
<1>7. PICK f \in [0 .. N -> V] : Loops(f, N, <<>>, step)
  <2> HIDE DEF step
  <2>2. QED
    BY Zenon, <1>1, <1>5, <1>6, LineRecursion
<1>8. Loop(f)
  <2>1. ASSUME NEW i \in 0 .. N PROVE f[i] = IF i = 0 THEN <<>> ELSE More(f[i - 1], i)
    <3>1. CASE i = 0
      BY Zenon, <1>7, <3>1 DEF Loops
    <3>2. CASE i # 0
      <4>1. i \in 1 .. N /\ i - 1 \in 0 .. N
        BY <1>1, <3>2
      <4>2. f[i] = step[<<i, f[i - 1]>>] /\ <<i, f[i - 1]>> \in (0 .. N) \X V
        BY Zenon, <1>7, <4>1 DEF Loops
      <4>3. QED
        BY Zenon, <3>2, <4>2
    <3>3. QED
      BY Zenon, <3>1, <3>2
  <2>2. QED
    BY Zenon, <2>1
<1>9. Loop(found)
  <2> HIDE DEF Loop
  <2>1. QED
    BY Zenon, <1>8
<1>10. found[0] = <<>> /\ \A i \in 1 .. N : found[i] = More(found[i - 1], i)
  <2> HIDE DEF found
  <2>1. \A i \in 0 .. N : found[i] = IF i = 0 THEN <<>> ELSE More(found[i - 1], i)
    BY Zenon, <1>9
  <2>2. 0 \in 0 .. N /\ \A i \in 1 .. N : i \in 0 .. N /\ i # 0
    BY <1>1
  <2>3. QED
    BY Zenon, <2>1, <2>2
<1> HIDE DEF found, Loop, step
<1> DEFINE Fine(d, h) ==
             /\ d \in Seq(Blocks) /\ Len(d) <= count
             /\ \A i \in 1 .. Len(d) : Missing(d[i]) /\ Height(d[i]) <= h
             /\ \A i, j \in 1 .. Len(d) : d[i] = d[j] => i = j
           G == {h \in 0 .. N : Fine(found[h], h)}
<1>11. 0 \in G
  <2>1. found[0] = <<>> /\ 0 \in 0 .. N
    BY <1>1, <1>10
  <2>2. Fine(<<>>, 0)
    OBVIOUS
  <2> HIDE DEF Fine
  <2>3. QED
    BY Zenon, <2>1, <2>2
<1>12. ASSUME NEW h \in 1 .. N, h - 1 \in G PROVE h \in G
  <2> DEFINE d == found[h - 1]
             r == found[h]
             b == at(h)
  <2>1. /\ h \in 0 .. N /\ h \in Nat /\ h - 1 \in Nat /\ h - 1 < h
        /\ b \in Blocks /\ Height(b) = h /\ r = More(d, h) /\ Fine(d, h - 1)
    BY <1>1, <1>10, <1>12
  <2> HIDE DEF d, r
  <2>2. Len(d) \in Nat /\ \A i \in 1 .. Len(d) : d[i] \in Blocks /\ Height(d[i]) \in Nat /\ Height(d[i]) <= h /\ d[i] # b
    <3>1. Len(d) \in Nat /\ \A i \in 1 .. Len(d) : d[i] \in Blocks
      BY <2>1
    <3>2. QED
      BY <2>1, <3>1, HeightFacts
  <2>3. CASE Take(h, d)
    <3>1. r = Append(d, b) /\ Len(d) < count /\ Missing(b)
      BY Zenon, <1>3, <2>1, <2>3 DEF More
    <3> HIDE DEF b
    <3>2. /\ r \in Seq(Blocks) /\ Len(r) = Len(d) + 1 /\ r[Len(d) + 1] = b
          /\ \A i \in 1 .. Len(d) : r[i] = d[i]
      BY <2>1, <2>2, <3>1
    <3>3. \A i \in 1 .. Len(r) : i = Len(d) + 1 \/ i \in 1 .. Len(d)
      BY <2>2, <3>2
    <3>4. Len(r) <= count
      BY <2>2, <3>1, <3>2
    <3>5. \A i \in 1 .. Len(r) : Missing(r[i]) /\ Height(r[i]) <= h
      BY <2>1, <2>2, <3>1, <3>2, <3>3
    <3>6. \A i, j \in 1 .. Len(r) : r[i] = r[j] => i = j
      BY <2>1, <2>2, <3>2, <3>3
    <3>7. QED
      BY Zenon, <2>1, <3>2, <3>4, <3>5, <3>6 DEF r
  <2>4. CASE ~Take(h, d)
    <3>1. r = d
      BY Zenon, <2>1, <2>4 DEF More
    <3>2. QED
      BY Zenon, <2>1, <2>2, <3>1 DEF r
  <2>5. QED
    BY Zenon, <2>3, <2>4
<1>13. Fine(found[N], N)
  <2>1. G \in SUBSET (0 .. N) /\ N \in 0 .. N
    BY <1>1
  <2> HIDE DEF Fine
  <2>2. G = 0 .. N
    <3> HIDE DEF G
    <3>1. QED
      BY Zenon, <1>1, <1>11, <1>12, <2>1, LineInduction
  <2>3. QED
    BY Zenon, <2>1, <2>2
<1>14. QED
  BY Zenon, <1>2, <1>13

\* pindexLastCommonBlock stays on the chain the peer is known to have.
LEMMA NewCommonFacts ==
    ASSUME IndexInv, NEW s, s.best \in known, s.common \in known \cup {None}, NEW count
    PROVE  NewCommon(s, count) \in known
<1>1. known \subseteq Blocks /\ tip \in known /\ s.best \in Blocks /\ tip \in Blocks
  BY Zenon DEF IndexInv
<1>2. Chain(s.best) \subseteq known
  BY Zenon, KnownChains
<1>3. LastCommon(s) \in Chain(s.best)
  <2> DEFINE x == IF s.common # None THEN s.common
                  ELSE IF Height(s.best) <= Height(tip) THEN AtHeight(tip, Height(s.best)) ELSE tip
  <2>1. x \in Blocks
    <3>1. CASE s.common # None
      BY Zenon, <1>1, <3>1
    <3>2. CASE s.common = None /\ Height(s.best) <= Height(tip)
      <4>1. Height(s.best) \in 0 .. Height(tip)
        BY <1>1, <3>2, HeightFacts
      <4>2. AtHeight(tip, Height(s.best)) \in Blocks
        BY Zenon, <1>1, <4>1, AtHeightFacts, ChainFacts
      <4>3. QED
        BY Zenon, <3>2, <4>2
    <3>3. CASE s.common = None /\ ~(Height(s.best) <= Height(tip))
      BY Zenon, <1>1, <3>3
    <3>4. QED
      BY Zenon, <3>1, <3>2, <3>3
  <2>2. LastCommon(s) = Fork(x, s.best)
    BY Zenon DEF LastCommon
  <2> HIDE DEF x
  <2>3. QED
    BY Zenon, <1>1, <2>1, <2>2, ForkFacts
<1> DEFINE last == ToDownload(s, count)
           seen == {b \in Successors(s) :
                       /\ Chain(b) \subseteq have
                       /\ Len(last) = count => Height(b) < Height(last[count])}
<1>4. seen \in SUBSET Chain(s.best)
  BY Zenon DEF Successors
<1>5. NewCommon(s, count) = IF seen = {} THEN LastCommon(s)
                            ELSE CHOOSE b \in seen : \A c \in seen : Height(c) <= Height(b)
  BY Zenon DEF NewCommon
<1> HIDE DEF seen
<1>6. CASE seen # {}
  <2>1. \E b \in seen : \A c \in seen : Height(c) <= Height(b)
    BY Zenon, <1>1, <1>4, <1>6, ExtremeBlocks
  <2>2. NewCommon(s, count) \in seen
    BY Zenon, <1>5, <1>6, <2>1
  <2>3. QED
    BY Zenon, <1>2, <1>4, <2>2
<1>7. QED
  BY Zenon, <1>2, <1>3, <1>5, <1>6

\* The peer waited for owes a block.
LEMMA StallerFacts ==
    ASSUME NEW p, NEW s, s.best \in Blocks, Staller(p, s) # None
    PROVE  Staller(p, s) # p /\ \E b \in DOMAIN net.inFlight : net.inFlight[b] = Staller(p, s)
<1> DEFINE flying == {b \in Successors(s) : b \in DOMAIN net.inFlight}
           first == CHOOSE b \in flying : \A c \in flying : Height(b) <= Height(c)
<1>1. flying # {} /\ net.inFlight[first] # p /\ Staller(p, s) = net.inFlight[first]
  BY Zenon DEF Staller
<1>2. flying \in SUBSET Chain(s.best) /\ flying \subseteq DOMAIN net.inFlight
  BY Zenon DEF Successors
<1>3. first \in flying
  <2> HIDE DEF flying
  <2>1. \E b \in flying : \A c \in flying : Height(b) <= Height(c)
    BY Zenon, <1>1, <1>2, ExtremeBlocks
  <2>2. QED
    BY Zenon, <2>1
<1>4. QED
  BY Zenon, <1>1, <1>2, <1>3
-----------------------------------------------------------------------------
(* The requests SendMessages makes *)

\* A net after the first i requests for the blocks bs.
Filling(n, m, p, bs, i) ==
    /\ Linked(m) /\ DOMAIN m.node = DOMAIN n.node
    /\ DOMAIN m.inFlight = DOMAIN n.inFlight \cup {bs[j] : j \in 1 .. i}
    /\ Surplus(m) = Surplus(n)
    /\ \A q \in DOMAIN n.node \ {p} : m.node[q] = n.node[q]
    /\ SameFields(n.node[p], m.node[p])
    /\ m.node[p].nBlocksInFlight = n.node[p].nBlocksInFlight + i
    /\ m.node[p] = n.node[p] \/ m.node[p].vBlocksInFlight # <<>>

\* One block after the other.
Asking(g, n, p, bs, N) ==
    /\ g[0] = n
    /\ \A i \in 1 .. N :
          bs[i] \notin DOMAIN g[i - 1].inFlight => g[i] = MarkBlockAsInFlight(g[i - 1], p, bs[i], TRUE)

\* Blocks that nobody was asked for, each once.
Wanted(n, bs, N) ==
    /\ \A i \in 1 .. N : bs[i] \in Blocks \ DOMAIN n.inFlight
    /\ \A i, j \in 1 .. N : bs[i] = bs[j] => i = j

LEMMA AskingFacts ==
    ASSUME NEW n, Linked(n), NEW p \in DOMAIN n.node, NEW N \in Nat, NEW bs, Wanted(n, bs, N),
           NEW g, Asking(g, n, p, bs, N)
    PROVE  \A i \in 0 .. N : Filling(n, g[i], p, bs, i)
<1> DEFINE G == {i \in 0 .. N : Filling(n, g[i], p, bs, i)}
<1>1. n.node[p].nBlocksInFlight \in Int
  BY Zenon, NetFacts, StateFacts DEF Linked
<1>2. 0 \in G
  <2>1. {bs[j] : j \in 1 .. 0} = {}
    OBVIOUS
  <2>2. Filling(n, n, p, bs, 0)
    BY SMTT(20), <1>1, <2>1 DEF Filling, SameFields
  <2>3. QED
    BY <2>2 DEF Asking
<1>3. ASSUME NEW i \in 1 .. N, i - 1 \in G PROVE i \in G
  <2> DEFINE a == g[i - 1]
             m == g[i]
             b == bs[i]
  <2>1. /\ Filling(n, a, p, bs, i - 1) /\ i \in 0 .. N /\ b \in Blocks /\ i - 1 + 1 = i /\ i - 1 \in Int
        /\ \A j \in 1 .. i : j = i \/ j \in 1 .. (i - 1)
        /\ 1 .. (i - 1) \subseteq 1 .. i /\ i \in 1 .. i
    BY <1>3 DEF Wanted
  <2>2. b \notin DOMAIN a.inFlight
    <3>1. DOMAIN a.inFlight = DOMAIN n.inFlight \cup {bs[j] : j \in 1 .. (i - 1)}
      BY Zenon, <2>1 DEF Filling
    <3>2. \A j \in 1 .. (i - 1) : j \in 1 .. N /\ j # i
      OBVIOUS
    <3>3. QED
      BY Zenon, <3>1, <3>2 DEF Wanted
  <2>3. m = MarkBlockAsInFlight(a, p, b, TRUE)
    BY Zenon, <2>2 DEF Asking
  <2> HIDE DEF a, m, b
  <2>4. Linked(a) /\ DOMAIN a.node = DOMAIN n.node /\ p \in DOMAIN a.node
    BY Zenon, <2>1 DEF Filling
  <2>5. Asked(a, m, p, b)
    BY Zenon, <2>1, <2>2, <2>3, <2>4, InFlightFacts
  <2>6. DOMAIN m.inFlight = DOMAIN n.inFlight \cup {bs[j] : j \in 1 .. i}
    <3>1. DOMAIN m.inFlight = (DOMAIN n.inFlight \cup {bs[j] : j \in 1 .. (i - 1)}) \cup {b}
      BY Zenon, <2>1, <2>5 DEF Asked, Filling
    <3>2. {bs[j] : j \in 1 .. i} = {bs[j] : j \in 1 .. (i - 1)} \cup {b}
      BY Zenon, <2>1 DEF b
    <3>3. QED
      BY Zenon, <3>1, <3>2
  <2>7. m.node[p].nBlocksInFlight = n.node[p].nBlocksInFlight + i
    <3>1. /\ m.node[p].nBlocksInFlight = a.node[p].nBlocksInFlight + 1
          /\ a.node[p].nBlocksInFlight = n.node[p].nBlocksInFlight + (i - 1)
      BY Zenon, <2>1, <2>5 DEF Asked, Filling
    <3>2. QED
      BY SMTT(20), <1>1, <3>1
  <2>8. \A q \in DOMAIN n.node \ {p} : m.node[q] = n.node[q]
    BY Zenon, <2>1, <2>4, <2>5 DEF Asked, Filling
  <2>9. SameFields(n.node[p], m.node[p])
    BY Zenon, <2>1, <2>5 DEF Asked, Filling, SameFields
  <2>10. Filling(n, m, p, bs, i)
    BY Zenon, <2>1, <2>4, <2>5, <2>6, <2>7, <2>8, <2>9 DEF Asked, Filling
  <2>11. QED
    BY Zenon, <2>1, <2>10 DEF m
<1>4. G = 0 .. N
  <2>1. G \in SUBSET (0 .. N)
    BY Zenon
  <2> HIDE DEF G
  <2>2. QED
    BY Zenon, <1>2, <1>3, <2>1, LineInduction
<1>5. QED
  BY Zenon, <1>4

\* The loop over vToDownload.
LEMMA LoopFacts ==
    ASSUME NEW n, Linked(n), NEW p \in DOMAIN n.node, NEW N \in Nat, NEW bs, Wanted(n, bs, N),
           NEW asked, asked = CHOOSE f : f = [i \in 0 .. N |-> IF i = 0 THEN n
                                              ELSE MarkBlockAsInFlight(f[i - 1], p, bs[i], TRUE)]
    PROVE  Filling(n, asked[N], p, bs, N)
<1> DEFINE V == {x \in Nets : Joined(x) /\ p \in DOMAIN x.node}
           Ask(x, b) == MarkBlockAsInFlight(x, p, b, TRUE)
           Loop(f) == f = [i \in 0 .. N |-> IF i = 0 THEN n ELSE Ask(f[i - 1], bs[i])]
           step == [x \in (0 .. N) \X V |->
                       IF x[1] = 0 \/ bs[x[1]] \in DOMAIN x[2].inFlight THEN x[2] ELSE Ask(x[2], bs[x[1]])]
<1>1. n \in V
  BY Zenon DEF Linked
<1>2. \A x \in V : Linked(x) /\ p \in DOMAIN x.node
  BY Zenon DEF Linked
<1>3. asked = CHOOSE f : Loop(f)
  BY Zenon
<1>4. ASSUME NEW x \in V, NEW b \in Blocks \ DOMAIN x.inFlight PROVE Ask(x, b) \in V
  <2>1. Asked(x, Ask(x, b), p, b)
    BY Zenon, <1>2, InFlightFacts
  <2> HIDE DEF Ask
  <2>2. QED
    BY Zenon, <1>2, <2>1 DEF Asked, Linked
<1> HIDE DEF V
<1>5. step \in [(0 .. N) \X V -> V]
  <2>1. ASSUME NEW x \in (0 .. N) \X V
        PROVE  (IF x[1] = 0 \/ bs[x[1]] \in DOMAIN x[2].inFlight THEN x[2] ELSE Ask(x[2], bs[x[1]])) \in V
    <3>1. x[1] \in 0 .. N /\ x[2] \in V
      BY Zenon
    <3>2. x[1] = 0 \/ bs[x[1]] \in Blocks
      <4>1. x[1] = 0 \/ x[1] \in 1 .. N
        BY <3>1
      <4>2. QED
        BY Zenon, <4>1 DEF Wanted
    <3> HIDE DEF Ask
    <3>3. QED
      BY Zenon, <1>4, <3>1, <3>2
  <2> HIDE DEF Ask
  <2>2. QED
    BY Zenon, <2>1
<1> HIDE DEF Ask
<1>6. PICK f \in [0 .. N -> V] : Loops(f, N, n, step)
  <2> HIDE DEF step
  <2>1. QED
    BY Zenon, <1>1, <1>5, LineRecursion
<1>7. \A i \in 1 .. N : f[i] = IF bs[i] \in DOMAIN f[i - 1].inFlight THEN f[i - 1] ELSE Ask(f[i - 1], bs[i])
  <2> SUFFICES ASSUME NEW i \in 1 .. N
               PROVE  f[i] = IF bs[i] \in DOMAIN f[i - 1].inFlight THEN f[i - 1] ELSE Ask(f[i - 1], bs[i])
    BY Zenon
  <2>1. i # 0 /\ i \in 0 .. N /\ i - 1 \in 0 .. N
    OBVIOUS
  <2>2. f[i] = step[<<i, f[i - 1]>>] /\ <<i, f[i - 1]>> \in (0 .. N) \X V
    BY Zenon, <1>6, <2>1 DEF Loops
  <2>3. QED
    BY Zenon, <2>1, <2>2
<1> HIDE DEF step
<1>8. Asking(f, n, p, bs, N)
  BY Zenon, <1>6, <1>7 DEF Asking, Loops, Ask
<1>9. \A i \in 0 .. N : Filling(n, f[i], p, bs, i)
  BY Zenon, <1>8, AskingFacts
<1>10. \A i \in 1 .. N : bs[i] \notin DOMAIN f[i - 1].inFlight
  <2> SUFFICES ASSUME NEW i \in 1 .. N PROVE bs[i] \notin DOMAIN f[i - 1].inFlight
    BY Zenon
  <2>1. i - 1 \in 0 .. N /\ \A j \in 1 .. (i - 1) : j \in 1 .. N /\ j # i
    OBVIOUS
  <2>2. DOMAIN f[i - 1].inFlight = DOMAIN n.inFlight \cup {bs[j] : j \in 1 .. (i - 1)}
    BY Zenon, <1>9, <2>1 DEF Filling
  <2>3. QED
    BY Zenon, <2>1, <2>2 DEF Wanted
<1>11. Loop(f)
  <2>1. ASSUME NEW i \in 0 .. N PROVE f[i] = IF i = 0 THEN n ELSE Ask(f[i - 1], bs[i])
    <3>1. CASE i = 0
      BY Zenon, <1>6, <3>1 DEF Loops
    <3>2. CASE i # 0
      <4>1. i \in 1 .. N
        BY <3>2
      <4>2. QED
        BY Zenon, <1>7, <1>10, <3>2, <4>1
    <3>3. QED
      BY Zenon, <3>1, <3>2
  <2>2. QED
    BY Zenon, <2>1
<1>12. Loop(asked)
  <2> HIDE DEF Loop
  <2>1. QED
    BY Zenon, <1>3, <1>11
<1>13. asked[0] = n /\ \A i \in 1 .. N : asked[i] = Ask(asked[i - 1], bs[i])
  <2>1. \A i \in 0 .. N : asked[i] = IF i = 0 THEN n ELSE Ask(asked[i - 1], bs[i])
    BY Zenon, <1>12
  <2>2. 0 \in 0 .. N /\ \A i \in 1 .. N : i \in 0 .. N /\ i # 0
    OBVIOUS
  <2>3. QED
    BY Zenon, <2>1, <2>2
<1>14. Asking(asked, n, p, bs, N)
  BY Zenon, <1>13 DEF Asking, Ask
<1>15. QED
  <2>1. N \in 0 .. N
    OBVIOUS
  <2>2. QED
    BY Zenon, <1>14, <2>1, AskingFacts

\* A net in which the requests are in order, and the peers' states besides.
NetIn(n, K, H) ==
    /\ Linked(n) /\ DOMAIN n.inFlight \cap H = {}
    /\ \A q \in DOMAIN n.node : NodeIn(n.node[q], K)
NetOK(n) == NetIn(n, known, have)

\* What the totals over all peers are taken from.
SameTotals(n, m) ==
    /\ DOMAIN m.node = DOMAIN n.node /\ Surplus(m) = Surplus(n)
    /\ \A q \in DOMAIN n.node : /\ m.node[q].fPreferredDownload = n.node[q].fPreferredDownload
                                /\ m.node[q].fSyncStarted = n.node[q].fSyncStarted

\* A peer's state is replaced by one that is in order and has the same requests.
LEMMA TouchFacts ==
    ASSUME NEW K, NEW H, NEW n, NetIn(n, K, H), NEW p \in DOMAIN n.node, NEW s \in NodeStates, NodeIn(s, K),
           SameList(n.node[p].vBlocksInFlight, s.vBlocksInFlight),
           s.nBlocksInFlight = n.node[p].nBlocksInFlight, s.nValidHeaders = n.node[p].nValidHeaders
    PROVE  /\ NetIn([n EXCEPT !.node[p] = s], K, H) /\ DOMAIN [n EXCEPT !.node[p] = s].node = DOMAIN n.node
           /\ [n EXCEPT !.node[p] = s].inFlight = n.inFlight
           /\ [n EXCEPT !.node[p] = s].node[p] = s
           /\ \A q \in DOMAIN n.node \ {p} : [n EXCEPT !.node[p] = s].node[q] = n.node[q]
           /\ Surplus([n EXCEPT !.node[p] = s]) = Surplus(n)
<1> DEFINE m == [n EXCEPT !.node[p] = s]
<1>1. Linked(n)
  BY Zenon DEF NetIn
<1>2. /\ Linked(m) /\ DOMAIN m.node = DOMAIN n.node
      /\ m.inFlight = n.inFlight /\ m.queued = n.queued /\ m.node[p] = s
      /\ \A q \in DOMAIN n.node \ {p} : m.node[q] = n.node[q]
      /\ AllValid(m) = AllValid(n)
  BY <1>1, SamePeerFacts
<1> HIDE DEF m
<1>3. NetIn(m, K, H)
  BY Zenon, <1>2 DEF NetIn
<1>4. Surplus(m) = Surplus(n)
  BY Zenon, <1>2 DEF Surplus
<1>5. QED
  BY Zenon, <1>2, <1>3, <1>4 DEF m

\* Fetch leaves the net in order.
LEMMA FetchFacts ==
    ASSUME Inv, NEW n, NetOK(n), NEW p \in Live, DOMAIN n.node = Live, n.inFlight = net.inFlight,
           \A q \in Live \ {p} : n.node[q] = net.node[q],
           n.node[p].best # None, n.node[p].nBlocksInFlight < MAX_BLOCKS_IN_TRANSIT_PER_PEER
    PROVE  NetOK(Fetch(n, p, n.node[p])) /\ SameTotals(n, Fetch(n, p, n.node[p]))
<1> DEFINE s == n.node[p]
           count == MAX_BLOCKS_IN_TRANSIT_PER_PEER - s.nBlocksInFlight
           blocks == ToDownload(s, count)
           N == Len(blocks)
           c == NewCommon(s, count)
           t == [s EXCEPT !.common = c]
           n0 == [n EXCEPT !.node[p].common = c]
           asked == CHOOSE f : f = [i \in 0 .. N |-> IF i = 0 THEN n0
                                        ELSE MarkBlockAsInFlight(f[i - 1], p, blocks[i], TRUE)]
           m == asked[N]
           staller == Staller(p, s)
<1>1. Linked(n) /\ n \in Nets /\ Joined(n) /\ s \in NodeStates /\ NodeOK(s)
  BY Zenon, NetFacts DEF NetOK, NetIn, NodeOK, Linked
<1>2. IndexInv /\ known \subseteq Blocks
  BY Zenon DEF Inv, IndexInv
<1>3. s.best \in known /\ s.best \in Blocks /\ s.common \in known \cup {None}
  BY Zenon, <1>1, <1>2 DEF NodeOK, NodeIn
<1>4. s.nBlocksInFlight \in Nat /\ count \in Nat \ {0} /\ s.nBlocksInFlight + count = MAX_BLOCKS_IN_TRANSIT_PER_PEER
  <2>1. s.nBlocksInFlight = Len(s.vBlocksInFlight) /\ s.vBlocksInFlight \in Seq(Entries)
    BY Zenon, <1>1, StateFacts DEF Joined, ListOK
  <2>2. s.nBlocksInFlight \in Nat
    BY Zenon, <2>1, ListFacts
  <2>3. QED
    BY <2>2, BlockDownloadAssumption
<1>5. Fetch(n, p, s) = IF m.node[p].nBlocksInFlight = 0 /\ staller # None /\ m.node[staller].stalling = None
                       THEN [m EXCEPT !.node[staller].stalling = BLOCK_STALLING_TIMEOUT]
                       ELSE m
  BY Zenon DEF Fetch
<1>6. /\ blocks \in Seq(Blocks) /\ N \in Nat /\ N <= count
      /\ \A i \in 1 .. N : blocks[i] \in Blocks /\ Missing(blocks[i])
      /\ \A i, j \in 1 .. N : blocks[i] = blocks[j] => i = j
  <2>1. count \in Nat
    BY Zenon, <1>4
  <2> HIDE DEF s, count
  <2>2. /\ blocks \in Seq(Blocks) /\ Len(blocks) <= count
        /\ \A i \in 1 .. Len(blocks) : Missing(blocks[i])
        /\ \A i, j \in 1 .. Len(blocks) : blocks[i] = blocks[j] => i = j
    BY Zenon, <1>3, <2>1, ToDownloadFacts
  <2> HIDE DEF blocks
  <2>3. Len(blocks) \in Nat /\ \A i \in 1 .. Len(blocks) : blocks[i] \in Blocks
    BY <2>2
  <2>4. QED
    BY Zenon, <2>2, <2>3
<1>7. c \in known
  <2> HIDE DEF s, count
  <2>1. QED
    BY Zenon, <1>2, <1>3, NewCommonFacts
<1>8. staller # None => staller # p /\ \E b \in DOMAIN net.inFlight : net.inFlight[b] = staller
  <2> HIDE DEF s
  <2>1. QED
    BY Zenon, <1>3, StallerFacts
<1> HIDE DEF blocks, c, staller, count, N
<1>9. /\ t \in NodeStates /\ t.vBlocksInFlight = s.vBlocksInFlight /\ t.nBlocksInFlight = s.nBlocksInFlight
      /\ t.nValidHeaders = s.nValidHeaders /\ NodeOK(t)
      /\ t.fPreferredDownload = s.fPreferredDownload /\ t.fSyncStarted = s.fSyncStarted
  <2>1. c \in Blocks
    BY Zenon, <1>2, <1>7
  <2> HIDE DEF s
  <2>2. /\ t \in NodeStates /\ t.vBlocksInFlight = s.vBlocksInFlight /\ t.nBlocksInFlight = s.nBlocksInFlight
        /\ t.nValidHeaders = s.nValidHeaders /\ t.stalling = s.stalling /\ t.common = c /\ t.best = s.best
        /\ t.fPreferredDownload = s.fPreferredDownload /\ t.fSyncStarted = s.fSyncStarted /\ t.version = s.version
    BY Zenon, <1>1, <2>1 DEF NodeStates
  <2> HIDE DEF t
  <2>3. QED
    BY Zenon, <1>1, <1>7, <2>2 DEF NodeOK, NodeIn
<1>10. n0 = [n EXCEPT !.node[p] = t]
  BY Zenon, <1>1, NetFacts
<1>11. /\ NetOK(n0) /\ DOMAIN n0.node = Live /\ n0.inFlight = net.inFlight /\ n0.node[p] = t
       /\ \A q \in Live \ {p} : n0.node[q] = net.node[q]
       /\ Surplus(n0) = Surplus(n)
  <2>1. SameList(s.vBlocksInFlight, t.vBlocksInFlight)
    BY Zenon, <1>9 DEF SameList
  <2> HIDE DEF t, n0
  <2>2. /\ NetOK(n0) /\ DOMAIN n0.node = DOMAIN n.node /\ n0.inFlight = n.inFlight /\ n0.node[p] = t
        /\ \A q \in DOMAIN n.node \ {p} : n0.node[q] = n.node[q]
        /\ Surplus(n0) = Surplus(n)
    BY <1>9, <1>10, <2>1, TouchFacts DEF NetOK, NodeOK
  <2>3. QED
    BY Zenon, <2>2
<1>12. Filling(n0, m, p, blocks, N)
  <2>1. Wanted(n0, blocks, N)
    <3>1. \A i \in 1 .. N : blocks[i] \notin DOMAIN net.inFlight
      BY Zenon, <1>6 DEF Missing
    <3> HIDE DEF n0
    <3>2. QED
      BY Zenon, <1>6, <1>11, <3>1 DEF Wanted
  <2>2. Linked(n0) /\ p \in DOMAIN n0.node
    BY Zenon, <1>11 DEF NetOK, NetIn
  <2> HIDE DEF n0
  <2>3. QED
    BY Zenon, <1>6, <2>1, <2>2, LoopFacts
<1> HIDE DEF n0, asked, m, t
<1>13. DOMAIN m.inFlight \cap have = {}
  <2>1. DOMAIN m.inFlight = DOMAIN net.inFlight \cup {blocks[j] : j \in 1 .. N}
    BY Zenon, <1>11, <1>12 DEF Filling
  <2>2. DOMAIN net.inFlight \cap have = {}
    BY Zenon DEF Inv
  <2>3. \A j \in 1 .. N : blocks[j] \notin have
    BY Zenon, <1>6 DEF Missing
  <2>4. QED
    BY Zenon, <2>1, <2>2, <2>3
<1>14. Linked(m) /\ DOMAIN m.node = Live /\ Surplus(m) = Surplus(n)
  BY Zenon, <1>11, <1>12 DEF Filling
<1>15. \A q \in Live \ {p} : m.node[q] = net.node[q] /\ m.node[q] = n.node[q] /\ NodeOK(m.node[q])
  <2>1. \A q \in Live \ {p} : m.node[q] = net.node[q]
    BY Zenon, <1>11, <1>12 DEF Filling
  <2>2. QED
    BY Zenon, <2>1 DEF Inv
<1>16. NodeOK(m.node[p]) /\ m.node[p].fPreferredDownload = s.fPreferredDownload /\ m.node[p].fSyncStarted = s.fSyncStarted
  <2>1. /\ SameFields(t, m.node[p]) /\ m.node[p].nBlocksInFlight = s.nBlocksInFlight + N
        /\ m.node[p] = t \/ m.node[p].vBlocksInFlight # <<>>
    BY Zenon, <1>9, <1>11, <1>12 DEF Filling
  <2>2. m.node[p].nBlocksInFlight <= MAX_BLOCKS_IN_TRANSIT_PER_PEER
    BY SMTT(20), <1>4, <1>6, <2>1
  <2>3. QED
    BY Zenon, <1>9, <2>1, <2>2 DEF NodeOK, NodeIn, SameFields
<1>17. NetOK(m) /\ SameTotals(n, m)
  <2>1. \A q \in Live : q = p \/ q \in Live \ {p}
    BY Zenon
  <2>2. \A q \in Live : NodeOK(m.node[q])
    BY Zenon, <1>15, <1>16, <2>1
  <2>3. \A q \in Live : m.node[q].fPreferredDownload = n.node[q].fPreferredDownload /\ m.node[q].fSyncStarted = n.node[q].fSyncStarted
    BY Zenon, <1>15, <1>16, <2>1
  <2>4. QED
    BY Zenon, <1>13, <1>14, <2>2, <2>3 DEF NetOK, NetIn, NodeOK, SameTotals
<1>18. CASE m.node[p].nBlocksInFlight = 0 /\ staller # None /\ m.node[staller].stalling = None
  <2> DEFINE u == m.node[staller]
             w == NewStall(u, BLOCK_STALLING_TIMEOUT)
             r == [m EXCEPT !.node[staller] = w]
  <2>1. PICK b \in DOMAIN net.inFlight : net.inFlight[b] = staller
    BY Zenon, <1>8, <1>18
  <2>2. Joined(net) /\ staller \in Live \ {p}
    <3>1. Joined(net)
      BY Zenon DEF Inv, Linked
    <3>2. net.inFlight[b] \in Live
      BY Zenon, <3>1 DEF Joined, Live
    <3>3. QED
      BY Zenon, <1>8, <1>18, <2>1, <3>1, <3>2
  <2>3. b \in Hashes(net.node[staller].vBlocksInFlight)
    BY Zenon, <2>1, <2>2 DEF Joined
  <2>4. u = net.node[staller] /\ u.vBlocksInFlight # <<>>
    <3>1. u = net.node[staller]
      BY Zenon, <1>15, <2>2
    <3>2. net.node[staller].vBlocksInFlight # <<>>
      BY <2>3 DEF Hashes
    <3>3. QED
      BY Zenon, <3>1, <3>2
  <2>5. u \in NodeStates /\ NodeOK(u) /\ m \in Nets /\ m.node \in [Live -> NodeStates]
    <3>1. m \in Nets /\ m.node \in [Live -> NodeStates]
      BY Zenon, <1>14, NetFacts DEF Linked
    <3>2. QED
      BY Zenon, <1>15, <2>2, <3>1
  <2> HIDE DEF u
  <2>6. /\ w \in NodeStates /\ w.vBlocksInFlight = u.vBlocksInFlight /\ w.nBlocksInFlight = u.nBlocksInFlight
        /\ w.nValidHeaders = u.nValidHeaders /\ SameFields(u, w)
    <3>1. BLOCK_STALLING_TIMEOUT \in Int \cup {None}
      BY BlockDownloadAssumption
    <3>2. QED
      BY Zenon, <2>5, <3>1, NewStallFacts
  <2>7. Fetch(n, p, s) = r
    <3>1. [m EXCEPT !.node[staller].stalling = BLOCK_STALLING_TIMEOUT] = r
      BY Zenon, <2>2, <2>5, NetFacts DEF u, NewStall
    <3>2. QED
      BY Zenon, <1>5, <1>18, <3>1
  <2> HIDE DEF w
  <2>8. NodeOK(w) /\ SameList(u.vBlocksInFlight, w.vBlocksInFlight)
    BY <2>4, <2>5, <2>6 DEF NodeOK, NodeIn, SameFields, SameList
  <2>9. /\ NetOK(r) /\ DOMAIN r.node = DOMAIN m.node /\ r.node[staller] = w
        /\ \A q \in DOMAIN m.node \ {staller} : r.node[q] = m.node[q]
        /\ Surplus(r) = Surplus(m)
    <3>1. r = [m EXCEPT !.node[staller] = w] /\ staller \in DOMAIN m.node
      BY Zenon, <1>14, <2>2
    <3>2. /\ SameList(m.node[staller].vBlocksInFlight, w.vBlocksInFlight)
          /\ w.nBlocksInFlight = m.node[staller].nBlocksInFlight /\ w.nValidHeaders = m.node[staller].nValidHeaders
      BY Zenon, <2>6, <2>8 DEF u
    <3> HIDE DEF r
    <3>3. QED
      BY <1>17, <2>6, <2>8, <3>1, <3>2, TouchFacts DEF NetOK, NodeOK
  <2> HIDE DEF r
  <2>10. SameTotals(m, r)
    BY Zenon, <2>6, <2>9 DEF SameTotals, SameFields, u
  <2>11. SameTotals(n, r)
    BY Zenon, <1>17, <2>10 DEF SameTotals
  <2>12. QED
    BY Zenon, <2>7, <2>9, <2>11
<1>19. CASE ~(m.node[p].nBlocksInFlight = 0 /\ staller # None /\ m.node[staller].stalling = None)
  BY Zenon, <1>5, <1>17, <1>19
<1>20. QED
  BY Zenon, <1>18, <1>19
-----------------------------------------------------------------------------
(* Steps *)

\* What announcements leave alone.
SameRest(s, t) ==
    /\ t.vBlocksInFlight = s.vBlocksInFlight /\ t.nBlocksInFlight = s.nBlocksInFlight
    /\ t.nValidHeaders = s.nValidHeaders /\ t.stalling = s.stalling /\ t.common = s.common
    /\ t.fSyncStarted = s.fSyncStarted /\ t.fPreferredDownload = s.fPreferredDownload /\ t.version = s.version

LEMMA AvailabilityFacts ==
    ASSUME NEW s \in NodeStates, NEW S \in SUBSET Blocks
    PROVE  /\ ProcessBlockAvailability(s, S) \in NodeStates /\ SameRest(s, ProcessBlockAvailability(s, S))
           /\ ProcessBlockAvailability(s, S).best \in S \cup {s.best}
<1> DEFINE x == Better(s, s.unknown)
           t == [s EXCEPT !.best = x, !.unknown = None]
<1>1. CASE s.unknown \in S
  <2>1. x \in {s.unknown, s.best}
    BY Zenon DEF Better
  <2>2. x \in Blocks \cup {None} /\ x \in S \cup {s.best}
    BY Zenon, <1>1, <2>1, StateFacts
  <2> HIDE DEF x
  <2>3. t \in NodeStates /\ SameRest(s, t) /\ t.best = x
    BY Zenon, <2>2 DEF NodeStates, SameRest
  <2>4. ProcessBlockAvailability(s, S) = t
    BY Zenon, <1>1 DEF ProcessBlockAvailability, x
  <2> HIDE DEF t
  <2>5. QED
    BY Zenon, <2>2, <2>3, <2>4
<1>2. CASE s.unknown \notin S
  <2>1. ProcessBlockAvailability(s, S) = s
    BY Zenon, <1>2 DEF ProcessBlockAvailability
  <2>2. QED
    BY Zenon, <2>1 DEF SameRest
<1>3. QED
  BY Zenon, <1>1, <1>2

LEMMA UpdateFacts ==
    ASSUME NEW s \in NodeStates, NEW S \in SUBSET Blocks, NEW b \in Blocks
    PROVE  /\ UpdateBlockAvailability(s, b, S) \in NodeStates /\ SameRest(s, UpdateBlockAvailability(s, b, S))
           /\ UpdateBlockAvailability(s, b, S).best \in S \cup {s.best}
<1> DEFINE t == ProcessBlockAvailability(s, S)
           x == Better(t, b)
           u == UpdateBlockAvailability(s, b, S)
<1>1. t \in NodeStates /\ SameRest(s, t) /\ t.best \in S \cup {s.best}
  BY Zenon, AvailabilityFacts
<1>2. u = IF b \in S THEN [t EXCEPT !.best = x] ELSE [t EXCEPT !.unknown = b]
  BY Zenon DEF UpdateBlockAvailability
<1>3. x \in {b, t.best} /\ t.best \in Blocks \cup {None}
  BY Zenon, <1>1, StateFacts DEF Better
<1> HIDE DEF t, x, u
<1>4. CASE b \in S
  <2>1. u \in NodeStates /\ SameRest(t, u) /\ u.best = x
    BY Zenon, <1>1, <1>2, <1>3, <1>4 DEF NodeStates, SameRest
  <2>2. SameRest(s, u)
    BY Zenon, <1>1, <2>1 DEF SameRest
  <2>3. QED
    BY Zenon, <1>1, <1>3, <1>4, <2>1, <2>2 DEF u
<1>5. CASE b \notin S
  <2>1. u \in NodeStates /\ SameRest(t, u) /\ u.best = t.best
    BY Zenon, <1>1, <1>2, <1>5 DEF NodeStates, SameRest
  <2>2. SameRest(s, u)
    BY Zenon, <1>1, <2>1 DEF SameRest
  <2>3. QED
    BY Zenon, <1>1, <2>1, <2>2 DEF u
<1>6. QED
  BY Zenon, <1>4, <1>5

\* The state a peer has.
LEMMA PeerFacts ==
    ASSUME Inv, NEW p \in Live
    PROVE  /\ NetOK(net) /\ net \in Nets /\ net.node \in [Live -> NodeStates] /\ p \in DOMAIN net.node
           /\ net.node[p] \in NodeStates /\ NodeOK(net.node[p])
<1>1. Linked(net) /\ net \in Nets /\ DOMAIN net.inFlight \cap have = {} /\ \A q \in Live : NodeOK(net.node[q])
  BY Zenon DEF Inv, Linked
<1>2. net.node \in [Live -> NodeStates]
  BY Zenon, <1>1, NetFacts DEF Live
<1>3. NetOK(net)
  BY Zenon, <1>1 DEF NetOK, NetIn, NodeOK, Live
<1>4. QED
  BY Zenon, <1>1, <1>2, <1>3 DEF Live

\* What a step keeps that does not end or begin a connection.
LEMMA NetStep ==
    ASSUME Inv, IndexInv', NetIn(net', known', have'), DOMAIN net'.node = Live, Surplus(net') = Surplus(net),
           fresh' = fresh, todo' \subseteq copied', copied' \subseteq copied,
           nPreferredDownload' = Cardinality({p \in Live : net'.node[p].fPreferredDownload}),
           nSyncStarted' = Cardinality({p \in Live : net'.node[p].fSyncStarted})
    PROVE  Inv'
<1>1. Live' = Live /\ Linked(net') /\ DOMAIN net'.inFlight \cap have' = {} /\ \A q \in Live : NodeOK(net.node[q])'
  BY Zenon DEF Live, NetIn, NodeOK
<1>2. CounterInv'
  <2>1. net.queued >= Cardinality(AllValid(net)) /\ net.queued \in Int /\ Linked(net)
    BY Zenon, NetFacts DEF Inv, CounterInv, Linked
  <2>2. Cardinality(AllValid(net)) \in Nat
    BY Zenon, <2>1, AllValidFacts
  <2>3. Cardinality(AllValid(net')) \in Nat /\ net'.queued \in Int
    BY Zenon, <1>1, AllValidFacts, NetFacts DEF Linked
  <2>4. net'.queued >= Cardinality(AllValid(net'))
    BY <2>1, <2>2, <2>3 DEF Surplus
  <2>5. AllValid(net)' = AllValid(net')
    BY Zenon DEF AllValid
  <2>6. QED
    BY Zenon, <1>1, <2>1, <2>4, <2>5 DEF CounterInv
<1>3. Linked(net)' <=> Linked(net')
  BY Zenon
<1>4. QED
  BY Zenon, <1>1, <1>2, <1>3 DEF Inv

LEMMA SameStep ==
    ASSUME Inv, IndexInv', NetIn(net', known', have'), SameTotals(net, net'), UNCHANGED <<fresh, counters, round>>
    PROVE  Inv'
<1>1. /\ DOMAIN net'.node = Live /\ Surplus(net') = Surplus(net)
      /\ \A q \in Live : /\ net'.node[q].fPreferredDownload = net.node[q].fPreferredDownload
                         /\ net'.node[q].fSyncStarted = net.node[q].fSyncStarted
  BY Zenon DEF SameTotals, Live
<1>2. /\ {p \in Live : net'.node[p].fPreferredDownload} = {p \in Live : net.node[p].fPreferredDownload}
      /\ {p \in Live : net'.node[p].fSyncStarted} = {p \in Live : net.node[p].fSyncStarted}
  BY Zenon, <1>1
<1>3. /\ fresh' = fresh /\ todo' \subseteq copied' /\ copied' \subseteq copied
      /\ nPreferredDownload' = Cardinality({p \in Live : net'.node[p].fPreferredDownload})
      /\ nSyncStarted' = Cardinality({p \in Live : net'.node[p].fSyncStarted})
  BY Zenon, <1>2 DEF Inv, CounterInv, counters, round
<1>4. QED
  BY Zenon, <1>1, <1>3, NetStep

\* The block index does not change.
LEMMA SameIndex ==
    ASSUME Inv, UNCHANGED blockVars
    PROVE  IndexInv' /\ known' = known /\ have' = have
  BY Zenon DEF Inv, IndexInv, blockVars

\* A step that changes the state of one peer, and none of its requests.
LEMMA TouchStep ==
    ASSUME Inv, IndexInv', known \subseteq known', have' = have, NEW p \in Live, NEW s \in NodeStates,
           net' = [net EXCEPT !.node[p] = s], NodeIn(s, known'),
           SameList(net.node[p].vBlocksInFlight, s.vBlocksInFlight),
           s.nBlocksInFlight = net.node[p].nBlocksInFlight, s.nValidHeaders = net.node[p].nValidHeaders,
           s.fPreferredDownload = net.node[p].fPreferredDownload, s.fSyncStarted = net.node[p].fSyncStarted,
           UNCHANGED <<fresh, counters, round>>
    PROVE  Inv'
<1>1. p \in DOMAIN net.node /\ NetOK(net)
  BY Zenon, PeerFacts
<1>2. NetIn(net, known', have')
  <2>1. ASSUME NEW q \in DOMAIN net.node, NodeIn(net.node[q], known) PROVE NodeIn(net.node[q], known')
    BY Zenon, <2>1 DEF NodeIn
  <2>2. QED
    BY Zenon, <1>1, <2>1 DEF NetOK, NetIn
<1>3. /\ NetIn(net', known', have') /\ DOMAIN net'.node = DOMAIN net.node /\ net'.node[p] = s
      /\ \A q \in DOMAIN net.node \ {p} : net'.node[q] = net.node[q]
      /\ Surplus(net') = Surplus(net)
  BY <1>1, <1>2, TouchFacts
<1>4. SameTotals(net, net')
  BY Zenon, <1>3 DEF SameTotals
<1>5. QED
  BY Zenon, <1>3, <1>4, SameStep

\* A connection is closed.
LEMMA CloseStep ==
    ASSUME Inv, NEW p \in Peers, CloseSocketDisconnect(p)
    PROVE  Inv'
<1> DEFINE s == net.node[p]
           t == [s EXCEPT !.fDisconnect = TRUE]
<1>1. p \in Live /\ UNCHANGED <<blockVars, fresh, counters, round>> /\ net' = [net EXCEPT !.node[p].fDisconnect = TRUE]
  BY Zenon DEF CloseSocketDisconnect
<1>2. net \in Nets /\ net.node \in [Live -> NodeStates] /\ s \in NodeStates /\ NodeOK(s)
  BY Zenon, <1>1, PeerFacts
<1>3. net' = [net EXCEPT !.node[p] = t]
  BY Zenon, <1>1, <1>2, NetFacts
<1>4. IndexInv' /\ known' = known /\ have' = have
  BY Zenon, <1>1, SameIndex
<1>5. t \in NodeStates /\ SameRest(s, t) /\ t.best = s.best
  BY Zenon, <1>2 DEF NodeStates, SameRest
<1> HIDE DEF t
<1>6. NodeIn(t, known') /\ SameList(s.vBlocksInFlight, t.vBlocksInFlight)
  BY Zenon, <1>2, <1>4, <1>5 DEF NodeOK, NodeIn, SameRest, SameList
<1>7. QED
  <2>1. known \subseteq known' /\ UNCHANGED <<fresh, counters, round>>
    BY Zenon, <1>1, <1>4
  <2>2. /\ t.nBlocksInFlight = net.node[p].nBlocksInFlight /\ t.nValidHeaders = net.node[p].nValidHeaders
        /\ t.fPreferredDownload = net.node[p].fPreferredDownload /\ t.fSyncStarted = net.node[p].fSyncStarted
    BY Zenon, <1>5 DEF SameRest
  <2>3. QED
    BY Zenon, <1>1, <1>3, <1>4, <1>5, <1>6, <2>1, <2>2, TouchStep

\* A round of ThreadMessageHandler begins, and goes past a peer.
LEMMA RoundStep ==
    ASSUME Inv, UNCHANGED <<blockVars, fresh, net, counters>>, todo' \subseteq copied', copied' \subseteq Live
    PROVE  Inv'
<1>1. IndexInv'
  BY Zenon, SameIndex
<1>2. known' = known /\ have' = have
  BY Zenon DEF blockVars
<1>3. CounterInv' /\ Live' = Live
  BY Zenon DEF Inv, CounterInv, Live, AllValid, counters
<1>4. Linked(net)' /\ \A p \in Live : NodeOK(net.node[p])'
  BY Zenon, <1>2 DEF Inv, Linked, NodeOK, Live
<1>5. QED
  BY Zenon, <1>1, <1>2, <1>3, <1>4 DEF Inv

LEMMA VisitedRounds ==
    ASSUME Inv, NEW p, Visited(p)
    PROVE  todo' \subseteq copied' /\ copied' \subseteq copied /\ copied' \subseteq Live
  BY Zenon DEF Inv, Visited

LEMMA StartStep ==
    ASSUME Inv, StartRound
    PROVE  Inv'
<1>1. todo' \subseteq copied' /\ copied' \subseteq Live
  BY Zenon DEF StartRound
<1>2. QED
  BY Zenon, <1>1, RoundStep DEF StartRound

LEMMA SkipStep ==
    ASSUME Inv, NEW p \in Peers, Skip(p)
    PROVE  Inv'
<1>1. Visited(p)
  BY Zenon DEF Skip
<1>2. todo' \subseteq copied' /\ copied' \subseteq Live
  BY Zenon, <1>1, VisitedRounds
<1>3. QED
  BY Zenon, <1>2, RoundStep DEF Skip

\* All peers' states are replaced by ones with the same requests.
LEMMA AllPeersFacts ==
    ASSUME NEW n, Linked(n), NEW N \in [DOMAIN n.node -> NodeStates],
           \A p \in DOMAIN n.node :
               /\ SameList(n.node[p].vBlocksInFlight, N[p].vBlocksInFlight)
               /\ N[p].nBlocksInFlight = n.node[p].nBlocksInFlight /\ N[p].nValidHeaders = n.node[p].nValidHeaders,
           NEW m, m = [n EXCEPT !.node = N]
    PROVE  Linked(m) /\ m.node = N /\ m.inFlight = n.inFlight /\ Surplus(m) = Surplus(n)
<1> DEFINE D == DOMAIN n.node
<1>1. n \in Nets /\ Joined(n)
  BY Zenon DEF Linked
<1>2. m = [node |-> N, inFlight |-> n.inFlight, queued |-> n.queued]
  BY <1>1, NetFacts
<1>3. m.node = N /\ m.inFlight = n.inFlight /\ m.queued = n.queued
  BY Zenon, <1>2
<1>4. m \in Nets
  <2>1. N \in Maps(Peers, NodeStates)
    <3>1. D \subseteq Peers
      BY Zenon, <1>1, NetFacts
    <3>2. QED
      BY Zenon, <3>1 DEF Maps
  <2>2. n.inFlight \in Maps(Blocks, Peers) /\ n.queued \in Int
    BY Zenon, <1>1, NetFacts
  <2>3. QED
    BY Zenon, <1>2, <2>1, <2>2 DEF Nets
<1>5. ASSUME NEW p \in D
      PROVE  /\ Hashes(N[p].vBlocksInFlight) = Hashes(n.node[p].vBlocksInFlight)
             /\ ValidHashes(N[p].vBlocksInFlight) = ValidHashes(n.node[p].vBlocksInFlight)
             /\ ListOK(N[p])
  <2> DEFINE q == n.node[p].vBlocksInFlight
             r == N[p].vBlocksInFlight
  <2>1. SameList(q, r) /\ Len(r) = Len(q)
    BY Zenon DEF SameList
  <2>2. Hashes(r) = Hashes(q) /\ ValidHashes(r) = ValidHashes(q) /\ (Distinct(q) => Distinct(r))
    <3> HIDE DEF q, r
    <3>1. QED
      BY Zenon, <2>1, SameListFacts
  <2>3. ListOK(n.node[p])
    BY Zenon, <1>1 DEF Joined
  <2>4. QED
    BY Zenon, <2>1, <2>2, <2>3 DEF ListOK
<1>6. Joined(m)
  <2>1. DOMAIN m.node = D
    BY Zenon, <1>3
  <2>2. QED
    BY <1>1, <1>3, <1>5, <2>1 DEF Joined
<1>7. AllValid(m) = AllValid(n)
  <2>1. DOMAIN m.node = D
    BY Zenon, <1>3
  <2>2. QED
    BY Zenon, <1>3, <1>5, <2>1 DEF AllValid
<1>8. QED
  BY Zenon, <1>3, <1>4, <1>6, <1>7 DEF Linked, Surplus

\* Time passes.
LEMMA LaterFacts ==
    ASSUME NEW x \in Int \cup {None}
    PROVE  Later(x) \in Int \cup {None} /\ (x \in Int => Later(x) \in Int) /\ (x = None => Later(x) = None)
  BY DEF Later

LEMMA TickStep ==
    ASSUME Inv, Tick
    PROVE  Inv'
<1> DEFINE AllAged(q) == [i \in DOMAIN q |-> Aged(q[i])]
           N == [p \in Live |-> Older(net.node[p])]
<1>1. UNCHANGED <<blockVars, fresh, counters, round>>
  BY Zenon DEF Tick
<1>2. Linked(net) /\ net \in Nets /\ Joined(net) /\ net.node \in [Live -> NodeStates]
  BY Zenon, NetFacts DEF Inv, Linked, Live
<1>3. net' = [net EXCEPT !.node = N]
  BY Zenon DEF Tick
<1>4. ASSUME NEW q \in Lists PROVE AllAged(q) \in Lists /\ SameList(q, AllAged(q)) /\ (AllAged(q) = <<>> => q = <<>>)
  <2> DEFINE r == AllAged(q)
  <2>1. Len(q) \in Nat /\ DOMAIN q = 1 .. Len(q) /\ \A i \in DOMAIN q : q[i] \in Entries
    BY Zenon, ListFacts DEF Lists
  <2>2. ASSUME NEW i \in DOMAIN q
        PROVE  r[i] \in Entries /\ r[i].hash = q[i].hash /\ r[i].fValidatedHeaders = q[i].fValidatedHeaders
    <3>1. q[i] \in Entries /\ q[i].left \in Int /\ Later(q[i].left) \in Int
      BY Zenon, <2>1, LaterFacts DEF Entries
    <3>2. r[i] = [q[i] EXCEPT !.left = Later(q[i].left)]
      BY Zenon DEF Aged
    <3>3. QED
      BY Zenon, <3>1, <3>2 DEF Entries
  <2>3. DOMAIN r = 1 .. Len(q)
    BY Zenon, <2>1
  <2>4. r \in [1 .. Len(q) -> Entries]
    <3>1. r = [i \in 1 .. Len(q) |-> r[i]]
      BY Zenon, <2>1
    <3> HIDE DEF r
    <3>2. QED
      BY Zenon, <2>1, <2>2, <3>1
  <2> HIDE DEF r
  <2>5. r \in Seq(Entries) /\ Len(r) = Len(q)
    BY <2>1, <2>3, <2>4
  <2>6. r = <<>> => q = <<>>
    <3>1. r = <<>> => Len(q) = 0
      BY Zenon, <2>5
    <3>2. Len(q) = 0 => q = <<>>
      BY <2>1 DEF Lists
    <3>3. QED
      BY Zenon, <3>1, <3>2
  <2>7. QED
    BY Zenon, <2>1, <2>2, <2>3, <2>5, <2>6 DEF Lists, SameList, r
<1> HIDE DEF AllAged
<1>5. ASSUME NEW p \in Live
      PROVE  LET s == net.node[p]
                 t == N[p]
             IN  /\ t \in NodeStates /\ SameList(s.vBlocksInFlight, t.vBlocksInFlight)
                 /\ t.nBlocksInFlight = s.nBlocksInFlight /\ t.nValidHeaders = s.nValidHeaders
                 /\ t.fPreferredDownload = s.fPreferredDownload /\ t.fSyncStarted = s.fSyncStarted
                 /\ NodeOK(t)
  <2> DEFINE s == net.node[p]
             q == s.vBlocksInFlight
             t == Older(s)
             l == AllAged(q)
             x == Later(s.stalling)
  <2>1. s \in NodeStates /\ NodeOK(s) /\ q \in Lists /\ s.stalling \in Int \cup {None}
    BY Zenon, <1>2, PeerFacts DEF NodeStates
  <2>2. l \in Lists /\ SameList(q, l) /\ (l = <<>> => q = <<>>)
    BY Zenon, <1>4, <2>1
  <2>3. x \in Int \cup {None} /\ (s.stalling = None => x = None)
    BY Zenon, <2>1, LaterFacts
  <2>4. t = [s EXCEPT !.stalling = x, !.vBlocksInFlight = l]
    BY Zenon DEF AllAged, Older
  <2>5. t = N[p]
    BY Zenon
  <2> HIDE DEF s, x, l, t
  <2>6. /\ t \in NodeStates /\ t.vBlocksInFlight = l /\ t.stalling = x
        /\ t.nBlocksInFlight = s.nBlocksInFlight /\ t.nValidHeaders = s.nValidHeaders /\ SameFields(s, t)
    BY Zenon, <2>1, <2>2, <2>3, <2>4 DEF NodeStates, SameFields
  <2>7. NodeOK(t)
    BY Zenon, <2>1, <2>2, <2>3, <2>6 DEF NodeOK, NodeIn, SameFields
  <2> HIDE DEF N
  <2>8. QED
    BY Zenon, <2>2, <2>5, <2>6, <2>7 DEF SameFields, s
<1>6. N \in [DOMAIN net.node -> NodeStates] /\ DOMAIN N = Live
  <2>1. DOMAIN N = Live /\ N = [p \in Live |-> N[p]]
    BY Zenon
  <2>2. \A p \in Live : N[p] \in NodeStates
    BY Zenon, <1>5
  <2> HIDE DEF N
  <2>3. QED
    BY Zenon, <2>1, <2>2 DEF Live
<1> HIDE DEF N
<1>7. Linked(net') /\ net'.node = N /\ net'.inFlight = net.inFlight /\ Surplus(net') = Surplus(net)
  <2>1. \A p \in DOMAIN net.node :
            /\ SameList(net.node[p].vBlocksInFlight, N[p].vBlocksInFlight)
            /\ N[p].nBlocksInFlight = net.node[p].nBlocksInFlight /\ N[p].nValidHeaders = net.node[p].nValidHeaders
    BY Zenon, <1>5 DEF Live
  <2>2. QED
    BY <1>2, <1>3, <1>6, <2>1, AllPeersFacts
<1>8. SameTotals(net, net')
  BY Zenon, <1>5, <1>6, <1>7 DEF SameTotals, Live
<1>9. IndexInv' /\ known' = known /\ have' = have
  BY Zenon, <1>1, SameIndex
<1>10. NetIn(net', known', have')
  <2>1. DOMAIN net.inFlight \cap have = {}
    BY Zenon DEF Inv
  <2>2. QED
    BY Zenon, <1>5, <1>6, <1>7, <1>9, <2>1 DEF NetIn, NodeOK
<1>11. QED
  BY Zenon, <1>1, <1>8, <1>9, <1>10, SameStep

\* A connection is made.
LEMMA NewNodeFacts ==
    /\ NewNode \in NodeStates /\ NewNode.vBlocksInFlight = <<>> /\ ListOK(NewNode)
    /\ ~NewNode.fPreferredDownload /\ ~NewNode.fSyncStarted
    /\ Hashes(<<>>) = {} /\ ValidHashes(<<>>) = {}
    /\ \A K : NodeIn(NewNode, K)
<1>1. <<>> \in Lists
  BY DEF Lists
<1>2. NewNode \in NodeStates
  BY <1>1 DEF NewNode, NodeStates
<1>3. Hashes(<<>>) = {} /\ ValidHashes(<<>>) = {} /\ Distinct(<<>>)
  BY DEF Hashes, ValidHashes, Distinct
<1>4. ListOK(NewNode)
  BY Zenon, <1>3, FS_EmptySet DEF ListOK, NewNode
<1>5. \A K : NodeIn(NewNode, K)
  BY SMTT(20), BlockDownloadAssumption DEF NodeIn, NewNode
<1>6. QED
  BY Zenon, <1>2, <1>3, <1>4, <1>5 DEF NewNode

LEMMA InitializeStep ==
    ASSUME Inv, NEW p \in Peers, InitializeNode(p)
    PROVE  Inv'
<1> DEFINE D == DOMAIN net.node
           I == net.inFlight
           N == [q \in D \cup {p} |-> IF q = p THEN NewNode ELSE net.node[q]]
<1>1. p \in fresh /\ fresh' = fresh \ {p} /\ UNCHANGED <<blockVars, counters, round>> /\ net' = [net EXCEPT !.node = N]
  BY Zenon DEF InitializeNode, Live
<1>2. IndexInv' /\ known' = known /\ have' = have
  BY Zenon, <1>1, SameIndex
<1>3. net \in Nets /\ Joined(net) /\ D \subseteq Peers /\ net.node \in [D -> NodeStates] /\ p \notin D
  BY Zenon, <1>1, NetFacts DEF Inv, Linked, Live
<1>4. net' = [node |-> N, inFlight |-> I, queued |-> net.queued]
  BY <1>1, <1>3, NetFacts
<1>5. net'.node = N /\ net'.inFlight = I /\ net'.queued = net.queued
  BY Zenon, <1>4
<1>6. DOMAIN N = D \cup {p} /\ N[p] = NewNode /\ \A q \in D : N[q] = net.node[q]
  BY Zenon, <1>3
<1>7. Linked(net')
  <2>1. N \in Maps(Peers, NodeStates)
    <3>1. N \in [D \cup {p} -> NodeStates] /\ D \cup {p} \subseteq Peers
      BY Zenon, <1>3, NewNodeFacts
    <3>2. QED
      BY Zenon, <3>1 DEF Maps
  <2>2. I \in Maps(Blocks, Peers) /\ net.queued \in Int
    BY Zenon, <1>3, NetFacts
  <2> HIDE DEF N, I
  <2>3. net' \in Nets
    BY Zenon, <1>4, <2>1, <2>2 DEF Nets
  <2>4. ASSUME NEW q \in D \cup {p}
        PROVE  ListOK(N[q]) /\ Hashes(N[q].vBlocksInFlight) = Owed(I, q)
    <3>1. CASE q = p
      <4>1. Owed(I, q) = {}
        BY Zenon, <1>3, <3>1 DEF Joined, Owed, I
      <4>2. QED
        BY Zenon, <1>6, <3>1, <4>1, NewNodeFacts
    <3>2. CASE q \in D
      <4>1. ListOK(net.node[q]) /\ Hashes(net.node[q].vBlocksInFlight) = Owed(I, q)
        BY Zenon, <1>3, <3>2 DEF Joined, Owed, I
      <4>2. QED
        BY Zenon, <1>6, <3>2, <4>1
    <3>3. QED
      BY Zenon, <3>1, <3>2
  <2>5. Joined(net')
    <3>1. IsFiniteSet(DOMAIN I) /\ \A b \in DOMAIN I : I[b] \in D
      BY Zenon, <1>3 DEF Joined, I
    <3>2. QED
      BY Zenon, <1>5, <1>6, <2>4, <3>1 DEF Joined, Owed
  <2>6. QED
    BY Zenon, <2>3, <2>5 DEF Linked
<1> HIDE DEF N
<1>8. Live' = Live \cup {p} /\ \A q \in Live : net'.node[q] = net.node[q]
  BY Zenon, <1>5, <1>6 DEF Live
<1>9. AllValid(net') = AllValid(net)
  <2>1. AllValid(net') = UNION {ValidHashes(N[q].vBlocksInFlight) : q \in D \cup {p}}
    BY Zenon, <1>5, <1>6 DEF AllValid
  <2>2. ValidHashes(N[p].vBlocksInFlight) = {}
    BY Zenon, <1>6, NewNodeFacts
  <2>3. \A q \in D : ValidHashes(N[q].vBlocksInFlight) = ValidHashes(net.node[q].vBlocksInFlight)
    BY Zenon, <1>6
  <2>4. AllValid(net) = UNION {ValidHashes(net.node[q].vBlocksInFlight) : q \in D}
    BY Zenon DEF AllValid
  <2> HIDE DEF D
  <2>5. QED
    BY <2>1, <2>2, <2>3, <2>4
<1>10. CounterInv'
  <2>1. /\ {q \in Live \cup {p} : net'.node[q].fPreferredDownload} = {q \in Live : net.node[q].fPreferredDownload}
        /\ {q \in Live \cup {p} : net'.node[q].fSyncStarted} = {q \in Live : net.node[q].fSyncStarted}
    BY Zenon, <1>3, <1>5, <1>6, <1>8, NewNodeFacts DEF Live
  <2>2. AllValid(net)' = AllValid(net')
    BY Zenon DEF AllValid
  <2>3. nPreferredDownload' = nPreferredDownload /\ nSyncStarted' = nSyncStarted
    BY Zenon, <1>1 DEF counters
  <2>4. QED
    BY Zenon, <1>5, <1>8, <1>9, <2>1, <2>2, <2>3 DEF CounterInv, Inv
<1>11. IsFiniteSet(Live')
  <2>1. IsFiniteSet(Live)
    BY Zenon DEF Inv
  <2>2. IsFiniteSet(Live \cup {p})
    BY Zenon, <2>1, FS_AddElement
  <2>3. QED
    BY Zenon, <1>8, <2>2
<1>12. \A q \in Live' : NodeOK(net.node[q])'
  <2>1. NodeIn(net'.node[p], known')
    BY Zenon, <1>5, <1>6, NewNodeFacts
  <2>2. \A q \in Live : NodeIn(net'.node[q], known')
    BY Zenon, <1>2, <1>8 DEF Inv, NodeOK
  <2>3. QED
    BY Zenon, <1>8, <2>1, <2>2 DEF NodeOK
<1>13. todo' \subseteq copied' /\ copied' \subseteq Live' /\ Live' \cap fresh' = {} /\ fresh' \subseteq Peers
  BY Zenon, <1>1, <1>8 DEF Inv, round
<1>14. QED
  BY Zenon, <1>2, <1>5, <1>7, <1>10, <1>11, <1>12, <1>13 DEF Inv

\* The version message.
LEMMA VersionStep ==
    ASSUME Inv, NEW p \in Peers, VersionMessage(p)
    PROVE  Inv'
<1> DEFINE s == net.node[p]
           o == p \in Outbound
           t == [s EXCEPT !.version = TRUE, !.fPreferredDownload = o]
           P == {q \in Live : net.node[q].fPreferredDownload}
           Q == {q \in Live : net'.node[q].fPreferredDownload}
<1>1. /\ p \in todo /\ ~s.version /\ nPreferredDownload' = nPreferredDownload + OneIf(o)
      /\ net' = [net EXCEPT !.node[p].version = TRUE, !.node[p].fPreferredDownload = o]
      /\ UNCHANGED <<blockVars, fresh, nSyncStarted, round>>
  BY Zenon DEF VersionMessage
<1>2. p \in Live /\ todo' \subseteq copied' /\ copied' \subseteq copied
  BY Zenon, <1>1 DEF Inv, round
<1>3. net \in Nets /\ net.node \in [Live -> NodeStates] /\ s \in NodeStates /\ NodeOK(s) /\ NetOK(net) /\ p \in DOMAIN net.node
  BY Zenon, <1>2, PeerFacts
<1>4. net' = [net EXCEPT !.node[p] = t]
  BY Zenon, <1>1, <1>2, <1>3, NetFacts
<1>5. IndexInv' /\ known' = known /\ have' = have
  BY Zenon, <1>1, SameIndex
<1>6. ~s.fPreferredDownload
  BY Zenon, <1>1, <1>3 DEF NodeOK, NodeIn
<1>7. o \in BOOLEAN
  OBVIOUS
<1> HIDE DEF o
<1>8. /\ t \in NodeStates /\ t.vBlocksInFlight = s.vBlocksInFlight /\ t.nBlocksInFlight = s.nBlocksInFlight
      /\ t.nValidHeaders = s.nValidHeaders /\ t.stalling = s.stalling /\ t.common = s.common /\ t.best = s.best
      /\ t.fSyncStarted = s.fSyncStarted /\ t.fPreferredDownload = o /\ t.version = TRUE
  BY Zenon, <1>3, <1>7 DEF NodeStates
<1> HIDE DEF t
<1>9. NodeIn(t, known) /\ SameList(s.vBlocksInFlight, t.vBlocksInFlight)
  BY Zenon, <1>3, <1>8 DEF NodeOK, NodeIn, SameList
<1>10. /\ NetIn(net', known, have) /\ DOMAIN net'.node = DOMAIN net.node /\ net'.node[p] = t
       /\ \A q \in DOMAIN net.node \ {p} : net'.node[q] = net.node[q]
       /\ Surplus(net') = Surplus(net)
  <2>1. NetIn(net, known, have)
    BY Zenon, <1>3 DEF NetOK
  <2>2. QED
    BY <1>3, <1>4, <1>8, <1>9, <2>1, TouchFacts
<1>11. Q = IF o THEN P \cup {p} ELSE P
  BY Zenon, <1>2, <1>6, <1>8, <1>10 DEF Live
<1>12. {q \in Live : net'.node[q].fSyncStarted} = {q \in Live : net.node[q].fSyncStarted}
  BY Zenon, <1>2, <1>8, <1>10 DEF Live
<1>13. nPreferredDownload' = Cardinality(Q)
  <2>1. P \in SUBSET Live /\ p \notin P /\ IsFiniteSet(Live) /\ nPreferredDownload = Cardinality(P)
    BY Zenon, <1>6 DEF Inv, CounterInv
  <2> HIDE DEF P, Q
  <2>2. IsFiniteSet(P)
    BY Zenon, <2>1, FS_Subset
  <2>3. Cardinality(P) \in Nat /\ Cardinality(P \cup {p}) = Cardinality(P) + 1
    BY Zenon, <2>1, <2>2, FS_AddElement, FS_CardinalityType
  <2>4. CASE o
    BY Zenon, <1>1, <1>11, <2>1, <2>3, <2>4 DEF OneIf
  <2>5. CASE ~o
    BY <1>1, <1>11, <2>1, <2>3, <2>5 DEF OneIf
  <2>6. QED
    BY Zenon, <2>4, <2>5
<1>14. nSyncStarted' = Cardinality({q \in Live : net'.node[q].fSyncStarted})
  BY Zenon, <1>1, <1>12 DEF Inv, CounterInv
<1>15. QED
  <2>1. DOMAIN net'.node = Live /\ NetIn(net', known', have') /\ Surplus(net') = Surplus(net)
    BY Zenon, <1>5, <1>10 DEF Live
  <2>2. fresh' = fresh
    BY Zenon, <1>1
  <2>3. QED
    BY Zenon, <1>2, <1>5, <1>13, <1>14, <2>1, <2>2, NetStep

\* A connection ends: its requests leave mapBlocksInFlight, and those that were
\* validated stay counted in nQueuedValidatedHeaders.
LEMMA FinalizeStep ==
    ASSUME Inv, NEW p \in Peers, FinalizeNode(p)
    PROVE  Inv'
<1> DEFINE D == DOMAIN net.node
           I == net.inFlight
           s == net.node[p]
           L == s.vBlocksInFlight
           N == [q \in D \ {p} |-> net.node[q]]
           J == [b \in DOMAIN I \ Hashes(L) |-> I[b]]
<1>1. /\ p \in Live \ copied /\ nSyncStarted' = nSyncStarted - OneIf(s.fSyncStarted)
      /\ nPreferredDownload' = nPreferredDownload - OneIf(s.fPreferredDownload)
      /\ UNCHANGED <<blockVars, fresh, round>>
  BY Zenon DEF FinalizeNode
<1>2. IndexInv' /\ known' = known /\ have' = have
  BY Zenon, <1>1, SameIndex
<1>3. /\ net \in Nets /\ Linked(net) /\ Joined(net) /\ D \subseteq Peers /\ net.node \in [D -> NodeStates] /\ p \in D
      /\ DOMAIN I \subseteq Blocks /\ I \in [DOMAIN I -> Peers] /\ net.queued \in Int
  BY Zenon, <1>1, NetFacts DEF Inv, Linked, Live
<1>4. ListOK(s) /\ Hashes(L) = Owed(I, p) /\ L \in Seq(Entries)
  BY Zenon, <1>3, StateFacts DEF Joined, Owed
<1>5. {e.hash : e \in Range(L)} = Hashes(L)
  BY Zenon DEF Hashes, Range
<1>6. net' = [node |-> N, inFlight |-> J, queued |-> net.queued]
  <2>1. net' = [net EXCEPT !.node = Restrict(net.node, Live \ {p}),
                           !.inFlight = Restrict(I, DOMAIN I \ {e.hash : e \in Range(L)})]
    BY Zenon DEF FinalizeNode
  <2>2. Restrict(net.node, Live \ {p}) = N /\ Restrict(I, DOMAIN I \ {e.hash : e \in Range(L)}) = J
    BY Zenon, <1>5 DEF Restrict, Live
  <2> HIDE DEF N, J
  <2>3. net' = [net EXCEPT !.node = N, !.inFlight = J]
    BY Zenon, <2>1, <2>2
  <2>4. net = [node |-> net.node, inFlight |-> net.inFlight, queued |-> net.queued]
    BY Zenon, <1>3, NetFacts
  <2>5. QED
    BY Zenon, <2>3, <2>4
<1>7. net'.node = N /\ net'.inFlight = J /\ net'.queued = net.queued
  BY Zenon, <1>6
<1>8. DOMAIN N = D \ {p} /\ \A q \in D \ {p} : N[q] = net.node[q]
  BY Zenon
<1>9. DOMAIN J = DOMAIN I \ Owed(I, p) /\ \A b \in DOMAIN J : J[b] = I[b]
  BY Zenon, <1>4
<1>10. N \in Maps(Peers, NodeStates) /\ J \in Maps(Blocks, Peers)
  <2>1. N \in [D \ {p} -> NodeStates] /\ D \ {p} \subseteq Peers
    BY Zenon, <1>3
  <2>2. J \in [DOMAIN J -> Peers] /\ DOMAIN J \subseteq Blocks
    BY Zenon, <1>3
  <2> HIDE DEF N, J
  <2>3. QED
    BY Zenon, <2>1, <2>2 DEF Maps
<1> HIDE DEF N, J
<1>11. Linked(net')
  <2>1. net' \in Nets
    BY Zenon, <1>3, <1>6, <1>10 DEF Nets
  <2>2. IsFiniteSet(DOMAIN J)
    <3> DEFINE F == DOMAIN I
               G == DOMAIN J
    <3>1. IsFiniteSet(F) /\ G \in SUBSET F
      BY Zenon, <1>3, <1>9 DEF Joined
    <3> HIDE DEF F, G
    <3>2. IsFiniteSet(G)
      BY Zenon, <3>1, FS_Subset
    <3>3. QED
      BY Zenon, <3>2 DEF G
  <2>3. \A b \in DOMAIN J : J[b] \in D \ {p}
    BY Zenon, <1>3, <1>9 DEF Joined, Owed
  <2>4. ASSUME NEW q \in D \ {p} PROVE ListOK(N[q]) /\ Hashes(N[q].vBlocksInFlight) = Owed(J, q)
    <3>1. ListOK(net.node[q]) /\ Hashes(net.node[q].vBlocksInFlight) = Owed(I, q)
      BY Zenon, <1>3 DEF Joined, Owed
    <3>2. Owed(J, q) = Owed(I, q)
      BY Zenon, <1>9 DEF Owed
    <3>3. QED
      BY Zenon, <1>8, <3>1, <3>2
  <2>5. Joined(net')
    BY SMTT(20), <1>7, <1>8, <2>2, <2>3, <2>4 DEF Joined, Owed
  <2>6. QED
    BY Zenon, <2>1, <2>5 DEF Linked
<1>12. Live' = Live \ {p} /\ \A q \in Live \ {p} : net'.node[q] = net.node[q]
  BY Zenon, <1>7, <1>8 DEF Live
<1> DEFINE A == AllValid(net)
           V == ValidHashes(L)
<1>13. AllValid(net') = A \ V /\ V \subseteq A
  <2> DEFINE v(q) == ValidHashes(net.node[q].vBlocksInFlight)
  <2>1. \A q \in D : A \cap Owed(I, q) = v(q)
    BY Zenon, <1>3, AllValidFacts
  <2>2. \A q \in D \ {p} : v(q) \cap v(p) = {}
    BY <1>3, <2>1 DEF Owed
  <2>3. AllValid(net') = UNION {v(q) : q \in D \ {p}}
    BY Zenon, <1>7, <1>8 DEF AllValid
  <2>4. A = UNION {v(q) : q \in D} /\ V = v(p)
    BY Zenon DEF AllValid
  <2> HIDE DEF A, V, v, D
  <2>5. p \in D
    BY Zenon, <1>3
  <2>6. QED
    BY Zenon, <2>2, <2>3, <2>4, <2>5
<1>14. s.nValidHeaders = Cardinality(V)
  BY Zenon, <1>4 DEF ListOK
<1>15. net'.queued >= Cardinality(AllValid(net'))
  <2>1. IsFiniteSet(A) /\ Cardinality(A) \in Nat /\ net.queued >= Cardinality(A) /\ net.queued \in Int
    BY Zenon, <1>3, AllValidFacts, NetFacts DEF Inv, CounterInv
  <2>2. A \cap V = V
    BY Zenon, <1>13
  <2>3. V \in SUBSET A
    BY Zenon, <1>13
  <2> DEFINE n == AllValid(net')
  <2>4. n = A \ V
    BY Zenon, <1>13
  <2> HIDE DEF A, V, n
  <2>5. IsFiniteSet(V)
    BY Zenon, <2>1, <2>3, FS_Subset
  <2>6. Cardinality(V) \in Nat
    BY Zenon, <2>5, FS_CardinalityType
  <2>7. Cardinality(A \ V) = Cardinality(A) - Cardinality(V)
    <3>1. Cardinality(A \ V) = Cardinality(A) - Cardinality(A \cap V)
      BY Zenon, <2>1, FS_Difference
    <3>2. QED
      BY Zenon, <2>2, <3>1
  <2>8. net'.queued >= Cardinality(n)
    BY <1>7, <2>1, <2>4, <2>6, <2>7
  <2>9. QED
    BY Zenon, <2>8 DEF n
<1>16. ASSUME NEW P \in SUBSET Live, NEW c, c = Cardinality(P), NEW d, d = c - OneIf(p \in P)
       PROVE  d = Cardinality(P \ {p})
  <2>1. IsFiniteSet(Live)
    BY Zenon DEF Inv
  <2>2. IsFiniteSet(P)
    BY Zenon, <2>1, FS_Subset
  <2>3. Cardinality(P) \in Nat /\ Cardinality(P \ {p}) = IF p \in P THEN Cardinality(P) - 1 ELSE Cardinality(P)
    BY Zenon, <2>2, FS_CardinalityType, FS_RemoveElement
  <2>4. QED
    BY <1>16, <2>3 DEF OneIf
<1>17. nPreferredDownload' = Cardinality({q \in Live \ {p} : net'.node[q].fPreferredDownload})
  <2> DEFINE P == {q \in Live : net.node[q].fPreferredDownload}
  <2>1. P \in SUBSET Live /\ nPreferredDownload = Cardinality(P) /\ nPreferredDownload' = nPreferredDownload - OneIf(p \in P)
    <3>1. OneIf(p \in P) = OneIf(s.fPreferredDownload)
      BY Zenon, <1>1 DEF OneIf
    <3>2. QED
      BY Zenon, <1>1, <3>1 DEF Inv, CounterInv
  <2>2. {q \in Live \ {p} : net'.node[q].fPreferredDownload} = P \ {p}
    BY <1>12
  <2> HIDE DEF P
  <2>3. QED
    BY Zenon, <1>16, <2>1, <2>2
<1>18. nSyncStarted' = Cardinality({q \in Live \ {p} : net'.node[q].fSyncStarted})
  <2> DEFINE P == {q \in Live : net.node[q].fSyncStarted}
  <2>1. P \in SUBSET Live /\ nSyncStarted = Cardinality(P) /\ nSyncStarted' = nSyncStarted - OneIf(p \in P)
    <3>1. OneIf(p \in P) = OneIf(s.fSyncStarted)
      BY Zenon, <1>1 DEF OneIf
    <3>2. QED
      BY Zenon, <1>1, <3>1 DEF Inv, CounterInv
  <2>2. {q \in Live \ {p} : net'.node[q].fSyncStarted} = P \ {p}
    BY <1>12
  <2> HIDE DEF P
  <2>3. QED
    BY Zenon, <1>16, <2>1, <2>2
<1>19. CounterInv'
  <2>1. AllValid(net)' = AllValid(net')
    BY Zenon DEF AllValid
  <2>2. QED
    BY Zenon, <1>12, <1>15, <1>17, <1>18, <2>1 DEF CounterInv
<1>20. IsFiniteSet(Live')
  <2>1. IsFiniteSet(Live)
    BY Zenon DEF Inv
  <2>2. IsFiniteSet(Live \ {p})
    BY Zenon, <2>1, FS_RemoveElement
  <2>3. QED
    BY Zenon, <1>12, <2>2
<1>21. \A q \in Live' : NodeOK(net.node[q])'
  BY Zenon, <1>2, <1>12 DEF Inv, NodeOK
<1>22. /\ todo' \subseteq copied' /\ copied' \subseteq Live' /\ Live' \cap fresh' = {} /\ fresh' \subseteq Peers
       /\ DOMAIN net'.inFlight \cap have' = {}
  <2>1. fresh' = fresh /\ todo' = todo /\ copied' = copied
    BY Zenon, <1>1 DEF round
  <2>2. QED
    BY Zenon, <1>1, <1>2, <1>7, <1>9, <1>12, <2>1 DEF Inv
<1>23. QED
  BY Zenon, <1>2, <1>11, <1>19, <1>20, <1>21, <1>22 DEF Inv

\* A block is announced.
LEMMA InvStep ==
    ASSUME Inv, NEW p \in Peers, NEW b \in Blocks, InvMessage(p, b)
    PROVE  Inv'
<1> DEFINE s == net.node[p]
           t == UpdateBlockAvailability(s, b, known)
           n == [net EXCEPT !.node[p] = t]
           asks == /\ b \notin known \cup DOMAIN net.inFlight /\ ~ibd
                   /\ s.nBlocksInFlight < MAX_BLOCKS_IN_TRANSIT_PER_PEER
<1>1. /\ Listening(p) /\ UNCHANGED <<blockVars, fresh, counters, round>>
      /\ net' = IF asks THEN MarkBlockAsInFlight(n, p, b, FALSE) ELSE n
  BY Zenon DEF InvMessage
<1>2. p \in Live
  BY Zenon, <1>1 DEF Listening, Inv
<1>3. IndexInv' /\ known' = known /\ have' = have /\ IndexInv
  BY Zenon, <1>1, SameIndex DEF Inv
<1>4. net \in Nets /\ s \in NodeStates /\ NodeOK(s) /\ NetIn(net, known, have) /\ p \in DOMAIN net.node
  BY Zenon, <1>2, PeerFacts DEF NetOK
<1>5. t \in NodeStates /\ SameRest(s, t) /\ t.best \in known \cup {s.best}
  <2>1. known \in SUBSET Blocks
    BY Zenon, <1>3 DEF IndexInv
  <2>2. QED
    BY Zenon, <1>4, <2>1, UpdateFacts
<1> HIDE DEF t
<1>6. NodeIn(t, known) /\ SameList(s.vBlocksInFlight, t.vBlocksInFlight)
  BY Zenon, <1>4, <1>5 DEF NodeOK, NodeIn, SameRest, SameList
<1>7. /\ NetIn(n, known, have) /\ DOMAIN n.node = DOMAIN net.node /\ n.inFlight = net.inFlight /\ n.node[p] = t
      /\ \A q \in DOMAIN net.node \ {p} : n.node[q] = net.node[q]
      /\ Surplus(n) = Surplus(net)
  <2>1. t.nBlocksInFlight = net.node[p].nBlocksInFlight /\ t.nValidHeaders = net.node[p].nValidHeaders
    BY Zenon, <1>5 DEF SameRest
  <2>2. QED
    BY <1>4, <1>5, <1>6, <2>1, TouchFacts
<1> HIDE DEF n
<1>8. SameTotals(net, n)
  BY Zenon, <1>5, <1>7 DEF SameTotals, SameRest
<1>9. CASE ~asks
  <2>1. net' = n
    BY Zenon, <1>1, <1>9
  <2>2. QED
    BY Zenon, <1>1, <1>3, <1>7, <1>8, <2>1, SameStep
<1>10. CASE asks
  <2>1. net' = MarkBlockAsInFlight(n, p, b, FALSE) /\ b \notin DOMAIN n.inFlight /\ b \notin have
    BY Zenon, <1>1, <1>3, <1>7, <1>10 DEF IndexInv
  <2>2. Asked(n, net', p, b)
    <3>1. Linked(n) /\ p \in DOMAIN n.node
      BY Zenon, <1>4, <1>7 DEF NetIn
    <3>2. QED
      BY Zenon, <2>1, <3>1, InFlightFacts
  <2>3. NodeIn(net'.node[p], known)
    <3>1. /\ SameFields(t, net'.node[p]) /\ net'.node[p].nBlocksInFlight = t.nBlocksInFlight + 1
          /\ net'.node[p].vBlocksInFlight # <<>>
      BY Zenon, <1>7, <2>2 DEF Asked
    <3>2. net'.node[p].nBlocksInFlight <= MAX_BLOCKS_IN_TRANSIT_PER_PEER
      <4>1. t.nBlocksInFlight \in Int /\ t.nBlocksInFlight < MAX_BLOCKS_IN_TRANSIT_PER_PEER
        BY Zenon, <1>5, <1>10, StateFacts DEF SameRest
      <4>2. QED
        BY <3>1, <4>1, BlockDownloadAssumption
    <3>3. QED
      BY Zenon, <1>6, <3>1, <3>2 DEF NodeIn, SameFields
  <2>4. NetIn(net', known, have)
    <3>1. \A q \in DOMAIN n.node : NodeIn(net'.node[q], known)
      BY Zenon, <1>7, <2>2, <2>3 DEF Asked, NetIn
    <3>2. DOMAIN net'.inFlight \cap have = {}
      BY Zenon, <1>7, <2>1, <2>2 DEF Asked, NetIn
    <3>3. QED
      BY Zenon, <2>2, <3>1, <3>2 DEF Asked, NetIn
  <2>5. SameTotals(net, net')
    <3>1. SameTotals(n, net')
      BY Zenon, <2>2 DEF SameTotals, Asked, SameFields
    <3>2. QED
      BY Zenon, <1>8, <3>1 DEF SameTotals
  <2>6. QED
    BY Zenon, <1>1, <1>3, <2>4, <2>5, SameStep
<1>11. QED
  BY Zenon, <1>9, <1>10

\* Headers arrive.
LEMMA HeadersStep ==
    ASSUME Inv, NEW p \in Peers, NEW b \in Blocks, NEW child \in BOOLEAN, HeadersMessage(p, b, child)
    PROVE  Inv'
<1> DEFINE s == net.node[p]
           t == UpdateBlockAvailability(s, b, known')
           x == s.fShouldBan \/ child
           u == [s EXCEPT !.fShouldBan = x]
<1>1. /\ Listening(p) /\ UNCHANGED <<have, failed, tip, ibd, fresh, counters, round>>
      /\ known' = known \cup {c \in Chain(b) : Chain(c) \cap failed = {}}
      /\ net' = IF Chain(b) \cap failed = {} THEN [net EXCEPT !.node[p] = t]
                ELSE [net EXCEPT !.node[p].fShouldBan = x]
  BY Zenon DEF HeadersMessage
<1>2. p \in Live /\ IndexInv
  BY Zenon, <1>1 DEF Listening, Inv
<1>3. IndexInv' /\ known \subseteq known' /\ have' = have /\ known' \in SUBSET Blocks
  <2>1. known' \subseteq Blocks
    BY Zenon, <1>1, <1>2, ChainFacts DEF IndexInv
  <2>2. ASSUME NEW c \in known' \ {Genesis} PROVE Parent[c] \in known'
    <3>1. CASE c \in known
      BY Zenon, <1>1, <1>2, <2>2, <3>1 DEF IndexInv
    <3>2. CASE c \in Chain(b) /\ Chain(c) \cap failed = {}
      <4>1. c \in Blocks \ {Genesis}
        BY Zenon, <2>1, <2>2
      <4>2. Parent[c] \in Chain(c) /\ Chain(Parent[c]) \subseteq Chain(c) /\ Chain(c) \subseteq Chain(b)
        BY SMTT(20), <3>2, <4>1, ChainFacts, HeightFacts
      <4>3. QED
        BY Zenon, <1>1, <3>2, <4>2
    <3>3. QED
      BY Zenon, <1>1, <2>2, <3>1, <3>2
  <2>3. QED
    BY Zenon, <1>1, <1>2, <2>1, <2>2 DEF IndexInv
<1>4. net \in Nets /\ net.node \in [Live -> NodeStates] /\ s \in NodeStates /\ NodeOK(s)
  BY Zenon, <1>2, PeerFacts
<1>5. NodeIn(s, known')
  BY Zenon, <1>3, <1>4 DEF NodeOK, NodeIn
<1>6. UNCHANGED <<fresh, counters, round>>
  BY Zenon, <1>1
<1>7. CASE Chain(b) \cap failed = {}
  <2>1. net' = [net EXCEPT !.node[p] = t]
    BY Zenon, <1>1, <1>7
  <2>2. t \in NodeStates /\ SameRest(s, t) /\ t.best \in known' \cup {s.best}
    BY Zenon, <1>3, <1>4, UpdateFacts
  <2> HIDE DEF t
  <2>3. NodeIn(t, known') /\ SameList(s.vBlocksInFlight, t.vBlocksInFlight)
    BY Zenon, <1>5, <2>2 DEF NodeIn, SameRest, SameList
  <2>4. /\ t.nBlocksInFlight = net.node[p].nBlocksInFlight /\ t.nValidHeaders = net.node[p].nValidHeaders
        /\ t.fPreferredDownload = net.node[p].fPreferredDownload /\ t.fSyncStarted = net.node[p].fSyncStarted
    BY Zenon, <2>2 DEF SameRest
  <2>5. QED
    BY Zenon, <1>2, <1>3, <1>6, <2>1, <2>2, <2>3, <2>4, TouchStep
<1>8. CASE Chain(b) \cap failed # {}
  <2>1. net' = [net EXCEPT !.node[p] = u]
    BY Zenon, <1>1, <1>2, <1>4, <1>8, NetFacts
  <2>2. x \in BOOLEAN
    BY Zenon
  <2> HIDE DEF x
  <2>3. u \in NodeStates /\ SameRest(s, u) /\ u.best = s.best
    BY Zenon, <1>4, <2>2 DEF NodeStates, SameRest
  <2> HIDE DEF u
  <2>4. NodeIn(u, known') /\ SameList(s.vBlocksInFlight, u.vBlocksInFlight)
    BY Zenon, <1>5, <2>3 DEF NodeIn, SameRest, SameList
  <2>5. /\ u.nBlocksInFlight = net.node[p].nBlocksInFlight /\ u.nValidHeaders = net.node[p].nValidHeaders
        /\ u.fPreferredDownload = net.node[p].fPreferredDownload /\ u.fSyncStarted = net.node[p].fSyncStarted
    BY Zenon, <2>3 DEF SameRest
  <2>6. QED
    BY Zenon, <1>2, <1>3, <1>6, <2>1, <2>3, <2>4, <2>5, TouchStep
<1>9. QED
  BY Zenon, <1>7, <1>8

\* The requests once a block has come.
LEMMA ReceivedNet ==
    ASSUME Inv, NEW b, NEW K, known \subseteq K
    PROVE  /\ NetIn(MarkBlockAsReceived(net, b), K, have \cup {b})
           /\ SameTotals(net, MarkBlockAsReceived(net, b))
<1> DEFINE n == MarkBlockAsReceived(net, b)
<1>1. Linked(net) /\ net \in Nets /\ DOMAIN net.inFlight \cap have = {}
  BY Zenon DEF Inv, Linked
<1>2. Delivered(net, n, b)
  BY Zenon, <1>1, ReceivedFacts
<1> HIDE DEF n
<1>3. ASSUME NEW q \in DOMAIN net.node PROVE NodeIn(n.node[q], K)
  <2>1. NodeOK(net.node[q]) /\ net.node[q].nBlocksInFlight \in Int
    BY Zenon, <1>1, NetFacts, StateFacts DEF Inv, Live
  <2>2. /\ SameFields(net.node[q], n.node[q]) /\ n.node[q].nBlocksInFlight <= net.node[q].nBlocksInFlight
        /\ n.node[q] = net.node[q] \/ n.node[q].stalling = None
    BY Zenon, <1>2 DEF Delivered
  <2>3. n.node[q].nBlocksInFlight \in Int
    BY Zenon, <1>2, NetFacts, StateFacts DEF Delivered, Linked
  <2>4. n.node[q].nBlocksInFlight <= MAX_BLOCKS_IN_TRANSIT_PER_PEER
    BY SMTT(20), <2>1, <2>2, <2>3, BlockDownloadAssumption DEF NodeOK, NodeIn
  <2>5. QED
    BY Zenon, <2>1, <2>2, <2>4 DEF NodeOK, NodeIn, SameFields
<1>4. NetIn(n, K, have \cup {b})
  BY Zenon, <1>1, <1>2, <1>3 DEF NetIn, Delivered
<1>5. SameTotals(net, n)
  BY Zenon, <1>2 DEF SameTotals, Delivered, SameFields
<1>6. QED
  BY Zenon, <1>4, <1>5 DEF n

\* A peer that sent something bad.
LEMMA BanFacts ==
    ASSUME NEW n, NEW K, NEW H, NetIn(n, K, H), NEW p \in DOMAIN n.node, NEW ban \in BOOLEAN, NEW m,
           m = [n EXCEPT !.node[p].fShouldBan = @ \/ ban]
    PROVE  NetIn(m, K, H) /\ SameTotals(n, m)
<1> DEFINE s == n.node[p]
           x == s.fShouldBan \/ ban
           u == [s EXCEPT !.fShouldBan = x]
<1>1. n \in Nets /\ n.node \in [DOMAIN n.node -> NodeStates] /\ s \in NodeStates /\ NodeIn(s, K)
  BY Zenon, NetFacts DEF NetIn, Linked
<1>2. m = [n EXCEPT !.node[p] = u]
  BY Zenon, <1>1, NetFacts
<1>3. x \in BOOLEAN
  BY Zenon
<1> HIDE DEF x
<1>4. u \in NodeStates /\ SameRest(s, u) /\ u.best = s.best
  BY Zenon, <1>1, <1>3 DEF NodeStates, SameRest
<1> HIDE DEF u
<1>5. NodeIn(u, K) /\ SameList(s.vBlocksInFlight, u.vBlocksInFlight)
  BY Zenon, <1>1, <1>4 DEF NodeIn, SameRest, SameList
<1>6. /\ NetIn(m, K, H) /\ DOMAIN m.node = DOMAIN n.node /\ m.node[p] = u
      /\ \A q \in DOMAIN n.node \ {p} : m.node[q] = n.node[q]
      /\ Surplus(m) = Surplus(n)
  <2>1. u.nBlocksInFlight = n.node[p].nBlocksInFlight /\ u.nValidHeaders = n.node[p].nValidHeaders
    BY Zenon, <1>4 DEF SameRest
  <2> DEFINE r == [n EXCEPT !.node[p] = u]
  <2>2. /\ NetIn(r, K, H) /\ DOMAIN r.node = DOMAIN n.node /\ r.node[p] = u
        /\ \A q \in DOMAIN n.node \ {p} : r.node[q] = n.node[q]
        /\ Surplus(r) = Surplus(n)
    BY <1>4, <1>5, <2>1, TouchFacts
  <2>3. m = r
    BY Zenon, <1>2
  <2> HIDE DEF r
  <2>4. QED
    BY Zenon, <2>2, <2>3
<1>7. QED
  BY Zenon, <1>4, <1>6 DEF SameTotals, SameRest

\* A block arrives.
LEMMA BlockStep ==
    ASSUME Inv, NEW p \in Peers, NEW b \in Blocks, NEW verdict, BlockMessage(p, b, verdict)
    PROVE  Inv'
<1> DEFINE n == MarkBlockAsReceived(net, b)
           wanted == Wants(b)
           good == wanted /\ verdict = "valid"
<1>1. Listening(p) /\ UNCHANGED <<fresh, counters, round>> /\ b # Genesis
  BY Zenon DEF BlockMessage
<1>2. p \in Live /\ IndexInv /\ p \in DOMAIN net.node
  BY Zenon, <1>1 DEF Listening, Inv, Live
<1>3. \/ /\ ~HeaderAccepted(b)
         /\ \E ban \in BOOLEAN : net' = [n EXCEPT !.node[p].fShouldBan = @ \/ ban]
         /\ UNCHANGED <<known, have, failed, tip, ibd>>
      \/ /\ HeaderAccepted(b) /\ wanted /\ ~good
         /\ \E ban \in BOOLEAN : net' = [n EXCEPT !.node[p].fShouldBan = @ \/ ban]
         /\ known' = known \cup {b}
         /\ failed' = IF verdict = "corrupt" THEN failed ELSE failed \cup {b}
         /\ UNCHANGED <<have, tip, ibd>>
      \/ /\ HeaderAccepted(b) /\ (wanted => good)
         /\ net' = n /\ known' = known \cup {b}
         /\ have' = IF good THEN have \cup {b} ELSE have
         /\ tip' \in BestTips(have')
         /\ ibd' \in IF tip' # tip THEN {ibd, FALSE} ELSE {ibd}
         /\ UNCHANGED failed
  BY Zenon DEF BlockMessage
<1>4. HeaderAccepted(b) => b \notin failed /\ (b \notin known => Parent[b] \in known)
  BY Zenon, <1>2 DEF HeaderAccepted, IndexInv
<1>5. wanted => b \notin have
  BY Zenon DEF Wants
<1> HIDE DEF n, wanted, good
<1>6. \A K : known \subseteq K => NetIn(n, K, have \cup {b}) /\ SameTotals(net, n)
  BY Zenon, ReceivedNet DEF n
<1>7. \A K, H, m : H \subseteq have \cup {b} /\ NetIn(m, K, have \cup {b}) => NetIn(m, K, H)
  BY Zenon DEF NetIn
<1>8. p \in DOMAIN n.node
  BY Zenon, <1>2, <1>6 DEF SameTotals
<1>9. ASSUME NEW ban \in BOOLEAN, net' = [n EXCEPT !.node[p].fShouldBan = @ \/ ban], NEW K, known \subseteq K
      PROVE  NetIn(net', K, have) /\ SameTotals(net, net')
  <2>1. NetIn(n, K, have) /\ SameTotals(net, n)
    BY Zenon, <1>6, <1>7, <1>9
  <2>2. NetIn(net', K, have) /\ SameTotals(n, net')
    BY Zenon, <1>8, <1>9, <2>1, BanFacts
  <2>3. QED
    BY Zenon, <2>1, <2>2 DEF SameTotals
<1>10. CASE /\ ~HeaderAccepted(b)
            /\ \E ban \in BOOLEAN : net' = [n EXCEPT !.node[p].fShouldBan = @ \/ ban]
            /\ UNCHANGED <<known, have, failed, tip, ibd>>
  <2>1. IndexInv'
    BY Zenon, <1>2, <1>10 DEF IndexInv
  <2>2. known \subseteq known' /\ have' = have
    BY Zenon, <1>10
  <2>3. NetIn(net', known', have') /\ SameTotals(net, net')
    BY Zenon, <1>9, <1>10, <2>2
  <2>4. QED
    BY Zenon, <1>1, <2>1, <2>3, SameStep
<1>11. CASE /\ HeaderAccepted(b) /\ wanted /\ ~good
            /\ \E ban \in BOOLEAN : net' = [n EXCEPT !.node[p].fShouldBan = @ \/ ban]
            /\ known' = known \cup {b}
            /\ failed' = IF verdict = "corrupt" THEN failed ELSE failed \cup {b}
            /\ UNCHANGED <<have, tip, ibd>>
  <2>1. IndexInv'
    BY Zenon, <1>1, <1>2, <1>4, <1>5, <1>11 DEF IndexInv
  <2>2. known \subseteq known' /\ have' = have
    BY Zenon, <1>11
  <2>3. NetIn(net', known', have') /\ SameTotals(net, net')
    BY Zenon, <1>9, <1>11, <2>2
  <2>4. QED
    BY Zenon, <1>1, <2>1, <2>3, SameStep
<1>12. CASE /\ HeaderAccepted(b) /\ (wanted => good)
            /\ net' = n /\ known' = known \cup {b}
            /\ have' = IF good THEN have \cup {b} ELSE have
            /\ tip' \in BestTips(have')
            /\ ibd' \in IF tip' # tip THEN {ibd, FALSE} ELSE {ibd}
            /\ UNCHANGED failed
  <2>1. have \subseteq have' /\ have' \subseteq have \cup {b}
    BY Zenon, <1>12
  <2>2. tip' \in have'
    BY Zenon, <1>2, <1>12, <2>1 DEF BestTips, IndexInv
  <2>3. ibd' \in BOOLEAN
    BY Zenon, <1>2, <1>12 DEF IndexInv
  <2>4. IndexInv'
    BY Zenon, <1>1, <1>2, <1>4, <1>12, <2>1, <2>2, <2>3 DEF IndexInv
  <2>5. NetIn(net', known', have') /\ SameTotals(net, net')
    <3>1. known \subseteq known' /\ net' = n
      BY Zenon, <1>12
    <3>2. QED
      BY Zenon, <1>6, <1>7, <2>1, <3>1
  <2>6. QED
    BY Zenon, <1>1, <2>4, <2>5, SameStep
<1>13. QED
  BY Zenon, <1>3, <1>10, <1>11, <1>12

\* SendMessages before it asks for blocks: the peer's state s becomes u.
Sent(s, u, sync) ==
    /\ u \in NodeStates /\ SameList(s.vBlocksInFlight, u.vBlocksInFlight)
    /\ u.nBlocksInFlight = s.nBlocksInFlight /\ u.nValidHeaders = s.nValidHeaders
    /\ u.fPreferredDownload = s.fPreferredDownload /\ (u.fSyncStarted <=> s.fSyncStarted \/ sync)
    /\ NodeOK(u)

\* The timeout of the oldest request is shortened.
LEMMA ShortenedFacts ==
    ASSUME NEW s \in NodeStates, NodeOK(s), net.queued \in Int
    PROVE  Sent(s, Shortened(s), FALSE)
<1> DEFINE q == s.vBlocksInFlight
           t == Shortened(s)
<1>1. q \in Seq(Entries) /\ q \in Lists /\ s.nValidHeaders \in Int /\ s.fSyncStarted \in BOOLEAN
  BY Zenon, StateFacts DEF Lists
<1>2. CASE q = <<>>
  <2>1. t = s
    BY Zenon, <1>2 DEF Shortened
  <2>2. QED
    BY Zenon, <1>1, <2>1 DEF Sent, SameList
<1>3. CASE q # <<>>
  <2> DEFINE now == GetBlockTimeout(net.queued - s.nValidHeaders)
             x == IF q[1].left > now THEN now ELSE q[1].left
             e == [q[1] EXCEPT !.left = x]
             r == [q EXCEPT ![1] = e]
  <2>1. Len(q) \in Nat /\ DOMAIN q = 1 .. Len(q) /\ q[1] \in Entries /\ 1 \in DOMAIN q
    <3>1. Len(q) \in Nat /\ DOMAIN q = 1 .. Len(q) /\ \A i \in DOMAIN q : q[i] \in Entries
      BY Zenon, <1>1, ListFacts
    <3>2. Len(q) # 0
      BY <1>1, <1>3
    <3>3. 1 \in DOMAIN q
      BY <3>1, <3>2
    <3>4. QED
      BY Zenon, <3>1, <3>3
  <2>2. x \in Int
    <3>1. now \in Int /\ q[1].left \in Int
      BY SMTT(20), <1>1, <2>1, BlockDownloadAssumption DEF GetBlockTimeout, Entries
    <3>2. QED
      BY Zenon, <3>1
  <2>3. t = [s EXCEPT !.vBlocksInFlight = r]
    <3>1. t = [s EXCEPT !.vBlocksInFlight[1].left = x]
      BY Zenon, <1>3 DEF Shortened
    <3> HIDE DEF x
    <3>2. [s EXCEPT !.vBlocksInFlight[1].left = x] = [s EXCEPT !.vBlocksInFlight = r]
      BY Zenon
    <3>3. QED
      BY Zenon, <3>1, <3>2
  <2> HIDE DEF x
  <2>4. e \in Entries /\ e.hash = q[1].hash /\ e.fValidatedHeaders = q[1].fValidatedHeaders
    BY Zenon, <2>1, <2>2 DEF Entries
  <2> HIDE DEF e
  <2>5. r \in Seq(Entries) /\ DOMAIN r = DOMAIN q /\ Len(r) = Len(q) /\ r[1] = e /\ \A i \in DOMAIN q \ {1} : r[i] = q[i]
    BY <1>1, <2>1, <2>4
  <2>6. r # <<>> /\ r \in Lists
    BY <1>1, <1>3, <2>1, <2>5 DEF Lists
  <2> HIDE DEF r
  <2>7. SameList(q, r)
    BY Zenon, <2>1, <2>4, <2>5 DEF SameList
  <2> HIDE DEF t
  <2>8. /\ t \in NodeStates /\ t.vBlocksInFlight = r /\ t.nBlocksInFlight = s.nBlocksInFlight
        /\ t.nValidHeaders = s.nValidHeaders /\ t.stalling = s.stalling /\ SameFields(s, t)
    BY Zenon, <2>3, <2>6 DEF NodeStates, SameFields
  <2>9. NodeOK(t)
    BY Zenon, <2>6, <2>8 DEF NodeOK, NodeIn, SameFields
  <2>10. QED
    BY Zenon, <2>7, <2>8, <2>9 DEF Sent, SameFields, t
<1>4. QED
  BY Zenon, <1>2, <1>3

\* Flags change, or what the peer is known to have.
LEMMA SentFlags ==
    ASSUME NEW s \in NodeStates, NodeOK(s), NEW x \in BOOLEAN, NEW y \in BOOLEAN, NEW z \in BOOLEAN
    PROVE  Sent(s, [s EXCEPT !.fSyncStarted = @ \/ x, !.fShouldBan = y, !.fDisconnect = z], x)
<1> DEFINE w == s.fSyncStarted \/ x
           t == [s EXCEPT !.fSyncStarted = w, !.fShouldBan = y, !.fDisconnect = z]
<1>1. w \in BOOLEAN
  BY Zenon
<1>2. w <=> s.fSyncStarted \/ x
  BY Zenon
<1>3. [s EXCEPT !.fSyncStarted = @ \/ x, !.fShouldBan = y, !.fDisconnect = z] = t
  BY Zenon
<1> HIDE DEF w
<1>4. /\ t \in NodeStates /\ t.vBlocksInFlight = s.vBlocksInFlight /\ t.nBlocksInFlight = s.nBlocksInFlight
      /\ t.nValidHeaders = s.nValidHeaders /\ t.stalling = s.stalling /\ t.best = s.best /\ t.common = s.common
      /\ t.fPreferredDownload = s.fPreferredDownload /\ t.version = s.version /\ t.fSyncStarted = w
  BY Zenon, <1>1 DEF NodeStates
<1> HIDE DEF t
<1>5. NodeOK(t) /\ SameList(s.vBlocksInFlight, t.vBlocksInFlight)
  BY Zenon, <1>4 DEF NodeOK, NodeIn, SameList
<1>6. Sent(s, t, x)
  BY Zenon, <1>2, <1>4, <1>5 DEF Sent
<1>7. QED
  BY Zenon, <1>3, <1>6

LEMMA SentDisconnect ==
    ASSUME NEW s \in NodeStates, NodeOK(s), NEW z \in BOOLEAN
    PROVE  Sent(s, [s EXCEPT !.fDisconnect = z], FALSE)
<1> DEFINE t == [s EXCEPT !.fDisconnect = z]
<1>1. /\ t \in NodeStates /\ SameRest(s, t) /\ t.best = s.best /\ s.fSyncStarted \in BOOLEAN
  BY Zenon DEF NodeStates, SameRest
<1> HIDE DEF t
<1>2. NodeOK(t) /\ SameList(s.vBlocksInFlight, t.vBlocksInFlight)
  BY Zenon, <1>1 DEF NodeOK, NodeIn, SameRest, SameList
<1>3. Sent(s, t, FALSE)
  BY Zenon, <1>1, <1>2 DEF Sent, SameRest
<1>4. QED
  BY Zenon, <1>3 DEF t

LEMMA SentTogether ==
    ASSUME NEW s, NEW t, NEW u, NEW sync \in BOOLEAN, Sent(s, t, sync), Sent(t, u, FALSE)
    PROVE  Sent(s, u, sync)
<1>1. SameList(s.vBlocksInFlight, u.vBlocksInFlight)
  BY Zenon DEF Sent, SameList
<1>2. QED
  BY Zenon, <1>1 DEF Sent

\* SendMessages to a peer.
LEMMA SendStep ==
    ASSUME Inv, NEW p \in Peers, SendMessages(p)
    PROVE  Inv'
<1> DEFINE s == net.node[p]
           fFetch == s.fPreferredDownload \/ nPreferredDownload = 0
           sync == ~s.fSyncStarted /\ ((nSyncStarted = 0 /\ fFetch) \/ ~ibd)
           s1 == [s EXCEPT !.fSyncStarted = @ \/ sync, !.fShouldBan = FALSE,
                           !.fDisconnect = s.fShouldBan \/ Passed(s.stalling)]
           s2 == IF s1.fDisconnect THEN s1 ELSE Shortened(s1)
           s3 == [s2 EXCEPT !.fDisconnect = @ \/ TimedOut(s2)]
           s4 == ProcessBlockAvailability(s3, known)
           asks == ~s3.fDisconnect /\ (fFetch \/ ~ibd)
                      /\ s.nBlocksInFlight < MAX_BLOCKS_IN_TRANSIT_PER_PEER
<1>1. /\ Listening(p) /\ Visited(p) /\ UNCHANGED <<blockVars, fresh, nPreferredDownload>>
      /\ nSyncStarted' = nSyncStarted + OneIf(sync)
      /\ net' = IF asks /\ Interesting(s4) THEN Fetch([net EXCEPT !.node[p] = s4], p, s4)
                ELSE [net EXCEPT !.node[p] = IF asks THEN s4 ELSE s3]
  BY Zenon DEF SendMessages
<1>2. p \in Live /\ IndexInv /\ todo' \subseteq copied' /\ copied' \subseteq copied
  BY Zenon, <1>1, VisitedRounds DEF Listening, Inv
<1>3. net \in Nets /\ net.queued \in Int /\ s \in NodeStates /\ NodeOK(s) /\ NetOK(net) /\ p \in DOMAIN net.node
  BY Zenon, <1>2, PeerFacts, NetFacts
<1>4. IndexInv' /\ known' = known /\ have' = have
  BY Zenon, <1>1, SameIndex
<1>5. sync \in BOOLEAN /\ (sync => ~s.fSyncStarted)
  BY Zenon
<1> HIDE DEF sync
<1>6. Sent(s, s1, sync)
  <2> DEFINE z == s.fShouldBan \/ Passed(s.stalling)
  <2>1. z \in BOOLEAN
    BY Zenon
  <2> HIDE DEF z, s
  <2>2. Sent(s, [s EXCEPT !.fSyncStarted = @ \/ sync, !.fShouldBan = FALSE, !.fDisconnect = z], sync)
    BY Zenon, <1>3, <1>5, <2>1, SentFlags
  <2>3. QED
    BY Zenon, <2>2 DEF z
<1> HIDE DEF s1
<1>7. s1 \in NodeStates /\ NodeOK(s1)
  BY Zenon, <1>6 DEF Sent
<1>8. Sent(s, s2, sync)
  <2>1. Sent(s1, Shortened(s1), FALSE)
    BY Zenon, <1>3, <1>7, ShortenedFacts
  <2>2. Sent(s, Shortened(s1), sync)
    <3> DEFINE v == Shortened(s1)
    <3>1. Sent(s1, v, FALSE)
      BY Zenon, <2>1
    <3> HIDE DEF s, v
    <3>2. Sent(s, v, sync)
      BY Zenon, <1>5, <1>6, <3>1, SentTogether
    <3>3. QED
      BY Zenon, <3>2 DEF v
  <2>3. QED
    BY Zenon, <1>6, <2>2
<1> HIDE DEF s2
<1>9. s2 \in NodeStates /\ NodeOK(s2)
  BY Zenon, <1>8 DEF Sent
<1>10. Sent(s, s3, sync)
  <2> DEFINE z == s2.fDisconnect \/ TimedOut(s2)
  <2>1. z \in BOOLEAN
    BY Zenon
  <2>2. s3 = [s2 EXCEPT !.fDisconnect = z]
    BY Zenon
  <2> HIDE DEF z, s, s3
  <2>3. Sent(s2, [s2 EXCEPT !.fDisconnect = z], FALSE)
    BY Zenon, <1>9, <2>1, SentDisconnect
  <2>4. Sent(s2, s3, FALSE)
    BY Zenon, <2>2, <2>3
  <2>5. QED
    BY Zenon, <1>5, <1>8, <2>4, SentTogether
<1> HIDE DEF s3
<1>11. Sent(s, s4, sync)
  <2>1. s3 \in NodeStates /\ NodeOK(s3) /\ known \in SUBSET Blocks /\ s3.fSyncStarted \in BOOLEAN
    BY Zenon, <1>2, <1>10, StateFacts DEF Sent, IndexInv
  <2>2. s4 \in NodeStates /\ SameRest(s3, s4) /\ s4.best \in known \cup {s3.best}
    BY Zenon, <2>1, AvailabilityFacts
  <2> HIDE DEF s4, s
  <2>3. NodeOK(s4) /\ SameList(s3.vBlocksInFlight, s4.vBlocksInFlight)
    BY Zenon, <2>1, <2>2 DEF NodeOK, NodeIn, SameRest, SameList
  <2>4. Sent(s3, s4, FALSE)
    BY Zenon, <2>1, <2>2, <2>3 DEF Sent, SameRest
  <2>5. QED
    BY Zenon, <1>5, <1>10, <2>4, SentTogether
<1>12. asks /\ Interesting(s4) => s4.best # None /\ s.nBlocksInFlight < MAX_BLOCKS_IN_TRANSIT_PER_PEER
  BY Zenon DEF Interesting
<1> HIDE DEF s4, asks
<1>13. ASSUME NEW u, Sent(s, u, sync), NEW n, n = [net EXCEPT !.node[p] = u]
       PROVE  /\ NetIn(n, known, have) /\ DOMAIN n.node = DOMAIN net.node /\ n.inFlight = net.inFlight
              /\ n.node[p] = u /\ Surplus(n) = Surplus(net)
              /\ \A q \in DOMAIN net.node \ {p} : n.node[q] = net.node[q]
  <2>1. /\ u \in NodeStates /\ NodeIn(u, known) /\ SameList(s.vBlocksInFlight, u.vBlocksInFlight)
        /\ u.nBlocksInFlight = s.nBlocksInFlight /\ u.nValidHeaders = s.nValidHeaders
    BY Zenon, <1>13 DEF Sent, NodeOK
  <2>2. NetIn(net, known, have)
    BY Zenon, <1>3 DEF NetOK
  <2>3. QED
    BY <1>3, <1>13, <2>1, <2>2, TouchFacts
<1>14. PICK u : /\ Sent(s, u, sync)
                /\ NetIn(net', known, have)
                /\ SameTotals([net EXCEPT !.node[p] = u], net')
  <2>1. CASE asks /\ Interesting(s4)
    <3> DEFINE n == [net EXCEPT !.node[p] = s4]
    <3>1. net' = Fetch(n, p, s4)
      BY Zenon, <1>1, <2>1
    <3>2. /\ NetIn(n, known, have) /\ DOMAIN n.node = DOMAIN net.node /\ n.inFlight = net.inFlight
          /\ n.node[p] = s4 /\ \A q \in DOMAIN net.node \ {p} : n.node[q] = net.node[q]
      BY Zenon, <1>11, <1>13
    <3> HIDE DEF n
    <3>3. /\ NetOK(n) /\ DOMAIN n.node = Live /\ \A q \in Live \ {p} : n.node[q] = net.node[q]
          /\ n.node[p].best # None /\ n.node[p].nBlocksInFlight < MAX_BLOCKS_IN_TRANSIT_PER_PEER
      BY Zenon, <1>11, <1>12, <2>1, <3>2 DEF NetOK, Live, Sent
    <3>4. NetOK(Fetch(n, p, n.node[p])) /\ SameTotals(n, Fetch(n, p, n.node[p]))
      BY Zenon, <1>2, <3>2, <3>3, FetchFacts
    <3>5. NetIn(net', known, have) /\ SameTotals(n, net')
      BY Zenon, <3>1, <3>2, <3>4 DEF NetOK
    <3>6. QED
      BY Zenon, <1>11, <3>5 DEF n
  <2>2. CASE ~(asks /\ Interesting(s4))
    <3> DEFINE u == IF asks THEN s4 ELSE s3
    <3>1. Sent(s, u, sync)
      BY Zenon, <1>10, <1>11
    <3>2. net' = [net EXCEPT !.node[p] = u]
      BY Zenon, <1>1, <2>2
    <3> HIDE DEF u
    <3>3. NetIn(net', known, have)
      BY Zenon, <1>13, <3>1, <3>2
    <3>4. SameTotals(net', net')
      BY Zenon DEF SameTotals
    <3>5. QED
      BY Zenon, <3>1, <3>2, <3>3, <3>4
  <2>3. QED
    BY Zenon, <2>1, <2>2
<1> DEFINE n == [net EXCEPT !.node[p] = u]
<1>15. /\ DOMAIN n.node = Live /\ n.node[p] = u /\ Surplus(n) = Surplus(net)
       /\ \A q \in Live \ {p} : n.node[q] = net.node[q]
  BY Zenon, <1>13, <1>14 DEF Live
<1>16. SameTotals(n, net')
  BY Zenon, <1>14
<1> HIDE DEF n
<1>17. /\ DOMAIN net'.node = Live /\ Surplus(net') = Surplus(net)
       /\ \A q \in Live \ {p} : /\ net'.node[q].fPreferredDownload = net.node[q].fPreferredDownload
                                /\ net'.node[q].fSyncStarted = net.node[q].fSyncStarted
       /\ net'.node[p].fPreferredDownload = u.fPreferredDownload
       /\ net'.node[p].fSyncStarted = u.fSyncStarted
  BY Zenon, <1>2, <1>15, <1>16 DEF SameTotals
<1>18. u.fPreferredDownload = s.fPreferredDownload /\ (u.fSyncStarted <=> s.fSyncStarted \/ sync)
  BY Zenon, <1>14 DEF Sent
<1>19. {q \in Live : net'.node[q].fPreferredDownload} = {q \in Live : net.node[q].fPreferredDownload}
  BY Zenon, <1>17, <1>18
<1> DEFINE P == {q \in Live : net.node[q].fSyncStarted}
           Q == {q \in Live : net'.node[q].fSyncStarted}
<1>20. nSyncStarted' = Cardinality(Q)
  <2>1. P \in SUBSET Live /\ IsFiniteSet(Live) /\ nSyncStarted = Cardinality(P) /\ (sync => p \notin P)
    BY Zenon, <1>5 DEF Inv, CounterInv
  <2>2. Q = IF sync THEN P \cup {p} ELSE P
    <3>1. CASE sync
      BY Zenon, <1>2, <1>17, <1>18, <3>1
    <3>2. CASE ~sync
      BY Zenon, <1>2, <1>17, <1>18, <3>2
    <3>3. QED
      BY Zenon, <3>1, <3>2
  <2> HIDE DEF P, Q
  <2>3. IsFiniteSet(P)
    BY Zenon, <2>1, FS_Subset
  <2>4. Cardinality(P) \in Nat /\ (p \notin P => Cardinality(P \cup {p}) = Cardinality(P) + 1)
    BY Zenon, <2>3, FS_AddElement, FS_CardinalityType
  <2>5. CASE sync
    BY Zenon, <1>1, <2>1, <2>2, <2>4, <2>5 DEF OneIf
  <2>6. CASE ~sync
    BY <1>1, <2>1, <2>2, <2>4, <2>6 DEF OneIf
  <2>7. QED
    BY Zenon, <2>5, <2>6
<1>21. nPreferredDownload' = Cardinality({q \in Live : net'.node[q].fPreferredDownload})
  BY Zenon, <1>1, <1>19 DEF Inv, CounterInv
<1>22. QED
  <2>1. NetIn(net', known', have')
    BY Zenon, <1>4, <1>14
  <2>2. fresh' = fresh
    BY Zenon, <1>1
  <2>3. nSyncStarted' = Cardinality({q \in Live : net'.node[q].fSyncStarted})
    BY Zenon, <1>20
  <2>4. QED
    BY Zenon, <1>2, <1>4, <1>17, <1>21, <2>1, <2>2, <2>3, NetStep
-----------------------------------------------------------------------------
(* The invariant *)

LEMMA InitInv == Init => Inv
<1> SUFFICES ASSUME Init PROVE Inv
  BY Zenon
<1> DEFINE N == [p \in {} |-> NewNode]
           I == [b \in {} |-> None]
<1>1. net = [node |-> N, inFlight |-> I, queued |-> 0]
  BY Zenon DEF Init
<1>2. net.node = N /\ net.inFlight = I /\ net.queued = 0
  BY Zenon, <1>1
<1>3. DOMAIN N = {} /\ DOMAIN I = {} /\ N \in [{} -> NodeStates] /\ I \in [{} -> Peers]
  BY Zenon
<1> HIDE DEF N, I
<1>4. net \in Nets /\ Live = {}
  <2>1. N \in Maps(Peers, NodeStates) /\ I \in Maps(Blocks, Peers)
    BY Zenon, <1>3 DEF Maps
  <2>2. QED
    BY <1>1, <1>2, <1>3, <2>1 DEF Nets, Live
<1>5. IsFiniteSet({}) /\ Cardinality({}) = 0
  BY Zenon, FS_EmptySet
<1>6. Linked(net)
  BY Zenon, <1>2, <1>3, <1>4, <1>5 DEF Linked, Joined
<1>7. AllValid(net) = {}
  BY Zenon, <1>2, <1>3 DEF AllValid
<1>8. CounterInv
  <2>1. {p \in Live : net.node[p].fPreferredDownload} = {} /\ {p \in Live : net.node[p].fSyncStarted} = {}
    BY Zenon, <1>4
  <2>2. nPreferredDownload = 0 /\ nSyncStarted = 0
    BY Zenon DEF Init
  <2>3. net.queued >= Cardinality(AllValid(net))
    BY <1>2, <1>5, <1>7
  <2>4. QED
    BY Zenon, <1>5, <2>1, <2>2, <2>3 DEF CounterInv
<1>9. IndexInv
  BY Zenon, BlockTreeAssumption DEF IndexInv, Init
<1>10. QED
  BY Zenon, <1>2, <1>3, <1>4, <1>5, <1>6, <1>8, <1>9 DEF Inv, Init

LEMMA NextInv == Inv /\ [Next]_vars => Inv'
<1> SUFFICES ASSUME Inv, [Next]_vars PROVE Inv'
  BY Zenon
<1>1. CASE StartRound
  BY Zenon, <1>1, StartStep
<1>2. CASE Tick
  BY Zenon, <1>2, TickStep
<1>3. ASSUME NEW p \in Peers, InitializeNode(p) PROVE Inv'
  BY Zenon, <1>3, InitializeStep
<1>4. ASSUME NEW p \in Peers, VersionMessage(p) PROVE Inv'
  BY Zenon, <1>4, VersionStep
<1>5. ASSUME NEW p \in Peers, CloseSocketDisconnect(p) PROVE Inv'
  BY Zenon, <1>5, CloseStep
<1>6. ASSUME NEW p \in Peers, FinalizeNode(p) PROVE Inv'
  BY Zenon, <1>6, FinalizeStep
<1>7. ASSUME NEW p \in Peers, NEW b \in Blocks, InvMessage(p, b) PROVE Inv'
  BY Zenon, <1>7, InvStep
<1>8. ASSUME NEW p \in Peers, NEW b \in Blocks, NEW child \in BOOLEAN, HeadersMessage(p, b, child) PROVE Inv'
  BY Zenon, <1>8, HeadersStep
<1>9. ASSUME NEW p \in Peers, NEW b \in Blocks, NEW verdict \in Verdicts(b), BlockMessage(p, b, verdict) PROVE Inv'
  BY Zenon, <1>9, BlockStep
<1>10. ASSUME NEW p \in Peers, SendMessages(p) PROVE Inv'
  BY Zenon, <1>10, SendStep
<1>11. ASSUME NEW p \in Peers, Skip(p) PROVE Inv'
  BY Zenon, <1>11, SkipStep
<1>12. CASE UNCHANGED vars
  <2>1. UNCHANGED <<blockVars, fresh, net, counters, round>>
    BY Zenon, <1>12 DEF vars
  <2>2. todo' \subseteq copied' /\ copied' \subseteq Live
    BY Zenon, <2>1 DEF round, Inv
  <2>3. QED
    BY Zenon, <2>1, <2>2, RoundStep
<1>13. QED
  BY Zenon, <1>1, <1>2, <1>3, <1>4, <1>5, <1>6, <1>7, <1>8, <1>9, <1>10, <1>11, <1>12 DEF Next

\* The inductive invariant holds throughout: mapBlocksInFlight and the lists of
\* requests are the same relation, and the counters of a peer count them.
THEOREM Invariant == Spec => []Inv
  BY InitInv, NextInv, PTL DEF Spec
-----------------------------------------------------------------------------
(* What the runs check *)

\* Sets that a function pairs off have the same size.
LEMMA SameSize ==
    ASSUME NEW S, NEW T, IsFiniteSet(T), NEW f \in [S -> T],
           \A x, y \in S : f[x] = f[y] => x = y, \A t \in T : \E x \in S : f[x] = t
    PROVE  Cardinality(S) = Cardinality(T)
<1>1. f \in Injection(S, T) /\ f \in Surjection(S, T)
  BY Zenon DEF Injection, Surjection, IsInjective
<1>2. QED
  BY Zenon, <1>1, FS_Injection

\* The entries of a list in which no hash is twice, counted.
LEMMA CountEntries ==
    ASSUME NEW q \in Seq(Entries), Distinct(q), IsFiniteSet(Hashes(q))
    PROVE  /\ Len(q) = Cardinality({e.hash : e \in Range(q)})
           /\ Cardinality(ValidHashes(q)) = Cardinality({e \in Range(q) : e.fValidatedHeaders})
<1>1. Len(q) \in Nat /\ DOMAIN q = 1 .. Len(q) /\ ValidHashes(q) \subseteq Hashes(q)
  BY Zenon, ListFacts
<1>2. {e.hash : e \in Range(q)} = Hashes(q)
  BY Zenon DEF Range, Hashes
<1>3. Cardinality(1 .. Len(q)) = Len(q)
  BY <1>1, FS_Interval
<1>4. Cardinality(1 .. Len(q)) = Cardinality(Hashes(q))
  <2> DEFINE f == [i \in 1 .. Len(q) |-> q[i].hash]
             S == 1 .. Len(q)
             T == Hashes(q)
  <2>1. f \in [S -> T] /\ \A x, y \in S : f[x] = f[y] => x = y
    BY Zenon, <1>1 DEF Hashes, Distinct
  <2>2. \A t \in T : \E x \in S : f[x] = t
    BY Zenon, <1>1 DEF Hashes
  <2> HIDE DEF f, S, T
  <2>3. IsFiniteSet(T)
    BY Zenon DEF T
  <2>4. Cardinality(S) = Cardinality(T)
    BY Zenon, <2>1, <2>2, <2>3, SameSize
  <2>5. QED
    BY Zenon, <2>4 DEF S, T
<1>5. Cardinality({e \in Range(q) : e.fValidatedHeaders}) = Cardinality(ValidHashes(q))
  <2> DEFINE S == {e \in Range(q) : e.fValidatedHeaders}
             T == ValidHashes(q)
             f == [e \in S |-> e.hash]
  <2>1. f \in [S -> T]
    BY Zenon DEF Range, ValidHashes
  <2>2. \A x, y \in S : f[x] = f[y] => x = y
    BY Zenon DEF Range, Distinct
  <2>3. \A t \in T : \E x \in S : f[x] = t
    BY Zenon DEF Range, ValidHashes
  <2>4. IsFiniteSet(T)
    BY Zenon, <1>1, FS_Subset
  <2> HIDE DEF f, S, T
  <2>5. Cardinality(S) = Cardinality(T)
    BY Zenon, <2>1, <2>2, <2>3, <2>4, SameSize
  <2>6. QED
    BY Zenon, <2>5 DEF S, T
<1>6. QED
  BY Zenon, <1>2, <1>3, <1>4, <1>5

\* What the invariant says of the list of one peer.
LEMMA OnePeer ==
    ASSUME Inv, NEW p \in Live
    PROVE  /\ net.node[p].vBlocksInFlight \in Seq(Entries) /\ ListOK(net.node[p])
           /\ Hashes(net.node[p].vBlocksInFlight) = {b \in DOMAIN net.inFlight : net.inFlight[b] = p}
           /\ IsFiniteSet(Hashes(net.node[p].vBlocksInFlight))
<1>1. net \in Nets /\ Joined(net)
  BY Zenon DEF Inv, Linked
<1>2. /\ ListOK(net.node[p]) /\ IsFiniteSet(DOMAIN net.inFlight)
      /\ Hashes(net.node[p].vBlocksInFlight) = {b \in DOMAIN net.inFlight : net.inFlight[b] = p}
  BY Zenon, <1>1 DEF Joined, Live
<1>3. net.node[p].vBlocksInFlight \in Seq(Entries)
  BY Zenon, <1>1, NetFacts, StateFacts DEF Live
<1>4. IsFiniteSet({b \in DOMAIN net.inFlight : net.inFlight[b] = p})
  BY Zenon, <1>2, FS_Subset
<1>5. QED
  BY Zenon, <1>2, <1>3, <1>4

LEMMA InvImpliesRequests == Inv => RequestsMatch
<1> SUFFICES ASSUME Inv PROVE RequestsMatch
  BY Zenon
<1>1. net \in Nets /\ Joined(net) /\ IndexInv /\ Live \cap fresh = {} /\ \A p \in Live : NodeOK(net.node[p])
  BY Zenon DEF Inv, Linked
<1>2. TypeOK
  <2>1. ASSUME NEW p \in Live
        PROVE  {net.node[p].best, net.node[p].common} \subseteq known \cup {None} /\ net.node[p].unknown \in Blocks \cup {None}
    BY <1>1, NetFacts, StateFacts DEF NodeOK, NodeIn, Live
  <2>2. Live \subseteq Peers \ fresh
    BY Zenon, <1>1, NetFacts DEF Live
  <2>3. QED
    BY Zenon, <1>1, <2>1, <2>2 DEF TypeOK, IndexInv
<1>3. ASSUME NEW b \in DOMAIN net.inFlight
      PROVE  net.inFlight[b] \in Live /\ b \notin have /\ \E e \in Requests(net.inFlight[b]) : e.hash = b
  <2>1. net.inFlight[b] \in Live /\ b \notin have
    BY Zenon, <1>1 DEF Joined, Live, Inv
  <2>2. b \in Hashes(net.node[net.inFlight[b]].vBlocksInFlight)
    BY Zenon, <2>1, OnePeer
  <2>3. QED
    BY Zenon, <2>1, <2>2 DEF Hashes, Requests, Range
<1>4. ASSUME NEW p \in Live
      PROVE  /\ \A e \in Requests(p) : e.hash \in DOMAIN net.inFlight /\ net.inFlight[e.hash] = p
             /\ net.node[p].nBlocksInFlight = Len(net.node[p].vBlocksInFlight)
             /\ net.node[p].nBlocksInFlight = Cardinality({e.hash : e \in Requests(p)})
             /\ net.node[p].nBlocksInFlight <= MAX_BLOCKS_IN_TRANSIT_PER_PEER
             /\ net.node[p].nValidHeaders = Cardinality(Validated(p))
  <2> DEFINE q == net.node[p].vBlocksInFlight
  <2>1. /\ q \in Seq(Entries) /\ ListOK(net.node[p]) /\ IsFiniteSet(Hashes(q))
        /\ Hashes(q) = {b \in DOMAIN net.inFlight : net.inFlight[b] = p}
    BY Zenon, OnePeer
  <2>2. Distinct(q) /\ net.node[p].nBlocksInFlight = Len(q) /\ net.node[p].nValidHeaders = Cardinality(ValidHashes(q))
    BY Zenon, <2>1 DEF ListOK
  <2>3. \A e \in Requests(p) : e.hash \in Hashes(q)
    BY Zenon DEF Requests, Range, Hashes
  <2>4. Requests(p) = Range(q) /\ Validated(p) = {e \in Range(q) : e.fValidatedHeaders}
    BY Zenon DEF Requests, Validated
  <2>5. net.node[p].nBlocksInFlight <= MAX_BLOCKS_IN_TRANSIT_PER_PEER
    BY Zenon, <1>1 DEF NodeOK, NodeIn
  <2> HIDE DEF q
  <2>6. /\ Len(q) = Cardinality({e.hash : e \in Range(q)})
        /\ Cardinality(ValidHashes(q)) = Cardinality({e \in Range(q) : e.fValidatedHeaders})
    BY Zenon, <2>1, <2>2, CountEntries
  <2>7. \A e \in Requests(p) : e.hash \in DOMAIN net.inFlight /\ net.inFlight[e.hash] = p
    BY Zenon, <2>1, <2>3
  <2>8. QED
    BY Zenon, <2>2, <2>4, <2>5, <2>6, <2>7 DEF q
<1>5. QED
  BY Zenon, <1>2, <1>3, <1>4 DEF RequestsMatch

LEMMA InvImpliesTotals == Inv => TotalsMatch
<1> SUFFICES ASSUME Inv PROVE TotalsMatch
  BY Zenon
<1> DEFINE S == UNION {{<<p, e>> : e \in Validated(p)} : p \in Live}
           T == AllValid(net)
           f == [x \in S |-> x[2].hash]
           List(p) == net.node[p].vBlocksInFlight
<1>1. \A p \in Live : /\ Validated(p) = {e \in Range(List(p)) : e.fValidatedHeaders}
                      /\ \A e \in Validated(p) : e.hash \in ValidHashes(List(p))
  BY Zenon DEF Validated, Requests, Range, ValidHashes
<1>2. \A p \in Live : \A e \in Validated(p) : e.hash \in DOMAIN net.inFlight /\ net.inFlight[e.hash] = p
  BY Zenon, InvImpliesRequests DEF RequestsMatch, Validated
<1>3. \A p \in Live : \A d, e \in Validated(p) : d.hash = e.hash => d = e
  <2> SUFFICES ASSUME NEW p \in Live, NEW d \in Validated(p), NEW e \in Validated(p), d.hash = e.hash PROVE d = e
    BY Zenon
  <2>1. Distinct(List(p))
    BY Zenon, OnePeer DEF ListOK
  <2>2. d \in Range(List(p)) /\ e \in Range(List(p))
    BY Zenon DEF Validated, Requests
  <2>3. QED
    BY Zenon, <2>1, <2>2 DEF Range, Distinct
<1>4. \A p \in Live : \A b \in ValidHashes(List(p)) : \E e \in Validated(p) : e.hash = b
  BY Zenon DEF ValidHashes, Validated, Requests, Range
<1>5. f \in [S -> T]
  <2>1. ASSUME NEW x \in S PROVE f[x] \in T
    <3>1. PICK p \in Live : \E e \in Validated(p) : x = <<p, e>>
      BY Zenon
    <3>2. PICK e \in Validated(p) : x = <<p, e>>
      BY Zenon, <3>1
    <3>3. f[x] = e.hash /\ e.hash \in ValidHashes(List(p))
      BY Zenon, <1>1, <3>2
    <3>4. QED
      BY Zenon, <3>3 DEF AllValid, Live
  <2>2. QED
    BY Zenon, <2>1
<1>6. \A x, y \in S : f[x] = f[y] => x = y
  <2> SUFFICES ASSUME NEW x \in S, NEW y \in S, f[x] = f[y] PROVE x = y
    BY Zenon
  <2>1. PICK p \in Live : \E e \in Validated(p) : x = <<p, e>>
    BY Zenon
  <2>2. PICK d \in Validated(p) : x = <<p, d>>
    BY Zenon, <2>1
  <2>3. PICK r \in Live : \E e \in Validated(r) : y = <<r, e>>
    BY Zenon
  <2>4. PICK e \in Validated(r) : y = <<r, e>>
    BY Zenon, <2>3
  <2>5. d.hash = e.hash
    BY Zenon, <2>2, <2>4
  <2>6. p = r
    BY <1>2, <2>5
  <2>7. QED
    BY Zenon, <1>3, <2>2, <2>4, <2>5, <2>6
<1>7. \A t \in T : \E x \in S : f[x] = t
  <2> SUFFICES ASSUME NEW t \in T PROVE \E x \in S : f[x] = t
    BY Zenon
  <2>1. PICK p \in Live : t \in ValidHashes(List(p))
    BY Zenon DEF AllValid, Live
  <2>2. PICK e \in Validated(p) : e.hash = t
    BY Zenon, <1>4, <2>1
  <2>3. <<p, e>> \in S
    BY <2>2
  <2>4. f[<<p, e>>] = t
    BY Zenon, <2>2, <2>3
  <2>5. QED
    BY Zenon, <2>3, <2>4
<1>8. IsFiniteSet(T)
  BY Zenon, AllValidFacts DEF Inv
<1>9. Cardinality(S) = Cardinality(T)
  <2> HIDE DEF S, T, f
  <2>1. QED
    BY Zenon, <1>5, <1>6, <1>7, <1>8, SameSize
<1>10. QED
  BY Zenon, <1>9 DEF TotalsMatch, InFlightValidated, Inv, CounterInv

LEMMA InvImpliesStallers == Inv => StallersOweBlocks
<1> SUFFICES ASSUME Inv, NEW p \in Live, net.node[p].stalling # None PROVE Requests(p) # {}
  BY Zenon DEF StallersOweBlocks
<1> DEFINE q == net.node[p].vBlocksInFlight
<1>1. q # <<>> /\ q \in Seq(Entries)
  BY Zenon, OnePeer DEF Inv, NodeOK, NodeIn
<1>2. Len(q) \in Nat /\ DOMAIN q = 1 .. Len(q) /\ Len(q) # 0
  BY <1>1
<1>3. q[1] \in Range(q)
  BY <1>2 DEF Range
<1>4. QED
  BY Zenon, <1>3 DEF Requests

\* mapBlocksInFlight and the lists of requests agree whoever delivers a block,
\* is asked again or disconnects: MarkBlockAsReceived never follows an iterator
\* to an element that is gone, nBlocksInFlight and nBlocksInFlightValidHeaders
\* count the list, and no peer is asked for more than the limit.
THEOREM RequestsAgree == Spec => []RequestsMatch
  BY Invariant, InvImpliesRequests, PTL

\* nPreferredDownload and nSyncStarted count the connected peers they stand for,
\* and nQueuedValidatedHeaders is no less than the validated requests in flight.
THEOREM TotalsAgree == Spec => []TotalsMatch
  BY Invariant, InvImpliesTotals, PTL

\* nStallingSince is set only for a peer that has blocks to deliver.
THEOREM StallersOwe == Spec => []StallersOweBlocks
  BY Invariant, InvImpliesStallers, PTL
=============================================================================
