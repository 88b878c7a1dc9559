--------------------------- MODULE ChainFlushProofs ---------------------------
(***************************************************************************)
(* Theorems about ChainFlush, for every block tree, any size and number of *)
(* block files and any limits that satisfy FlushAssumption: whenever the   *)
(* process dies the databases fit each other and the files, and pruning    *)
(* leaves what a reorganisation from the highest tip reads.                *)
(***************************************************************************)
EXTENDS ChainFlush, DataFacts

-----------------------------------------------------------------------------
(* The inductive invariant. *)

TypeInv ==
    /\ Known \subseteq Blocks /\ mapBlockIndex \in [Known -> Entry] /\ IsFiniteSet(Known)
    /\ DOMAIN diskIndex.blocks \subseteq Blocks
    /\ diskIndex.blocks \in [DOMAIN diskIndex.blocks -> Entry] /\ diskIndex.last \in Files
    /\ nLastBlockFile \in Files /\ fCheckForPruning \in BOOLEAN
    /\ phase \in {"idle", "begin", "files", "index", "unlink", "coins", "return",
                  "failed", "lost"}
    /\ call \in [mode : {"NONE", "IF_NEEDED", "PERIODIC", "ALWAYS"},
                 full : BOOLEAN, prune : SUBSET Files]
    /\ highest \in Nat /\ unsynced \subseteq stored

(* The index in memory and on disk: the same but for the dirty entries, and  *)
(* closed under pprev.                                                      *)
Closed(S) == Genesis \in S /\ \A b \in S \ {Genesis} : Parent[b] \in S
IndexInv ==
    /\ dirty \subseteq Known /\ DOMAIN diskIndex.blocks \subseteq Known
    /\ Known \subseteq DOMAIN diskIndex.blocks \cup dirty
    /\ \A b \in Known \ dirty : diskIndex.blocks[b] = mapBlockIndex[b]
    /\ phase \in {"unlink", "coins"} => dirty = {}
    /\ Closed(Known) /\ Closed(DOMAIN diskIndex.blocks)
    /\ {tip, coinsTip} \subseteq Known /\ diskCoins \in DOMAIN diskIndex.blocks
    /\ goal \in Known \cup {NoBlock}

(* Undo data is there only with block data; what the indexes claim is in the *)
(* files, the files to be removed are not claimed, and block data that is    *)
(* not committed is in the last file and not claimed on disk.               *)
DataInv ==
    /\ \A b \in Known : "undo" \in mapBlockIndex[b].have => "data" \in mapBlockIndex[b].have
    /\ \A b \in DOMAIN diskIndex.blocks :
         "undo" \in diskIndex.blocks[b].have => "data" \in diskIndex.blocks[b].have
    /\ Claims(mapBlockIndex) \subseteq stored /\ Claims(diskIndex.blocks) \subseteq stored
    /\ phase \in {"files", "index", "unlink"} =>
         \A d \in Claims(mapBlockIndex) : d.file \notin call.prune
    /\ phase \notin {"files", "index"} => Claims(diskIndex.blocks) \subseteq Claims(mapBlockIndex)
    /\ \A d \in unsynced : d.kind = "data" =>
         /\ d.file = nLastBlockFile /\ phase # "index"
         /\ d \notin Claims(diskIndex.blocks)

(* No block file holds more than fits, by either index.                     *)
Holding(index, f) == {b \in DOMAIN index : "data" \in index[b].have /\ index[b].nFile = f}
SizeInv ==
    \A f \in Files : /\ Cardinality(Holding(mapBlockIndex, f)) <= BlocksPerFile
                     /\ Cardinality(Holding(diskIndex.blocks, f)) <= BlocksPerFile

(* A block close below the greatest height of the tip.                      *)
Recent(b) == Height(b) > highest - MIN_BLOCKS_TO_KEEP
Complete(index, b) == {"data", "undo"} \subseteq index[b].have

(* Recent blocks of the chains in memory and on disk are complete.  A step  *)
(* towards a goal above all earlier tips moves among recent blocks that     *)
(* have their data.                                                         *)
ReorgInv ==
    /\ phase \in {"idle", "failed"} => coinsTip = tip
    /\ Height(tip) <= highest
    /\ \A b \in (Chain(coinsTip) \cup Chain(diskCoins)) \ {Genesis} :
         Recent(b) => Complete(mapBlockIndex, b)
    /\ \A b \in Chain(diskCoins) \ {Genesis} : Recent(b) => Complete(diskIndex.blocks, b)
    /\ goal # NoBlock =>
         /\ Height(goal) <= highest + 1
         /\ Height(coinsTip) < Height(goal) \/ coinsTip = goal
         /\ Height(goal) > highest =>
              /\ \A b \in Chain(goal) \ Chain(coinsTip) :
                   Recent(b) /\ "data" \in mapBlockIndex[b].have
              /\ \A b \in Chain(coinsTip) \ Chain(goal) : Recent(b)
    /\ phase = "failed" => goal # NoBlock /\ Height(goal) <= highest

Inv == TypeInv /\ IndexInv /\ DataInv /\ SizeInv /\ ReorgInv /\ phase # "lost"

-----------------------------------------------------------------------------
(* Chains, heights and claims. *)

\* The blocks with their pprev links are a tree, and Chain is the chain in it.
LEMMA BlocksAreATree ==
    /\ Tree(Blocks, Genesis, Parent) /\ Chained(Chains, Blocks, Genesis, Parent)
<1>1. Tree(Blocks, Genesis, Parent)
  BY BlockTreeAssumption DEF Tree
<1>2. Chains = ChainsOf(Blocks, Genesis, Parent)
  BY DEF Chains, ChainsOf
<1>3. QED
  BY <1>1, <1>2, ChainsExist

\* A chain is its last block and the chain to its pprev, which it is not in.
LEMMA ChainFacts ==
    /\ Genesis \in Blocks /\ Chain(Genesis) = {Genesis}
    /\ \A b \in Blocks \ {Genesis} :
         Chain(b) = {b} \cup Chain(Parent[b]) /\ Parent[b] \in Blocks /\ b \notin Chain(Parent[b])
    /\ \A b \in Blocks : Chain(b) \subseteq Blocks /\ b \in Chain(b) /\ Genesis \in Chain(b)
  BY BlocksAreATree, BlockTreeAssumption, ChainEndPoints DEF Chain, Chained

\* nHeight counts the links down to the genesis block: an ancestor is lower, and
\* the lower of two blocks of a chain is an ancestor of the higher one.
LEMMA HeightFacts ==
    /\ \A b \in Blocks : Height(b) \in Nat
    /\ Height(Genesis) = 0
    /\ \A b \in Blocks \ {Genesis} : Height(b) = Height(Parent[b]) + 1
    /\ \A b \in Blocks : \A a \in Chain(b) : Chain(a) \subseteq Chain(b)
    /\ \A b \in Blocks : \A a \in Chain(b) \ {b} : Height(a) < Height(b)
    /\ \A b \in Blocks : \A a, c \in Chain(b) : Height(a) <= Height(c) => a \in Chain(c)
<1> DEFINE len(b) == Cardinality(Chains[b])
<1>1. \A b \in Blocks : Height(b) = len(b) - 1
  BY DEF Height, Heights
<1>2. /\ \A b \in Blocks : len(b) \in Nat \ {0}
      /\ len(Genesis) = 1
      /\ \A b \in Blocks \ {Genesis} : len(b) = len(Parent[b]) + 1
      /\ \A b \in Blocks : \A a \in Chains[b] : Chains[a] \subseteq Chains[b]
      /\ \A b \in Blocks : \A a \in Chains[b] \ {b} : len(a) < len(b)
      /\ \A b \in Blocks : \A a, c \in Chains[b] : len(a) <= len(c) => a \in Chains[c]
  BY BlocksAreATree, ChainLengths
<1> HIDE DEF len
<1>3. \A b \in Blocks : Chains[b] \subseteq Blocks
  BY ChainFacts DEF Chain
<1>4. \A b \in Blocks : Height(b) \in Nat
  BY <1>1, <1>2
<1>5. Height(Genesis) = 0 /\ \A b \in Blocks \ {Genesis} : Height(b) = Height(Parent[b]) + 1
  BY <1>1, <1>2, ChainFacts
<1>6. \A b \in Blocks : \A a \in Chains[b] \ {b} : Height(a) < Height(b)
  BY <1>1, <1>2, <1>3
<1>7. \A b \in Blocks : \A a, c \in Chains[b] : Height(a) <= Height(c) => a \in Chains[c]
  <2>1. ASSUME NEW b \in Blocks, NEW a \in Chains[b], NEW c \in Chains[b], Height(a) <= Height(c)
        PROVE  len(a) <= len(c)
    BY <1>1, <1>2, <1>3, <2>1
  <2>2. QED
    BY <1>2, <2>1
<1>8. QED
  BY <1>2, <1>4, <1>5, <1>6, <1>7 DEF Chain

\* The chains of the blocks of an index that is closed under pprev are in it.
LEMMA ClosedChains ==
    ASSUME NEW K, K \subseteq Blocks, Closed(K)
    PROVE  \A b \in K : Chain(b) \subseteq K
  BY BlocksAreATree, ChainsStayInside DEF Closed, Chain

\* FindFork: the common block of greatest height is one of both chains.
LEMMA ForkFacts ==
    ASSUME NEW b \in Blocks, NEW t \in Blocks
    PROVE  Fork(b, t) \in Chain(b) \cap Chain(t)
<1> DEFINE C == Chain(b) \cap Chain(t)
           h == [c \in Blocks |-> Height(b) - Height(c)]
<1>1. C \subseteq Blocks /\ C # {}
  BY ChainFacts
<1>2. ASSUME NEW c \in C PROVE Height(c) \in Nat /\ Height(b) \in Nat /\ h[c] \in Nat /\ h[c] = Height(b) - Height(c)
  <2>1. Height(c) \in Nat /\ Height(b) \in Nat /\ Height(c) <= Height(b)
    BY <1>1, HeightFacts
  <2>2. QED
    BY <1>1, <2>1
<1>3. PICK f \in C : \A c \in C : h[f] <= h[c]
  <2> HIDE DEF h, C
  <2>1. QED
    BY <1>1, <1>2, LeastElement
<1>4. \A c \in C : Height(c) <= Height(f)
  <2> HIDE DEF h, C
  <2>1. QED
    BY <1>2, <1>3
<1>5. QED
  BY <1>4 DEF Fork

(* What it is to be one of the claims of an index.                          *)
Claimed(index, d) ==
    /\ d = [kind |-> d.kind, block |-> d.block, file |-> d.file]
    /\ d.block \in DOMAIN index /\ d.kind \in index[d.block].have
    /\ d.file = index[d.block].nFile

\* An index claims for each block, in its nFile, what its flags say.
LEMMA ClaimsFacts ==
    ASSUME NEW index
    PROVE  /\ \A d : d \in Claims(index) <=> Claimed(index, d)
           /\ \A b \in DOMAIN index : \A k \in index[b].have :
                [kind |-> k, block |-> b, file |-> index[b].nFile] \in Claims(index)
<1>1. ASSUME NEW d \in Claims(index) PROVE Claimed(index, d)
  <2>1. PICK b \in DOMAIN index : \E k \in index[b].have :
           d = [kind |-> k, block |-> b, file |-> index[b].nFile]
    BY DEF Claims
  <2>. PICK k \in index[b].have : d = [kind |-> k, block |-> b, file |-> index[b].nFile]
    BY <2>1
  <2>2. d.kind = k /\ d.block = b /\ d.file = index[b].nFile
    BY <2>1
  <2>3. QED
    BY <2>1, <2>2 DEF Claimed
<1>2. ASSUME NEW b \in DOMAIN index, NEW k \in index[b].have
      PROVE  [kind |-> k, block |-> b, file |-> index[b].nFile] \in Claims(index)
  BY DEF Claims
<1>3. ASSUME NEW d, Claimed(index, d) PROVE d \in Claims(index)
  BY <1>2, <1>3 DEF Claimed
<1>4. QED
  BY <1>1, <1>2, <1>3

\* An index that says no more of fewer blocks claims no more.
LEMMA FewerClaims ==
    ASSUME NEW index, NEW other, DOMAIN index \subseteq DOMAIN other,
           \A b \in DOMAIN index : \A k \in index[b].have :
               k \in other[b].have /\ index[b].nFile = other[b].nFile
    PROVE  Claims(index) \subseteq Claims(other)
  BY ClaimsFacts DEF Claimed

\* The greater of two heights.
LEMMA MaxFacts ==
    ASSUME NEW a \in Nat, NEW b \in Nat
    PROVE  Max({a, b}) \in Nat /\ a <= Max({a, b}) /\ b <= Max({a, b}) /\ Max({a, b}) \in {a, b}
  BY DEF Max

-----------------------------------------------------------------------------
(* The invariant holds initially and every action keeps it. *)

\* A block file that only the genesis block is in.
LEMMA InitInv == Init => Inv
<1> SUFFICES ASSUME Init PROVE Inv
  OBVIOUS
<1> DEFINE index == [b \in {Genesis} |-> [have |-> {"data"}, nFile |-> 0]]
<1>1. /\ mapBlockIndex = index /\ diskIndex.blocks = index /\ diskIndex.last = 0
      /\ DOMAIN index = {Genesis} /\ index[Genesis].have = {"data"} /\ index[Genesis].nFile = 0
      /\ index \in [{Genesis} -> Entry]
  BY FlushAssumption DEF Init, Entry
<1>2. stored = Claims(index) /\ unsynced = {}
  BY DEF Init
<1> HIDE DEF index
<1>3. TypeInv
  <2>1. call \in [mode : {"NONE", "IF_NEEDED", "PERIODIC", "ALWAYS"}, full : BOOLEAN,
                  prune : SUBSET Files]
    BY DEF Init, NoCall
  <2>2. IsFiniteSet({Genesis})
    BY FS_Singleton
  <2>3. QED
    BY <1>1, <1>2, <2>1, <2>2, ChainFacts, FlushAssumption DEF Init, TypeInv, Known
<1>4. IndexInv
  BY <1>1 DEF Init, IndexInv, Known, Closed
<1>5. DataInv
  BY <1>1, <1>2 DEF Init, DataInv, Known
<1>6. SizeInv
  <2>1. ASSUME NEW f \in Files PROVE Cardinality(Holding(index, f)) <= BlocksPerFile
    <3>1. Holding(index, f) \subseteq {Genesis}
      BY <1>1 DEF Holding
    <3>2. IsFiniteSet({Genesis}) /\ Cardinality({Genesis}) = 1
      BY FS_Singleton
    <3>3. /\ Cardinality(Holding(index, f)) <= 1 /\ Cardinality(Holding(index, f)) \in Nat
      BY <3>1, <3>2, FS_Subset, FS_CardinalityType
    <3>4. QED
      BY <3>3, FlushAssumption
  <2>2. QED
    BY <1>1, <2>1 DEF SizeInv
<1>7. ReorgInv
  BY ChainFacts, HeightFacts DEF Init, ReorgInv
<1>8. QED
  BY <1>3, <1>4, <1>5, <1>6, <1>7 DEF Inv, Init

\* A header adds an entry without data, to be written.
LEMMA HeaderStep ==
    ASSUME Inv, NEW b \in Blocks \ {Genesis}, AcceptBlockHeader(b) PROVE Inv'
<1> DEFINE entry == [have |-> {}, nFile |-> 0]
<1>1. /\ phase = "idle" /\ goal = NoBlock /\ b \notin Known /\ Parent[b] \in Known
      /\ mapBlockIndex' = [c \in Known \cup {b} |-> IF c = b THEN entry ELSE mapBlockIndex[c]]
      /\ dirty' = dirty \cup {b}
      /\ UNCHANGED <<nLastBlockFile, fCheckForPruning, tip, highest, coinsTip, goal, phase, call,
                     stored, unsynced, diskIndex, diskCoins>>
  BY DEF AcceptBlockHeader, Idle
<1>2. entry \in Entry /\ entry.have = {}
  BY FlushAssumption DEF Entry
<1> HIDE DEF entry
<1>3. Known' = Known \cup {b} /\ mapBlockIndex'[b] = entry
  BY <1>1 DEF Known
<1>4. \A c \in Known : mapBlockIndex'[c] = mapBlockIndex[c]
  BY <1>1
<1>5. DOMAIN mapBlockIndex = Known /\ DOMAIN mapBlockIndex' = Known \cup {b}
  BY <1>3 DEF Known
<1>6. TypeInv'
  <2>1. IsFiniteSet(Known \cup {b}) /\ Known \cup {b} \subseteq Blocks
    BY FS_AddElement DEF Inv, TypeInv
  <2>2. mapBlockIndex' \in [Known \cup {b} -> Entry]
    BY <1>1, <1>2 DEF Inv, TypeInv
  <2>3. QED
    BY <1>1, <1>3, <2>1, <2>2 DEF Inv, TypeInv
<1>7. IndexInv'
  BY <1>1, <1>3, <1>4 DEF Inv, IndexInv, Closed
<1>8. Claims(mapBlockIndex') = Claims(mapBlockIndex)
  <2>1. Claims(mapBlockIndex) \subseteq Claims(mapBlockIndex')
    BY <1>4, <1>5, FewerClaims
  <2>2. ASSUME NEW d \in Claims(mapBlockIndex') PROVE d \in Claims(mapBlockIndex)
    <3>1. Claimed(mapBlockIndex', d)
      BY ClaimsFacts
    <3>2. d.block # b /\ d.block \in Known
      BY <1>2, <1>3, <1>5, <3>1 DEF Claimed
    <3>3. Claimed(mapBlockIndex, d)
      BY <1>4, <1>5, <3>1, <3>2 DEF Claimed
    <3>4. QED
      BY <3>3, ClaimsFacts
  <2>3. QED
    BY <2>1, <2>2
<1>9. DataInv'
  BY <1>1, <1>2, <1>3, <1>4, <1>8 DEF Inv, DataInv
<1>10. SizeInv'
  <2>1. \A f : Holding(mapBlockIndex', f) = Holding(mapBlockIndex, f)
    BY <1>2, <1>3, <1>4, <1>5 DEF Holding
  <2>2. QED
    BY <1>1, <2>1 DEF Inv, SizeInv
<1>11. ReorgInv'
  <2>1. Chain(coinsTip) \cup Chain(diskCoins) \subseteq Known
    BY ClosedChains DEF Inv, IndexInv, TypeInv
  <2>2. QED
    BY <1>1, <1>4, <2>1 DEF Inv, ReorgInv, Recent, Complete
<1>12. QED
  BY <1>1, <1>6, <1>7, <1>9, <1>10, <1>11 DEF Inv

\* A block that is stored had no data in either index, and goes to a file with
\* room; the file that is left is committed.
LEMMA BlockStep ==
    ASSUME Inv, NEW b \in Blocks \ {Genesis}, AcceptBlock(b) PROVE Inv'
<1>1. PICK f \in Files :
        /\ FindBlockPos(f)
        /\ stored' = stored \cup {[kind |-> "data", block |-> b, file |-> f]}
        /\ unsynced' = (IF f # nLastBlockFile THEN FlushBlockFile(unsynced) ELSE unsynced)
                          \cup {[kind |-> "data", block |-> b, file |-> f]}
        /\ mapBlockIndex' = [mapBlockIndex EXCEPT ![b] = [have |-> {"data"}, nFile |-> f]]
  BY DEF AcceptBlock
<1> DEFINE d == [kind |-> "data", block |-> b, file |-> f]
           entry == [have |-> {"data"}, nFile |-> f]
<1>2. /\ phase = "idle" /\ goal = NoBlock /\ b \in Known /\ "data" \notin mapBlockIndex[b].have
      /\ dirty' = dirty \cup {b} /\ fCheckForPruning' \in {fCheckForPruning, TRUE}
      /\ IF fCheckForPruning' THEN phase' = "begin" /\ call' = [NoCall EXCEPT !.mode = "NONE"]
                              ELSE phase' = phase /\ call' = call
      /\ UNCHANGED <<tip, highest, coinsTip, goal, diskIndex, diskCoins>>
  BY DEF AcceptBlock, Idle, Flush
<1>3. /\ nLastBlockFile' = f /\ nSize(f) < BlocksPerFile
  BY <1>1 DEF FindBlockPos
<1>4. /\ entry \in Entry /\ entry.have = {"data"} /\ entry.nFile = f
      /\ d.kind = "data" /\ d.block = b /\ d.file = f
  BY DEF Entry
<1>5. /\ stored' = stored \cup {d} /\ d \in unsynced'
      /\ \A e \in unsynced' \ {d} : e \in unsynced /\ (f # nLastBlockFile => e.file # nLastBlockFile)
      /\ unsynced' \subseteq unsynced \cup {d}
  BY <1>1 DEF FlushBlockFile
<1>6. /\ Known' = Known /\ mapBlockIndex'[b] = entry
      /\ \A c \in Known \ {b} : mapBlockIndex'[c] = mapBlockIndex[c]
      /\ mapBlockIndex' \in [Known -> Entry] /\ DOMAIN mapBlockIndex' = Known
      /\ DOMAIN mapBlockIndex = Known
  BY <1>1, <1>2, <1>4 DEF Known, Inv, TypeInv
<1> HIDE DEF d, entry
<1>7. mapBlockIndex[b].have = {}
  <2>1. mapBlockIndex[b].have \subseteq {"data", "undo"}
    BY <1>2 DEF Inv, TypeInv, Entry
  <2>2. QED
    BY <1>2, <2>1 DEF Inv, DataInv
<1>8. TypeInv'
  <2>1. call' \in [mode : {"NONE", "IF_NEEDED", "PERIODIC", "ALWAYS"}, full : BOOLEAN,
                   prune : SUBSET Files]
    BY <1>2 DEF NoCall, Inv, TypeInv
  <2>2. phase' \in {"idle", "begin"} /\ fCheckForPruning' \in BOOLEAN
    BY <1>2 DEF Inv, TypeInv
  <2>3. unsynced' \subseteq stored'
    BY <1>5 DEF Inv, TypeInv
  <2>4. QED
    BY <1>2, <1>3, <1>6, <2>1, <2>2, <2>3 DEF Inv, TypeInv
<1>9. phase' \in {"idle", "begin"}
  BY <1>2
<1>10. IndexInv'
  BY <1>2, <1>6, <1>9 DEF Inv, IndexInv, Closed
<1>11. /\ Claims(mapBlockIndex) \subseteq Claims(mapBlockIndex')
       /\ Claims(mapBlockIndex') \subseteq Claims(mapBlockIndex) \cup {d}
  <2>1. Claims(mapBlockIndex) \subseteq Claims(mapBlockIndex')
    BY <1>6, <1>7, FewerClaims
  <2>2. ASSUME NEW e \in Claims(mapBlockIndex'), e # d PROVE e \in Claims(mapBlockIndex)
    <3>1. Claimed(mapBlockIndex', e)
      BY ClaimsFacts
    <3>2. e.block # b /\ e.block \in Known
      BY <1>4, <1>6, <2>2, <3>1 DEF Claimed, d
    <3>3. Claimed(mapBlockIndex, e)
      BY <1>6, <3>1, <3>2 DEF Claimed
    <3>4. QED
      BY <3>3, ClaimsFacts
  <2>3. QED
    BY <2>1, <2>2
<1>12. d \notin Claims(diskIndex.blocks)
  <2>1. d \notin Claims(mapBlockIndex)
    BY <1>4, <1>7, ClaimsFacts DEF Claimed
  <2>2. QED
    BY <1>2, <2>1 DEF Inv, DataInv
<1>13. DataInv'
  <2>1. \A c \in Known' : "undo" \in mapBlockIndex'[c].have => "data" \in mapBlockIndex'[c].have
    BY <1>4, <1>6 DEF Inv, DataInv
  <2>2. ASSUME NEW e \in unsynced', e.kind = "data"
        PROVE  e.file = nLastBlockFile' /\ e \notin Claims(diskIndex.blocks)
    <3>1. CASE e = d
      BY <1>3, <1>4, <1>12, <3>1
    <3>2. CASE e # d
      BY <1>3, <1>5, <2>2, <3>2 DEF Inv, DataInv
    <3>3. QED
      BY <3>1, <3>2
  <2>3. QED
    BY <1>2, <1>5, <1>9, <1>11, <2>1, <2>2 DEF Inv, DataInv
<1>14. SizeInv'
  <2>1. ASSUME NEW g \in Files PROVE Cardinality(Holding(mapBlockIndex', g)) <= BlocksPerFile
    <3>1. CASE g = f
      <4>1. Holding(mapBlockIndex', g) = InFile(f) \cup {b} /\ b \notin InFile(f)
        BY <1>2, <1>4, <1>6, <3>1 DEF Holding, InFile
      <4>2. IsFiniteSet(InFile(f))
        BY FS_Subset DEF InFile, Inv, TypeInv
      <4>3. /\ Cardinality(InFile(f) \cup {b}) = Cardinality(InFile(f)) + 1
            /\ Cardinality(InFile(f)) \in Nat
        BY <4>1, <4>2, FS_AddElement, FS_CardinalityType
      <4>4. Cardinality(InFile(f)) < BlocksPerFile
        BY <1>3 DEF nSize
      <4>5. QED
        BY <4>1, <4>3, <4>4, FlushAssumption
    <3>2. CASE g # f
      <4>1. Holding(mapBlockIndex', g) = Holding(mapBlockIndex, g)
        BY <1>2, <1>4, <1>6, <3>2 DEF Holding
      <4>2. QED
        BY <4>1 DEF Inv, SizeInv
    <3>3. QED
      BY <3>1, <3>2
  <2>2. QED
    BY <1>2, <2>1 DEF Inv, SizeInv
<1>15. ReorgInv'
  <2>1. Chain(coinsTip) \cup Chain(diskCoins) \subseteq Known
    BY ClosedChains DEF Inv, IndexInv, TypeInv
  <2>2. \A c \in Known : Complete(mapBlockIndex, c) => Complete(mapBlockIndex', c)
    BY <1>2, <1>6 DEF Complete
  <2>3. QED
    BY <1>2, <1>9, <2>1, <2>2 DEF Inv, ReorgInv, Recent
<1>16. QED
  BY <1>8, <1>9, <1>10, <1>13, <1>14, <1>15 DEF Inv

\* A step begins above the tip on a branch that leaves the active chain at most
\* MAX_REORG_LENGTH blocks below it: among recent blocks, if the tip is the
\* highest there has been.
LEMMA BeginStepStep == ASSUME Inv, BeginStep PROVE Inv'
<1>1. /\ phase = "idle" /\ goal = NoBlock
      /\ UNCHANGED <<mapBlockIndex, dirty, nLastBlockFile, fCheckForPruning, tip, highest, coinsTip,
                     phase, call, stored, unsynced, diskIndex, diskCoins>>
  BY DEF BeginStep, Idle
<1>2. PICK most \in Known :
        /\ Connectable(most) /\ Height(tip) - Height(Fork(tip, most)) <= MAX_REORG_LENGTH
        /\ goal' \in Chain(most) /\ Height(goal') = Height(tip) + 1
  BY DEF BeginStep
<1> DEFINE fork == Fork(tip, most)
           g == goal'
<1>3. Known \subseteq Blocks /\ tip \in Blocks /\ most \in Blocks /\ coinsTip = tip
  BY <1>1 DEF Inv, TypeInv, IndexInv, ReorgInv
<1>4. fork \in Chain(tip) /\ fork \in Chain(most) /\ fork \in Blocks
  BY <1>3, ForkFacts, ChainFacts
<1>5. g \in Known /\ g \in Blocks /\ Chain(g) \subseteq Chain(most) /\ g # NoBlock
  <2>1. Chain(most) \subseteq Known
    BY <1>3, ClosedChains DEF Inv, IndexInv, TypeInv
  <2>2. QED
    BY <1>2, <1>3, <2>1, HeightFacts, FlushAssumption
<1>6. /\ Height(tip) \in Nat /\ Height(fork) \in Nat /\ highest \in Nat /\ Height(tip) <= highest
      /\ MAX_REORG_LENGTH \in Nat /\ MIN_BLOCKS_TO_KEEP \in Nat
      /\ MAX_REORG_LENGTH < MIN_BLOCKS_TO_KEEP
      /\ \A c \in Blocks : Height(c) \in Nat
  BY <1>3, <1>4, HeightFacts, FlushAssumption DEF Inv, TypeInv, ReorgInv
<1> HIDE DEF fork, g
<1>7. ASSUME NEW c \in Chain(g) \ Chain(tip)
      PROVE  Height(c) > Height(fork) /\ "data" \in mapBlockIndex[c].have
  <2>1. c \in Chain(most) /\ c \in Blocks
    BY <1>3, <1>5, ChainFacts
  <2>2. c \notin Chain(fork)
    BY <1>3, <1>4, <1>7, HeightFacts
  <2>3. ~(Height(c) <= Height(fork))
    BY <1>3, <1>4, <2>1, <2>2, HeightFacts
  <2>4. "data" \in mapBlockIndex[c].have
    BY <1>2, <1>7, <2>1 DEF Connectable
  <2>5. QED
    BY <1>6, <2>1, <2>3, <2>4
<1>8. ASSUME NEW c \in Chain(tip) \ Chain(g)
      PROVE  Height(c) > Height(fork)
  <2>1. c \in Blocks /\ Height(c) <= Height(tip)
    BY <1>3, <1>6, <1>8, ChainFacts, HeightFacts
  <2>2. SUFFICES ASSUME Height(c) <= Height(fork) PROVE FALSE
    BY <1>6, <2>1
  <2>3. c \in Chain(fork)
    BY <1>3, <1>4, <1>8, <2>2, HeightFacts
  <2>4. c \in Chain(most)
    BY <1>3, <1>4, <2>3, HeightFacts
  <2>5. g \in Chain(most) /\ Height(c) <= Height(g)
    BY <1>2, <1>6, <2>1 DEF g
  <2>6. QED
    BY <1>3, <1>8, <2>4, <2>5, HeightFacts
<1>9. ReorgInv'
  <2>1. Height(g) = Height(tip) + 1
    BY <1>2 DEF g
  <2>2. Height(g) <= highest + 1 /\ Height(coinsTip) < Height(g)
    BY <1>3, <1>6, <2>1
  <2>3. ASSUME Height(g) > highest, NEW c \in Blocks, Height(c) > Height(fork)
        PROVE  Recent(c)
    <3>1. Height(tip) = highest
      BY <1>6, <2>1, <2>3
    <3>2. Height(tip) - Height(fork) <= MAX_REORG_LENGTH /\ Height(c) \in Nat
      BY <1>2, <1>6 DEF fork
    <3>3. QED
      BY <1>6, <2>3, <3>1, <3>2 DEF Recent
  <2>4. Chain(g) \subseteq Blocks /\ Chain(tip) \subseteq Blocks
    BY <1>3, <1>5, ChainFacts
  <2>5. Height(g) > highest =>
          /\ \A c \in Chain(g) \ Chain(coinsTip) : Recent(c) /\ "data" \in mapBlockIndex[c].have
          /\ \A c \in Chain(coinsTip) \ Chain(g) : Recent(c)
    BY <1>3, <1>7, <1>8, <2>3, <2>4
  <2>6. QED
    BY <1>1, <2>2, <2>5 DEF Inv, ReorgInv, Recent, Complete, g
<1>10. TypeInv' /\ SizeInv' /\ DataInv'
  BY <1>1 DEF Inv, TypeInv, SizeInv, DataInv, Known
<1>11. IndexInv'
  BY <1>1, <1>5 DEF Inv, IndexInv, Known, Closed, g
<1>12. QED
  BY <1>1, <1>9, <1>10, <1>11 DEF Inv

\* What the index in memory claims can be read.
LEMMA ReadFacts ==
    ASSUME Inv, NEW b \in Known, NEW k \in mapBlockIndex[b].have
    PROVE  Readable(k, b)
<1>1. DOMAIN mapBlockIndex = Known
  BY DEF Known
<1>2. [kind |-> k, block |-> b, file |-> mapBlockIndex[b].nFile] \in Claims(mapBlockIndex)
  BY <1>1, ClaimsFacts
<1>3. QED
  BY <1>2 DEF Inv, DataInv, Readable

\* DisconnectTip leads down towards the fork; in a step to a new height it finds
\* the data of the tip.
LEMMA DisconnectStep == ASSUME Inv, DisconnectTip PROVE Inv'
<1>1. /\ phase = "idle" /\ goal # NoBlock /\ tip \notin Chain(goal)
      /\ UNCHANGED <<mapBlockIndex, dirty, nLastBlockFile, fCheckForPruning, tip, highest, goal,
                     stored, unsynced, diskIndex, diskCoins>>
  BY DEF DisconnectTip
<1>2. /\ coinsTip = tip /\ tip \in Known /\ Known \subseteq Blocks /\ goal \in Known
      /\ Closed(Known) /\ tip \in Blocks /\ goal \in Blocks
  BY <1>1 DEF Inv, ReorgInv, IndexInv, TypeInv
<1>3. tip # Genesis /\ tip # goal
  BY <1>1, <1>2, ChainFacts
<1>4. /\ Parent[tip] \in Known /\ Parent[tip] \in Blocks
      /\ Chain(tip) = {tip} \cup Chain(Parent[tip]) /\ Height(tip) = Height(Parent[tip]) + 1
      /\ Height(tip) < Height(goal) /\ Height(Parent[tip]) < Height(goal)
  <2>1. /\ Parent[tip] \in Known /\ Parent[tip] \in Blocks
        /\ Chain(tip) = {tip} \cup Chain(Parent[tip]) /\ Height(tip) = Height(Parent[tip]) + 1
    BY <1>2, <1>3, ChainFacts, HeightFacts DEF Closed
  <2>2. Height(tip) < Height(goal)
    BY <1>1, <1>2, <1>3 DEF Inv, ReorgInv
  <2>3. Height(tip) \in Nat /\ Height(Parent[tip]) \in Nat /\ Height(goal) \in Nat
    BY <1>2, <2>1, HeightFacts
  <2>4. QED
    BY <2>1, <2>2, <2>3
<1>5. CASE Readable("data", tip) /\ Readable("undo", tip)
  <2>1. coinsTip' = Parent[tip] /\ phase' = "begin" /\ call' = [NoCall EXCEPT !.mode = "IF_NEEDED"]
    BY <1>5 DEF DisconnectTip, Flush
  <2>2. TypeInv'
    <3>1. call' \in [mode : {"NONE", "IF_NEEDED", "PERIODIC", "ALWAYS"}, full : BOOLEAN,
                     prune : SUBSET Files]
      BY <2>1 DEF NoCall
    <3>2. QED
      BY <1>1, <2>1, <3>1 DEF Inv, TypeInv, Known
  <2>3. IndexInv'
    BY <1>1, <1>4, <2>1 DEF Inv, IndexInv, Known, Closed
  <2>4. DataInv' /\ SizeInv'
    BY <1>1, <2>1 DEF Inv, DataInv, SizeInv, Known
  <2>5. ReorgInv'
    <3>1. /\ Chain(goal) \ Chain(Parent[tip]) = Chain(goal) \ Chain(tip)
          /\ Chain(Parent[tip]) \ Chain(goal) \subseteq Chain(tip) \ Chain(goal)
          /\ Chain(Parent[tip]) \subseteq Chain(tip)
      BY <1>1, <1>4
    <3>2. QED
      BY <1>1, <1>2, <1>4, <2>1, <3>1 DEF Inv, ReorgInv, Recent, Complete
  <2>6. QED
    BY <2>1, <2>2, <2>3, <2>4, <2>5 DEF Inv
<1>6. CASE ~(Readable("data", tip) /\ Readable("undo", tip))
  <2>1. phase' = "failed" /\ UNCHANGED <<coinsTip, call>>
    BY <1>6 DEF DisconnectTip
  <2>2. Height(goal) <= highest
    <3>1. SUFFICES ASSUME Height(goal) > highest PROVE FALSE
      BY <1>2, HeightFacts DEF Inv, TypeInv
    <3>2. Recent(tip) /\ tip \in Chain(coinsTip)
      BY <1>1, <1>2, <3>1, ChainFacts DEF Inv, ReorgInv
    <3>3. Complete(mapBlockIndex, tip)
      BY <1>3, <3>2 DEF Inv, ReorgInv
    <3>4. QED
      BY <1>2, <1>6, <3>3, ReadFacts DEF Complete
  <2>3. TypeInv' /\ DataInv' /\ SizeInv'
    BY <1>1, <2>1 DEF Inv, TypeInv, DataInv, SizeInv, Known
  <2>4. IndexInv'
    BY <1>1, <2>1 DEF Inv, IndexInv, Known, Closed
  <2>5. ReorgInv'
    BY <1>1, <1>2, <2>1, <2>2 DEF Inv, ReorgInv, Recent, Complete
  <2>6. QED
    BY <2>1, <2>3, <2>4, <2>5 DEF Inv
<1>7. QED
  BY <1>5, <1>6

\* ConnectTip leads up to the goal and completes the block; in a step to a new
\* height it finds the data of the block.
LEMMA ConnectStep == ASSUME Inv, ConnectTip PROVE Inv'
<1>1. /\ phase = "idle" /\ goal # NoBlock /\ tip \in Chain(goal)
      /\ UNCHANGED <<nLastBlockFile, tip, highest, goal, diskIndex, diskCoins>>
  BY DEF ConnectTip
<1> DEFINE D(b) == [kind |-> "undo", block |-> b, file |-> mapBlockIndex[b].nFile]
           New(b) == IF "undo" \in mapBlockIndex[b].have THEN {} ELSE {D(b)}
<1>2. PICK b \in Chain(goal) \ {Genesis} :
        /\ Parent[b] = tip
        /\ IF Readable("data", b)
           THEN /\ stored' = stored \cup New(b) /\ unsynced' = unsynced \cup New(b)
                /\ mapBlockIndex' = [mapBlockIndex EXCEPT ![b].have = @ \cup {"undo"}]
                /\ dirty' = IF New(b) = {} THEN dirty ELSE dirty \cup {b}
                /\ fCheckForPruning' \in
                      IF New(b) = {} THEN {fCheckForPruning} ELSE {fCheckForPruning, TRUE}
                /\ coinsTip' = b /\ Flush("IF_NEEDED")
           ELSE /\ phase' = "failed"
                /\ UNCHANGED <<stored, unsynced, mapBlockIndex, dirty,
                               fCheckForPruning, coinsTip, call>>
  BY DEF ConnectTip
<1> DEFINE d == D(b)
           new == New(b)
<1>3. /\ coinsTip = tip /\ tip \in Known /\ Known \subseteq Blocks /\ goal \in Known
      /\ Closed(Known) /\ tip \in Blocks /\ goal \in Blocks
  BY <1>1 DEF Inv, ReorgInv, IndexInv, TypeInv
<1>4. /\ b \in Known /\ b \in Blocks /\ b # Genesis /\ Chain(b) \subseteq Chain(goal)
      /\ Chain(b) = {b} \cup Chain(tip) /\ b \notin Chain(tip)
  <2>1. Chain(goal) \subseteq Known
    BY <1>3, ClosedChains
  <2>2. QED
    BY <1>2, <1>3, <2>1, ChainFacts, HeightFacts
<1>5. CASE Readable("data", b)
  <2>1. /\ stored' = stored \cup new /\ unsynced' = unsynced \cup new
        /\ mapBlockIndex' = [mapBlockIndex EXCEPT ![b].have = @ \cup {"undo"}]
        /\ dirty' = IF new = {} THEN dirty ELSE dirty \cup {b}
        /\ fCheckForPruning' \in {fCheckForPruning, TRUE}
        /\ coinsTip' = b /\ phase' = "begin" /\ call' = [NoCall EXCEPT !.mode = "IF_NEEDED"]
    BY <1>2, <1>5 DEF Flush
  <2>2. "data" \in mapBlockIndex[b].have
    BY <1>5 DEF Readable
  <2>3. /\ d.kind = "undo" /\ d.block = b /\ d.file = mapBlockIndex[b].nFile
        /\ new \subseteq {d} /\ ("undo" \notin mapBlockIndex[b].have => new = {d})
        /\ (new = {} <=> "undo" \in mapBlockIndex[b].have)
    OBVIOUS
  <2>4. /\ mapBlockIndex'[b].have = mapBlockIndex[b].have \cup {"undo"}
        /\ mapBlockIndex'[b].nFile = mapBlockIndex[b].nFile
        /\ Known' = Known /\ DOMAIN mapBlockIndex' = Known /\ DOMAIN mapBlockIndex = Known
        /\ \A c \in Known \ {b} : mapBlockIndex'[c] = mapBlockIndex[c]
        /\ mapBlockIndex' \in [Known -> Entry]
    BY <1>4, <2>1 DEF Known, Inv, TypeInv, Entry
  <2>5. new = {} => mapBlockIndex' = mapBlockIndex
    <3>1. mapBlockIndex[b] \in Entry /\ mapBlockIndex'[b] \in Entry
      BY <1>4, <2>4 DEF Inv, TypeInv
    <3>2. new = {} => mapBlockIndex'[b] = mapBlockIndex[b]
      <4> SUFFICES ASSUME new = {} PROVE mapBlockIndex'[b] = mapBlockIndex[b]
        OBVIOUS
      <4>1. mapBlockIndex'[b].have = mapBlockIndex[b].have
        BY <2>3, <2>4
      <4>2. QED
        BY <2>4, <3>1, <4>1 DEF Entry
    <3>3. QED
      BY <2>4, <3>2 DEF Inv, TypeInv
  <2> HIDE DEF new
  <2>6. TypeInv'
    <3>1. call' \in [mode : {"NONE", "IF_NEEDED", "PERIODIC", "ALWAYS"}, full : BOOLEAN,
                     prune : SUBSET Files]
      BY <2>1 DEF NoCall
    <3>2. fCheckForPruning' \in BOOLEAN /\ unsynced' \subseteq stored'
      BY <2>1 DEF Inv, TypeInv
    <3>3. QED
      BY <1>1, <2>1, <2>4, <3>1, <3>2 DEF Inv, TypeInv
  <2>7. IndexInv'
    <3>1. dirty \subseteq dirty' /\ dirty' \subseteq Known
      BY <1>4, <2>1 DEF Inv, IndexInv
    <3>2. ASSUME NEW c \in Known \ dirty' PROVE mapBlockIndex'[c] = mapBlockIndex[c]
      BY <2>1, <2>4, <2>5
    <3>3. QED
      BY <1>1, <1>4, <2>1, <2>4, <3>1, <3>2 DEF Inv, IndexInv
  <2>8. Claims(mapBlockIndex) \subseteq Claims(mapBlockIndex')
    <3>1. ASSUME NEW c \in Known, NEW k \in mapBlockIndex[c].have
          PROVE  k \in mapBlockIndex'[c].have /\ mapBlockIndex[c].nFile = mapBlockIndex'[c].nFile
      BY <2>4
    <3>2. QED
      BY <2>4, <3>1, FewerClaims
  <2>9. ASSUME NEW e \in Claims(mapBlockIndex') PROVE e \in stored \cup new
    <3> HIDE DEF d
    <3>1. Claimed(mapBlockIndex', e)
      BY ClaimsFacts
    <3>2. CASE e.block = b /\ e.kind = "undo" /\ "undo" \notin mapBlockIndex[b].have
      BY <2>3, <2>4, <3>1, <3>2 DEF Claimed, d
    <3>3. CASE ~(e.block = b /\ e.kind = "undo" /\ "undo" \notin mapBlockIndex[b].have)
      <4>1. Claimed(mapBlockIndex, e)
        BY <2>4, <3>1, <3>3 DEF Claimed
      <4>2. QED
        BY <4>1, ClaimsFacts DEF Inv, DataInv
    <3>4. QED
      BY <3>2, <3>3
  <2>10. DataInv'
    <3>1. \A c \in Known' : "undo" \in mapBlockIndex'[c].have => "data" \in mapBlockIndex'[c].have
      BY <2>2, <2>4 DEF Inv, DataInv
    <3>2. \A e \in unsynced' : e.kind = "data" => e \in unsynced
      BY <2>1, <2>3
    <3> HIDE DEF d
    <3>3. QED
      BY <1>1, <2>1, <2>8, <2>9, <3>1, <3>2 DEF Inv, DataInv
  <2>11. SizeInv'
    <3>1. \A f : Holding(mapBlockIndex', f) = Holding(mapBlockIndex, f)
      BY <2>2, <2>4 DEF Holding
    <3>2. QED
      BY <1>1, <3>1 DEF Inv, SizeInv
  <2>12. ReorgInv'
    <3>1. /\ Chain(goal) \ Chain(b) \subseteq Chain(goal) \ Chain(tip)
          /\ Chain(b) \ Chain(goal) = {}
      BY <1>4
    <3>2. Height(b) < Height(goal) \/ b = goal
      BY <1>2, <1>3, HeightFacts
    <3>3. Complete(mapBlockIndex', b)
      BY <2>2, <2>4 DEF Complete
    <3>4. \A c \in Known : Complete(mapBlockIndex, c) => Complete(mapBlockIndex', c)
      BY <2>4 DEF Complete
    <3>5. \A c \in Known : "data" \in mapBlockIndex[c].have => "data" \in mapBlockIndex'[c].have
      BY <2>4
    <3>6. Chain(tip) \subseteq Known /\ Chain(diskCoins) \subseteq Known /\ Chain(goal) \subseteq Known
      BY <1>3, ClosedChains DEF Inv, IndexInv, TypeInv
    <3>7. \A c \in (Chain(b) \cup Chain(diskCoins)) \ {Genesis} :
             Recent(c) => Complete(mapBlockIndex', c)
      BY <1>3, <1>4, <3>3, <3>4, <3>6 DEF Inv, ReorgInv
    <3>8. Height(goal) > highest =>
            \A c \in Chain(goal) \ Chain(b) : Recent(c) /\ "data" \in mapBlockIndex'[c].have
      BY <1>1, <1>3, <3>1, <3>5, <3>6 DEF Inv, ReorgInv
    <3>9. QED
      BY <1>1, <2>1, <3>1, <3>2, <3>7, <3>8 DEF Inv, ReorgInv, Recent, Complete
  <2>13. QED
    BY <2>1, <2>6, <2>7, <2>10, <2>11, <2>12 DEF Inv
<1>6. CASE ~Readable("data", b)
  <2>1. /\ phase' = "failed"
        /\ UNCHANGED <<stored, unsynced, mapBlockIndex, dirty, fCheckForPruning, coinsTip, call>>
    BY <1>2, <1>6
  <2>2. Height(goal) <= highest
    <3>1. SUFFICES ASSUME Height(goal) > highest PROVE FALSE
      BY <1>3, HeightFacts DEF Inv, TypeInv
    <3>2. "data" \in mapBlockIndex[b].have
      BY <1>1, <1>2, <1>3, <1>4, <3>1 DEF Inv, ReorgInv
    <3>3. QED
      BY <1>4, <1>6, <3>2, ReadFacts
  <2>3. TypeInv' /\ DataInv' /\ SizeInv'
    BY <1>1, <2>1 DEF Inv, TypeInv, DataInv, SizeInv, Known
  <2>4. IndexInv'
    BY <1>1, <2>1 DEF Inv, IndexInv, Known, Closed
  <2>5. ReorgInv'
    BY <1>1, <1>3, <2>1, <2>2 DEF Inv, ReorgInv, Recent, Complete
  <2>6. QED
    BY <2>1, <2>3, <2>4, <2>5 DEF Inv
<1>7. QED
  BY <1>5, <1>6

\* A call of FlushStateToDisk begins.
LEMMA CallStep == ASSUME Inv, CallFlush PROVE Inv'
<1>1. /\ phase = "idle" /\ phase' = "begin" /\ UNCHANGED <<stored, unsynced, diskIndex, diskCoins>>
      /\ UNCHANGED <<mapBlockIndex, dirty, nLastBlockFile, fCheckForPruning, tip, highest,
                     coinsTip, goal>>
  BY DEF CallFlush, Idle, Flush, memory
<1>2. PICK mode \in {"PERIODIC", "ALWAYS"} : call' = [NoCall EXCEPT !.mode = mode]
  BY DEF CallFlush, Flush
<1>3. call' \in [mode : {"NONE", "IF_NEEDED", "PERIODIC", "ALWAYS"}, full : BOOLEAN,
                 prune : SUBSET Files]
  BY <1>2 DEF NoCall
<1>4. TypeInv' /\ DataInv' /\ SizeInv'
  BY <1>1, <1>3 DEF Inv, TypeInv, DataInv, SizeInv, Known
<1>5. IndexInv'
  BY <1>1 DEF Inv, IndexInv, Known, Closed
<1>6. ReorgInv'
  BY <1>1 DEF Inv, ReorgInv, Recent, Complete
<1>7. QED
  BY <1>1, <1>4, <1>5, <1>6 DEF Inv

\* A nonempty finite set of heights has a greatest one, and a nonempty set of
\* file numbers a least one.
LEMMA MaxOf ==
    ASSUME NEW S, S \subseteq Nat, S # {}
    PROVE  /\ IsFiniteSet(S) => Max(S) \in S /\ \A y \in S : y <= Max(S)
           /\ Min(S) \in S
<1> DEFINE R == {p \in S \X S : p[1] <= p[2]}
<1>1. \A x, y \in S : <<x, y>> \in R <=> x <= y
  OBVIOUS
<1>2. ASSUME IsFiniteSet(S) PROVE \E x \in S : \A y \in S : x >= y
  <2>1. \A x, y \in S : x # y => <<x, y>> \in R \/ <<y, x>> \in R
    BY <1>1
  <2>2. \A x, y, z \in S : <<x, y>> \in R /\ <<y, z>> \in R => <<x, z>> \in R
    BY <1>1
  <2> HIDE DEF R
  <2>3. PICK x \in S : \A y \in S \ {x} : <<y, x>> \in R
    BY <1>2, <2>1, <2>2, GreatestElement
  <2>4. ASSUME NEW y \in S PROVE x >= y
    <3>1. x \in Nat /\ y \in Nat
      OBVIOUS
    <3>2. y = x \/ y <= x
      BY <1>1, <2>3
    <3>3. QED
      BY <3>1, <3>2
  <2>5. QED
    BY <2>4
<1>3. \E x \in S : \A y \in S : x <= y
  BY NatMin
<1> HIDE DEF R
<1>4. IsFiniteSet(S) => Max(S) \in S /\ \A y \in S : Max(S) >= y
  BY <1>2 DEF Max
<1>5. Min(S) \in S
  BY <1>3 DEF Min
<1>6. QED
  BY <1>4, <1>5

\* FindFilesToPrune chooses no file that has a recent block.
LEMMA PruneFacts ==
    ASSUME Inv
    PROVE  /\ FindFilesToPrune \subseteq Files
           /\ \A c \in Known : Recent(c) /\ "data" \in mapBlockIndex[c].have =>
                mapBlockIndex[c].nFile \notin FindFilesToPrune
<1>1. FindFilesToPrune \subseteq Files
  BY DEF FindFilesToPrune
<1>2. ASSUME NEW c \in Known, Recent(c), "data" \in mapBlockIndex[c].have,
             mapBlockIndex[c].nFile \in FindFilesToPrune
      PROVE  FALSE
  <2> DEFINE f == mapBlockIndex[c].nFile
             S == {Height(b) : b \in InFile(f)}
  <2>1. nHeightLast(f) <= Height(tip) - MIN_BLOCKS_TO_KEEP
    BY <1>2 DEF FindFilesToPrune
  <2>2. InFile(f) \subseteq Known /\ InFile(f) \subseteq Blocks /\ c \in InFile(f)
    BY <1>2 DEF InFile, Inv, TypeInv
  <2>3. IsFiniteSet(S)
    <3>1. IsFiniteSet(InFile(f))
      BY <2>2, FS_Subset DEF Inv, TypeInv
    <3> DEFINE h == [b \in InFile(f) |-> Height(b)]
    <3>2. h \in Surjection(InFile(f), S)
      BY DEF Surjection
    <3> HIDE DEF h, S, f
    <3>3. QED
      BY <3>1, <3>2, FS_Surjection
  <2>4. S \subseteq Nat /\ Height(c) \in S
    BY <2>2, HeightFacts
  <2>5. Max(S) \in Nat /\ Height(c) <= Max(S)
    <3> HIDE DEF S
    <3>1. QED
      BY <2>3, <2>4, MaxOf
  <2>6. nHeightLast(f) = Max(S)
    BY DEF nHeightLast
  <2>7. /\ Height(tip) \in Nat /\ Height(tip) <= highest /\ highest \in Nat
        /\ MIN_BLOCKS_TO_KEEP \in Nat /\ Height(c) \in Nat
    BY <2>2, HeightFacts, FlushAssumption DEF Inv, ReorgInv, TypeInv, IndexInv
  <2> HIDE DEF S, f
  <2>8. QED
    BY <1>2, <2>1, <2>5, <2>6, <2>7 DEF Recent
<1>3. QED
  BY <1>1, <1>2

\* The decision: what is pruned loses its flags in memory, and is to be written.
LEMMA BeginFlushStep == ASSUME Inv, BeginFlush PROVE Inv'
<1> DEFINE prune == FindFilesToPrune
           gone == {b \in Known : mapBlockIndex[b].nFile \in prune}
           none == [have |-> {}, nFile |-> 0]
<1>1. PICK full \in BOOLEAN, write \in BOOLEAN :
        /\ \/ full /\ (call.mode # "NONE" \/ prune # {})
           \/ ~full /\ call.mode # "ALWAYS" /\ prune = {}
        /\ write => (call.mode = "PERIODIC" /\ ~full)
        /\ PruneOneBlockFile(gone)
        /\ call' = [call EXCEPT !.full = full, !.prune = prune]
        /\ phase' = IF full \/ write THEN "files" ELSE "return"
  BY DEF BeginFlush
<1>2. /\ phase = "begin" /\ fCheckForPruning' = FALSE
      /\ UNCHANGED <<nLastBlockFile, tip, highest, coinsTip, goal, stored, unsynced,
                     diskIndex, diskCoins>>
  BY DEF BeginFlush
<1>3. /\ mapBlockIndex' = [b \in Known |-> IF b \in gone THEN none ELSE mapBlockIndex[b]]
      /\ dirty' = dirty \cup gone
  BY <1>1 DEF PruneOneBlockFile
<1>4. none \in Entry /\ none.have = {}
  BY FlushAssumption DEF Entry
<1>5. /\ gone \subseteq Known /\ \A c \in Known : c \in gone <=> mapBlockIndex[c].nFile \in prune
      /\ prune \subseteq Files
  BY PruneFacts
<1>6. /\ call'.prune = prune
      /\ call' \in [mode : {"NONE", "IF_NEEDED", "PERIODIC", "ALWAYS"}, full : BOOLEAN,
                    prune : SUBSET Files]
  BY <1>1, <1>5 DEF Inv, TypeInv
<1>7. ASSUME NEW c \in Known, Recent(c), "data" \in mapBlockIndex[c].have PROVE c \notin gone
  BY <1>5, <1>7, PruneFacts
<1>8. phase' \in {"files", "return"} /\ (phase' = "return" => prune = {})
  BY <1>1
<1> HIDE DEF gone, none, prune
<1>9. /\ Known' = Known /\ DOMAIN mapBlockIndex' = Known /\ DOMAIN mapBlockIndex = Known
      /\ \A c \in gone : mapBlockIndex'[c] = none
      /\ \A c \in Known \ gone : mapBlockIndex'[c] = mapBlockIndex[c]
      /\ mapBlockIndex' \in [Known -> Entry]
  BY <1>3, <1>4, <1>5 DEF Known, Inv, TypeInv
<1>10. TypeInv'
  BY <1>2, <1>6, <1>8, <1>9 DEF Inv, TypeInv
<1>11. IndexInv'
  BY <1>2, <1>3, <1>5, <1>8, <1>9 DEF Inv, IndexInv
<1>12. ASSUME NEW d \in Claims(mapBlockIndex') PROVE d \in Claims(mapBlockIndex) /\ d.file \notin prune
  <2>1. Claimed(mapBlockIndex', d)
    BY ClaimsFacts
  <2>2. d.block \in Known \ gone
    BY <1>4, <1>9, <2>1 DEF Claimed
  <2>3. Claimed(mapBlockIndex, d) /\ d.file \notin prune
    BY <1>5, <1>9, <2>1, <2>2 DEF Claimed
  <2>4. QED
    BY <2>3, ClaimsFacts
<1>13. phase' = "return" => Claims(mapBlockIndex') = Claims(mapBlockIndex)
  <2>1. ASSUME phase' = "return" PROVE Claims(mapBlockIndex) \subseteq Claims(mapBlockIndex')
    <3>1. gone = {}
      BY <1>5, <1>8, <2>1
    <3>2. QED
      BY <1>9, <3>1, FewerClaims
  <2>2. QED
    BY <1>12, <2>1
<1>14. DataInv'
  <2>1. \A c \in Known' : "undo" \in mapBlockIndex'[c].have => "data" \in mapBlockIndex'[c].have
    BY <1>4, <1>9 DEF Inv, DataInv
  <2>2. QED
    BY <1>2, <1>6, <1>8, <1>12, <1>13, <2>1 DEF Inv, DataInv
<1>15. SizeInv'
  <2>1. ASSUME NEW f \in Files PROVE Cardinality(Holding(mapBlockIndex', f)) <= BlocksPerFile
    <3>1. /\ Holding(mapBlockIndex', f) \subseteq Holding(mapBlockIndex, f)
          /\ Holding(mapBlockIndex, f) \subseteq Known
      BY <1>4, <1>9 DEF Holding
    <3>2. IsFiniteSet(Holding(mapBlockIndex, f))
      BY <3>1, FS_Subset DEF Inv, TypeInv
    <3>3. /\ Cardinality(Holding(mapBlockIndex', f)) <= Cardinality(Holding(mapBlockIndex, f))
          /\ Cardinality(Holding(mapBlockIndex', f)) \in Nat
          /\ Cardinality(Holding(mapBlockIndex, f)) \in Nat
      BY <3>1, <3>2, FS_Subset, FS_CardinalityType
    <3>4. Cardinality(Holding(mapBlockIndex, f)) <= BlocksPerFile /\ BlocksPerFile \in Nat
      BY FlushAssumption DEF Inv, SizeInv
    <3>5. QED
      BY <3>3, <3>4
  <2>2. QED
    BY <1>2, <2>1 DEF Inv, SizeInv
<1>16. ReorgInv'
  <2>1. /\ Chain(coinsTip) \subseteq Known /\ Chain(diskCoins) \subseteq Known
        /\ goal # NoBlock => Chain(goal) \subseteq Known
    BY ClosedChains DEF Inv, IndexInv, TypeInv
  <2>2. \A c \in Known : Recent(c) /\ Complete(mapBlockIndex, c) => Complete(mapBlockIndex', c)
    BY <1>7, <1>9 DEF Complete
  <2>3. \A c \in Known : Recent(c) /\ "data" \in mapBlockIndex[c].have =>
           "data" \in mapBlockIndex'[c].have
    BY <1>7, <1>9
  <2>4. \A c \in (Chain(coinsTip) \cup Chain(diskCoins)) \ {Genesis} :
           Recent(c) => Complete(mapBlockIndex', c)
    BY <2>1, <2>2 DEF Inv, ReorgInv
  <2>5. goal # NoBlock /\ Height(goal) > highest =>
          \A c \in Chain(goal) \ Chain(coinsTip) : Recent(c) /\ "data" \in mapBlockIndex'[c].have
    BY <2>1, <2>3 DEF Inv, ReorgInv
  <2>6. QED
    BY <1>2, <1>8, <2>4, <2>5 DEF Inv, ReorgInv, Recent, Complete
<1>17. QED
  BY <1>8, <1>10, <1>11, <1>14, <1>15, <1>16 DEF Inv

\* The block and undo file in use is committed: no block data is left that is
\* not.
LEMMA FlushFilesStep == ASSUME Inv, FlushFiles PROVE Inv'
<1>1. /\ phase = "files" /\ phase' = "index" /\ UNCHANGED <<call, stored, diskIndex, diskCoins>>
      /\ UNCHANGED <<mapBlockIndex, dirty, nLastBlockFile, fCheckForPruning, tip, highest,
                     coinsTip, goal>>
      /\ unsynced' = {d \in unsynced : d.file # nLastBlockFile}
  BY DEF FlushFiles, memory, FlushBlockFile
<1>2. TypeInv' /\ SizeInv'
  BY <1>1 DEF Inv, TypeInv, SizeInv, Known
<1>3. DataInv'
  BY <1>1 DEF Inv, DataInv, Known
<1>4. IndexInv'
  BY <1>1 DEF Inv, IndexInv, Known, Closed
<1>5. ReorgInv'
  BY <1>1 DEF Inv, ReorgInv, Recent, Complete
<1>6. QED
  BY <1>1, <1>2, <1>3, <1>4, <1>5 DEF Inv

\* The batch makes the index on disk the one in memory.
LEMMA WriteIndexStep == ASSUME Inv, WriteIndex PROVE Inv'
<1>1. /\ phase = "index" /\ phase' = "unlink" /\ dirty' = {}
      /\ UNCHANGED <<mapBlockIndex, nLastBlockFile, fCheckForPruning, tip, highest, coinsTip,
                     goal, call, stored, unsynced, diskCoins>>
  BY DEF WriteIndex
<1>2. diskIndex'.blocks = mapBlockIndex /\ diskIndex'.last = nLastBlockFile
  <2>1. /\ diskIndex'.blocks = [b \in DOMAIN diskIndex.blocks \cup dirty |->
                                  IF b \in dirty THEN mapBlockIndex[b] ELSE diskIndex.blocks[b]]
        /\ diskIndex'.last = nLastBlockFile
    BY DEF WriteIndex
  <2>2. DOMAIN diskIndex.blocks \cup dirty = Known
    BY DEF Inv, IndexInv
  <2>3. \A b \in Known : (IF b \in dirty THEN mapBlockIndex[b] ELSE diskIndex.blocks[b])
                           = mapBlockIndex[b]
    BY DEF Inv, IndexInv
  <2>4. mapBlockIndex = [b \in Known |-> mapBlockIndex[b]]
    BY DEF Inv, TypeInv
  <2>5. QED
    BY <2>1, <2>2, <2>3, <2>4
<1>3. Known' = Known /\ DOMAIN diskIndex'.blocks = Known
  BY <1>1, <1>2 DEF Known
<1>4. TypeInv'
  BY <1>1, <1>2, <1>3 DEF Inv, TypeInv
<1>5. IndexInv'
  BY <1>1, <1>2, <1>3 DEF Inv, IndexInv
<1>6. DataInv'
  BY <1>1, <1>2, <1>3 DEF Inv, DataInv
<1>7. SizeInv'
  BY <1>1, <1>2 DEF Inv, SizeInv
<1>8. ReorgInv'
  BY <1>1, <1>2 DEF Inv, ReorgInv, Recent, Complete
<1>9. QED
  BY <1>1, <1>4, <1>5, <1>6, <1>7, <1>8 DEF Inv

\* Files are removed that neither index claims anything in.
LEMMA UnlinkStep == ASSUME Inv, UnlinkPrunedFiles PROVE Inv'
<1>1. /\ phase = "unlink" /\ UNCHANGED <<diskIndex, diskCoins>>
      /\ UNCHANGED <<mapBlockIndex, dirty, nLastBlockFile, fCheckForPruning, tip, highest,
                     coinsTip, goal>>
  BY DEF UnlinkPrunedFiles, memory
<1>2. CASE call.prune = {}
  <2>1. phase' \in {"coins", "return"} /\ UNCHANGED <<call, stored, unsynced>>
    BY <1>2 DEF UnlinkPrunedFiles
  <2>2. TypeInv' /\ DataInv' /\ SizeInv'
    BY <1>1, <2>1 DEF Inv, TypeInv, DataInv, SizeInv, Known
  <2>3. IndexInv'
    BY <1>1, <2>1 DEF Inv, IndexInv, Known, Closed
  <2>4. ReorgInv'
    BY <1>1, <2>1 DEF Inv, ReorgInv, Recent, Complete
  <2>5. QED
    BY <2>1, <2>2, <2>3, <2>4 DEF Inv
<1>3. CASE call.prune # {}
  <2> DEFINE f == Min(call.prune)
  <2>1. /\ stored' = {d \in stored : d.file # f} /\ unsynced' = {d \in unsynced : d.file # f}
        /\ call' = [call EXCEPT !.prune = @ \ {f}] /\ phase' = phase
    BY <1>3 DEF UnlinkPrunedFiles
  <2>2. call.prune \subseteq Nat
    BY FlushAssumption DEF Inv, TypeInv
  <2>3. f \in call.prune
    BY <1>3, <2>2, MaxOf
  <2> HIDE DEF f
  <2>4. /\ call'.prune = call.prune \ {f}
        /\ call' \in [mode : {"NONE", "IF_NEEDED", "PERIODIC", "ALWAYS"}, full : BOOLEAN,
                      prune : SUBSET Files]
    BY <2>1 DEF Inv, TypeInv
  <2>5. TypeInv' /\ SizeInv'
    BY <1>1, <2>1, <2>4 DEF Inv, TypeInv, SizeInv, Known
  <2>6. DataInv'
    <3>1. \A d \in Claims(mapBlockIndex) : d.file # f
      BY <1>1, <2>3 DEF Inv, DataInv
    <3>2. QED
      BY <1>1, <2>1, <2>4, <3>1 DEF Inv, DataInv, Known
  <2>7. IndexInv'
    BY <1>1, <2>1 DEF Inv, IndexInv, Known, Closed
  <2>8. ReorgInv'
    BY <1>1, <2>1 DEF Inv, ReorgInv, Recent, Complete
  <2>9. QED
    BY <2>1, <2>5, <2>6, <2>7, <2>8 DEF Inv
<1>4. QED
  BY <1>2, <1>3

\* The coins are written when the index on disk is the one in memory.
LEMMA FlushCoinsStep == ASSUME Inv, FlushCoins PROVE Inv'
<1>1. /\ phase = "coins" /\ phase' = "return" /\ diskCoins' = coinsTip
      /\ UNCHANGED <<call, stored, unsynced, diskIndex>>
      /\ UNCHANGED <<mapBlockIndex, dirty, nLastBlockFile, fCheckForPruning, tip, highest,
                     coinsTip, goal>>
  BY DEF FlushCoins, memory
<1>2. /\ dirty = {} /\ DOMAIN diskIndex.blocks = Known
      /\ \A b \in Known : diskIndex.blocks[b] = mapBlockIndex[b]
  BY <1>1 DEF Inv, IndexInv
<1>3. Chain(coinsTip) \subseteq Known
  BY ClosedChains DEF Inv, IndexInv, TypeInv
<1>4. TypeInv' /\ DataInv' /\ SizeInv'
  BY <1>1 DEF Inv, TypeInv, DataInv, SizeInv, Known
<1>5. IndexInv'
  BY <1>1, <1>2 DEF Inv, IndexInv, Known, Closed
<1>6. ReorgInv'
  BY <1>1, <1>2, <1>3 DEF Inv, ReorgInv, Recent, Complete
<1>7. QED
  BY <1>1, <1>4, <1>5, <1>6 DEF Inv

\* UpdateTip: the tip passes the greatest height only at the end of a step.
LEMMA ReturnStep == ASSUME Inv, Return PROVE Inv'
<1>1. /\ phase = "return" /\ phase' = "idle" /\ tip' = coinsTip
      /\ highest' = Max({highest, Height(coinsTip)})
      /\ goal' = IF goal = coinsTip THEN NoBlock ELSE goal
      /\ call' = NoCall
      /\ UNCHANGED <<mapBlockIndex, dirty, nLastBlockFile, fCheckForPruning, coinsTip,
                     stored, unsynced, diskIndex, diskCoins>>
  BY DEF Return
<1>2. /\ highest \in Nat /\ Height(coinsTip) \in Nat /\ MIN_BLOCKS_TO_KEEP \in Nat
      /\ coinsTip \in Known /\ Known \subseteq Blocks
  BY HeightFacts, FlushAssumption DEF Inv, TypeInv, IndexInv
<1>3. /\ highest' \in Nat /\ highest <= highest' /\ Height(coinsTip) <= highest'
      /\ highest' \in {highest, Height(coinsTip)}
  BY <1>1, <1>2, MaxFacts
<1>4. \A b \in Blocks : Recent(b)' => Recent(b)
  BY <1>2, <1>3, HeightFacts DEF Recent
<1>5. ASSUME goal' # NoBlock PROVE highest' = highest /\ goal' = goal
  <2>1. goal' = goal /\ goal # coinsTip
    BY <1>1, <1>5
  <2>2. Height(goal) <= highest + 1 /\ Height(coinsTip) < Height(goal) /\ Height(goal) \in Nat
    BY <1>2, <1>5, <2>1, HeightFacts DEF Inv, ReorgInv, IndexInv
  <2>3. QED
    BY <1>2, <1>3, <2>1, <2>2
<1>6. TypeInv'
  <2>1. call' \in [mode : {"NONE", "IF_NEEDED", "PERIODIC", "ALWAYS"}, full : BOOLEAN,
                   prune : SUBSET Files]
    BY <1>1 DEF NoCall
  <2>2. QED
    BY <1>1, <1>3, <2>1 DEF Inv, TypeInv, Known
<1>7. DataInv' /\ SizeInv'
  BY <1>1 DEF Inv, DataInv, SizeInv, Known
<1>8. IndexInv'
  BY <1>1 DEF Inv, IndexInv, Known, Closed
<1>9. ReorgInv'
  <2>1. Chain(coinsTip) \subseteq Blocks /\ Chain(diskCoins) \subseteq Blocks
    BY <1>2, ChainFacts DEF Inv, IndexInv, TypeInv
  <2>2. \A b \in (Chain(coinsTip) \cup Chain(diskCoins)) \ {Genesis} :
           Recent(b)' => Complete(mapBlockIndex, b)
    BY <1>4, <2>1 DEF Inv, ReorgInv
  <2>3. \A b \in Chain(diskCoins) \ {Genesis} : Recent(b)' => Complete(diskIndex.blocks, b)
    BY <1>4, <2>1 DEF Inv, ReorgInv
  <2>4. goal' # NoBlock =>
          /\ Height(goal') <= highest' + 1
          /\ Height(coinsTip) < Height(goal') \/ coinsTip = goal'
          /\ Height(goal') > highest' =>
               /\ \A b \in Chain(goal') \ Chain(coinsTip) :
                    Recent(b)' /\ "data" \in mapBlockIndex[b].have
               /\ \A b \in Chain(coinsTip) \ Chain(goal') : Recent(b)'
    BY <1>5 DEF Inv, ReorgInv, Recent
  <2>5. QED
    BY <1>1, <1>3, <2>2, <2>3, <2>4 DEF ReorgInv, Complete
<1>10. QED
  BY <1>1, <1>6, <1>7, <1>8, <1>9 DEF Inv

\* A restart finds the files and the tip, whatever step the process died in.
LEMMA RestartStep == ASSUME Inv, Restart PROVE Inv'
<1>1. /\ mapBlockIndex' = diskIndex.blocks /\ nLastBlockFile' = diskIndex.last
      /\ stored' = stored \cap Claims(diskIndex.blocks) /\ unsynced' = unsynced \cap stored'
      /\ dirty' = {} /\ fCheckForPruning' = TRUE
      /\ tip' = diskCoins /\ coinsTip' = diskCoins /\ goal' = NoBlock
      /\ call' = NoCall /\ highest' = Max({highest, Height(diskCoins)})
      /\ UNCHANGED <<diskIndex, diskCoins>>
  BY DEF Restart
<1>2. phase' = "begin"
  <2>1. Claims(diskIndex.blocks) \subseteq stored /\ diskCoins \in DOMAIN diskIndex.blocks
    BY DEF Inv, DataInv, IndexInv
  <2>2. FilesPresent
    BY <2>1 DEF FilesPresent
  <2>3. QED
    BY <2>1, <2>2 DEF Restart
<1>3. Known' = DOMAIN diskIndex.blocks
  BY <1>1 DEF Known
<1>4. /\ highest' \in Nat /\ highest <= highest' /\ Height(diskCoins) <= highest'
      /\ highest \in Nat /\ MIN_BLOCKS_TO_KEEP \in Nat /\ diskCoins \in Blocks
  <2>1. diskCoins \in Blocks /\ highest \in Nat
    BY DEF Inv, IndexInv, TypeInv
  <2>2. Height(diskCoins) \in Nat
    BY <2>1, HeightFacts
  <2>3. QED
    BY <1>1, <2>1, <2>2, MaxFacts, FlushAssumption
<1>5. TypeInv'
  <2>1. call' \in [mode : {"NONE", "IF_NEEDED", "PERIODIC", "ALWAYS"}, full : BOOLEAN,
                   prune : SUBSET Files]
    BY <1>1 DEF NoCall
  <2>2. IsFiniteSet(DOMAIN diskIndex.blocks)
    BY FS_Subset DEF Inv, IndexInv, TypeInv
  <2>3. QED
    BY <1>1, <1>2, <1>3, <1>4, <2>1, <2>2 DEF Inv, TypeInv
<1>6. IndexInv'
  BY <1>1, <1>2, <1>3 DEF Inv, IndexInv
<1>7. DataInv'
  BY <1>1, <1>2, <1>3 DEF Inv, DataInv
<1>8. SizeInv'
  BY <1>1 DEF Inv, SizeInv
<1>9. ReorgInv'
  <2>1. \A b \in Chain(diskCoins) \ {Genesis} : Recent(b)' => Complete(diskIndex.blocks, b)
    <3>1. \A b \in Blocks : Recent(b)' => Recent(b)
      BY <1>4, HeightFacts DEF Recent
    <3>2. Chain(diskCoins) \subseteq Blocks
      BY <1>4, ChainFacts
    <3>3. QED
      BY <3>1, <3>2 DEF Inv, ReorgInv
  <2>2. QED
    BY <1>1, <1>2, <1>4, <2>1 DEF ReorgInv, Complete
<1>10. QED
  BY <1>2, <1>5, <1>6, <1>7, <1>8, <1>9 DEF Inv

-----------------------------------------------------------------------------
(* The theorems. *)

\* Every action keeps the invariant.
LEMMA NextInv == ASSUME Inv, [Next]_vars PROVE Inv'
<1>1. CASE UNCHANGED vars
  <2>1. TypeInv' /\ DataInv' /\ SizeInv'
    BY <1>1 DEF Inv, TypeInv, DataInv, SizeInv, Known, vars
  <2>2. IndexInv' /\ ReorgInv' /\ phase' # "lost"
    BY <1>1 DEF Inv, IndexInv, ReorgInv, Recent, Complete, Known, Closed, vars
  <2>3. QED
    BY <2>1, <2>2 DEF Inv
<1>2. CASE Next
  BY <1>2, HeaderStep, BlockStep, BeginStepStep, DisconnectStep, ConnectStep, CallStep,
     BeginFlushStep, FlushFilesStep, WriteIndexStep, UnlinkStep, FlushCoinsStep, ReturnStep,
     RestartStep DEF Next
<1>3. QED
  BY <1>1, <1>2

\* The inductive invariant: what the index in memory, the index on disk, the
\* files and the tips have to do with each other at every step, also of a flush
\* and after every restart; and no restart fails.
THEOREM Invariant == Spec => []Inv
<1>1. Inv /\ [Next]_vars => Inv'
  BY NextInv
<1>2. QED
  BY InitInv, <1>1, PTL DEF Spec

\* Whenever the process dies, the best block of the coins database and all blocks
\* below it are in the block index database (FlushStateToDisk writes the index
\* first; LoadBlockIndexDB sets the tip).
THEOREM CoinsStayIndexed == Spec => []CoinsAreIndexed
<1>1. Inv => CoinsAreIndexed
  BY ClosedChains DEF Inv, IndexInv, TypeInv, CoinsAreIndexed
<1>2. QED
  BY Invariant, <1>1, PTL

\* Whenever the process dies, also in the middle of pruning, the files have all
\* data that the block index database claims, and block data is committed.
THEOREM IndexNeverLies == Spec => []IndexedDataExists
<1>1. ASSUME Inv PROVE TypeOK
  <2>1. \A f \in Files : nSize(f) <= BlocksPerFile
    <3>1. \A f : InFile(f) = Holding(mapBlockIndex, f)
      BY DEF InFile, Holding, Known
    <3>2. QED
      BY <1>1, <3>1 DEF Inv, SizeInv, nSize
  <2>2. QED
    BY <1>1, <2>1 DEF Inv, TypeInv, IndexInv, TypeOK
<1>2. Inv => IndexedDataExists
  BY <1>1 DEF Inv, DataInv, IndexedDataExists
<1>3. QED
  BY Invariant, <1>2, PTL

\* Pruning with MIN_BLOCKS_TO_KEEP leaves what a reorganisation of at most
\* MAX_REORG_LENGTH blocks reads: a step that begins at the greatest height never
\* misses block or undo data in DisconnectTip or ConnectTip.
THEOREM ReorgsFindTheirData == Spec => []ReorgFindsData
<1>1. Inv => ReorgFindsData
  BY DEF Inv, ReorgInv, ReorgFindsData
<1>2. QED
  BY Invariant, <1>1, PTL
=============================================================================
