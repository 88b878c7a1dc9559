------------------------------ MODULE ChainFlush ------------------------------
(***************************************************************************)
(* What reaches the disk, and in which order: block and undo files, the    *)
(* block index database and the coins database (main.cpp: AcceptBlock,     *)
(* ConnectTip, DisconnectTip, FlushStateToDisk, the pruning code and       *)
(* LoadBlockIndexDB).  The process may die between any two writes of       *)
(* FlushStateToDisk and starts again from what is on disk.                 *)
(*                                                                         *)
(* Every block has the same size and the same work.  cs_main is held from  *)
(* the moment a call begins until phase is "idle" and goal is NoBlock.     *)
(***************************************************************************)
EXTENDS BlockTree, Integers, FiniteSetsExt

CONSTANTS
    NoBlock,
    Files,                \* numbers of block files, 0 .. n
    BlocksPerFile,        \* MAX_BLOCKFILE_SIZE, in blocks
    PruneTarget,          \* nPruneTarget less the buffer, in blocks
    PruneAfterHeight,     \* CChainParams::nPruneAfterHeight
    BLOCK_DOWNLOAD_WINDOW, MIN_BLOCKS_TO_KEEP, MAX_REORG_LENGTH

(* The subtraction in FindFilesToPrune is unsigned: it needs the first of   *)
(* these (288 <= 1000 in chainparams.cpp).                                  *)
ASSUME FlushAssumption ==
    /\ MIN_BLOCKS_TO_KEEP <= PruneAfterHeight
    /\ MAX_REORG_LENGTH < MIN_BLOCKS_TO_KEEP
    /\ BlocksPerFile \in Nat \ {0} /\ NoBlock \notin Blocks
    /\ Files \subseteq Nat /\ 0 \in Files
    /\ {BLOCK_DOWNLOAD_WINDOW, MIN_BLOCKS_TO_KEEP, MAX_REORG_LENGTH} \subseteq Nat

VARIABLES
    \* in memory
    mapBlockIndex,   \* for each known block, its BLOCK_HAVE flags and nFile
    dirty,           \* setDirtyBlockIndex
    nLastBlockFile, fCheckForPruning,
    tip,             \* chainActive.Tip()
    coinsTip,        \* the best block of pcoinsTip
    goal,            \* where the ActivateBestChainStep in progress leads
    phase,           \* where the call in progress is
    call,            \* the mode, fDoFullFlush and setFilesToPrune of FlushStateToDisk
    \* on disk
    stored,          \* block and undo data in the files
    unsynced,        \* the part of it no FileCommit has covered
    diskIndex,       \* the block index database, with its last block file
    diskCoins,       \* the best block of the coins database
    highest          \* history: the greatest height the tip has had

memory == <<mapBlockIndex, dirty, nLastBlockFile, fCheckForPruning, tip, highest, coinsTip, goal>>
vars == <<mapBlockIndex, dirty, nLastBlockFile, fCheckForPruning, tip, coinsTip, goal,
          phase, call, stored, unsynced, diskIndex, diskCoins, highest>>

Known == DOMAIN mapBlockIndex
Entry == [have : SUBSET {"data", "undo"}, nFile : Files]
NoCall == [mode |-> "NONE", full |-> FALSE, prune |-> {}]

(* What an index claims to be in the files. *)
Claims(index) ==
    UNION {{[kind |-> k, block |-> b, file |-> index[b].nFile] : k \in index[b].have}
           : b \in DOMAIN index}

Init ==
    LET index == [b \in {Genesis} |-> [have |-> {"data"}, nFile |-> 0]]
    IN  /\ mapBlockIndex = index /\ dirty = {} /\ nLastBlockFile = 0
        /\ fCheckForPruning = FALSE
        /\ tip = Genesis /\ coinsTip = Genesis /\ goal = NoBlock
        /\ phase = "idle" /\ call = NoCall
        /\ stored = Claims(index) /\ unsynced = {}
        /\ diskIndex = [blocks |-> index, last |-> 0] /\ diskCoins = Genesis
        /\ highest = 0

Idle == phase = "idle" /\ goal = NoBlock

(* FlushStateToDisk(mode) begins. *)
Flush(mode) == phase' = "begin" /\ call' = [NoCall EXCEPT !.mode = mode]

----------------------------------------------------------------------------
(* Headers and blocks arrive, blocks in any order *)

AcceptBlockHeader(b) ==
    /\ Idle
    /\ b \notin Known /\ Parent[b] \in Known
    /\ Height(b) <= Height(tip) + BLOCK_DOWNLOAD_WINDOW
    /\ mapBlockIndex' = [c \in Known \cup {b} |->
          IF c = b THEN [have |-> {}, nFile |-> 0] ELSE mapBlockIndex[c]]
    /\ dirty' = dirty \cup {b}
    /\ UNCHANGED <<nLastBlockFile, fCheckForPruning, tip, highest, coinsTip, goal, phase, call,
                   stored, unsynced, diskIndex, diskCoins>>

(* vinfoBlockFile: the blocks in a file.  A pruned block has nFile 0 but no *)
(* data, and the vinfoBlockFile of its file was cleared.                    *)
InFile(f) == {b \in Known : "data" \in mapBlockIndex[b].have /\ mapBlockIndex[b].nFile = f}
nSize(f) == Cardinality(InFile(f))
nHeightLast(f) == Max({Height(b) : b \in InFile(f)})

(* FlushBlockFile commits the block and the undo file nLastBlockFile. *)
FlushBlockFile(u) == {d \in u : d.file # nLastBlockFile}

(* FindBlockPos: the file for a new block; the file that is left is         *)
(* committed.                                                               *)
FindBlockPos(f) ==
    /\ f >= nLastBlockFile /\ nSize(f) < BlocksPerFile
    /\ \A g \in nLastBlockFile .. f - 1 : nSize(g) >= BlocksPerFile
    /\ nLastBlockFile' = f

(* A block is stored; when that allocated another chunk of the file,        *)
(* pruning is to be considered, at once.                                    *)
AcceptBlock(b) ==
    /\ Idle
    /\ b \in Known /\ "data" \notin mapBlockIndex[b].have
    /\ Height(b) <= Height(tip) + BLOCK_DOWNLOAD_WINDOW
    /\ \E f \in Files :
          LET d == [kind |-> "data", block |-> b, file |-> f]
              rest == IF f # nLastBlockFile THEN FlushBlockFile(unsynced) ELSE unsynced
          IN  /\ FindBlockPos(f)
              /\ stored' = stored \cup {d} /\ unsynced' = rest \cup {d}
              /\ mapBlockIndex' = [mapBlockIndex EXCEPT ![b] = [have |-> {"data"}, nFile |-> f]]
    /\ dirty' = dirty \cup {b}
    /\ fCheckForPruning' \in {fCheckForPruning, TRUE}
    /\ IF fCheckForPruning' THEN Flush("NONE") ELSE UNCHANGED <<phase, call>>
    /\ UNCHANGED <<tip, highest, coinsTip, goal, diskIndex, diskCoins>>

----------------------------------------------------------------------------
(* The active chain moves, one ActivateBestChainStep at a time *)

(* FindMostWorkChain: blocks whose chain has all its data above the fork. *)
Connectable(b) ==
    \A c \in Chain(b) \ Chain(tip) : c \in Known /\ "data" \in mapBlockIndex[c].have

(* A step ends with the first block that has more work than the old tip. *)
BeginStep ==
    /\ Idle
    /\ \E most \in {b \in Known : Connectable(b) /\ Height(b) > Height(tip)} :
          /\ \A b \in Known : Connectable(b) => Height(b) <= Height(most)
          /\ Height(tip) - Height(Fork(tip, most)) <= MAX_REORG_LENGTH
          /\ goal' \in {c \in Chain(most) : Height(c) = Height(tip) + 1}
    /\ UNCHANGED <<mapBlockIndex, dirty, nLastBlockFile, fCheckForPruning, tip, highest, coinsTip,
                   phase, call, stored, unsynced, diskIndex, diskCoins>>

Readable(k, b) ==
    k \in mapBlockIndex[b].have
        /\ [kind |-> k, block |-> b, file |-> mapBlockIndex[b].nFile] \in stored

(* DisconnectTip up to its FlushStateToDisk. *)
DisconnectTip ==
    /\ phase = "idle" /\ goal # NoBlock /\ tip \notin Chain(goal)
    /\ IF Readable("data", tip) /\ Readable("undo", tip)
       THEN coinsTip' = Parent[tip] /\ Flush("IF_NEEDED")
       ELSE phase' = "failed" /\ UNCHANGED <<coinsTip, call>>
    /\ UNCHANGED <<mapBlockIndex, dirty, nLastBlockFile, fCheckForPruning, tip, highest, goal,
                   stored, unsynced, diskIndex, diskCoins>>

(* ConnectTip up to its FlushStateToDisk: ConnectBlock writes the undo data *)
(* into the undo file that goes with the block's own file.                  *)
ConnectTip ==
    /\ phase = "idle" /\ goal # NoBlock /\ tip \in Chain(goal)
    /\ \E b \in Chain(goal) \ {Genesis} :
          LET d == [kind |-> "undo", block |-> b, file |-> mapBlockIndex[b].nFile]
              new == IF "undo" \in mapBlockIndex[b].have THEN {} ELSE {d}
          IN  /\ Parent[b] = tip
              /\ IF Readable("data", b)
                 THEN /\ stored' = stored \cup new /\ unsynced' = unsynced \cup new
                      /\ mapBlockIndex' = [mapBlockIndex EXCEPT ![b].have = @ \cup {"undo"}]
                      /\ dirty' = IF new = {} THEN dirty ELSE dirty \cup {b}
                      /\ fCheckForPruning' \in
                            IF new = {} THEN {fCheckForPruning} ELSE {fCheckForPruning, TRUE}
                      /\ coinsTip' = b /\ Flush("IF_NEEDED")
                 ELSE /\ phase' = "failed"
                      /\ UNCHANGED <<stored, unsynced, mapBlockIndex, dirty,
                                     fCheckForPruning, coinsTip, call>>
    /\ UNCHANGED <<nLastBlockFile, tip, highest, goal, diskIndex, diskCoins>>

(* ActivateBestChain ends with a periodic flush; RPCs and RewindBlockIndex  *)
(* ask for one in any case.                                                 *)
CallFlush ==
    /\ Idle
    /\ \E mode \in {"PERIODIC", "ALWAYS"} : Flush(mode)
    /\ UNCHANGED <<memory, stored, unsynced, diskIndex, diskCoins>>

----------------------------------------------------------------------------
(* FlushStateToDisk *)

Usage == Cardinality(UNION {InFile(f) : f \in Files})

(* Mutant of FindFilesToPrune: any file but the last will do.               *)
FindFilesToPrune_AnyFile ==
    IF fCheckForPruning /\ Height(tip) > PruneAfterHeight
    THEN {f \in Files : f < nLastBlockFile /\ nSize(f) > 0} ELSE {}

(* FindFilesToPrune: from the oldest file on, while the target is exceeded, *)
(* files that are complete and have no block close to the tip.              *)
FindFilesToPrune ==
    LET Old(f) == f < nLastBlockFile /\ nSize(f) > 0
                     /\ nHeightLast(f) <= Height(tip) - MIN_BLOCKS_TO_KEEP
        Freed(f) == Cardinality(UNION {InFile(g) : g \in {h \in 0 .. f - 1 : Old(h)}})
    IN  IF fCheckForPruning /\ Height(tip) > PruneAfterHeight
        THEN {f \in Files : Old(f) /\ Usage - Freed(f) >= PruneTarget}
        ELSE {}

(* Mutant of PruneOneBlockFile: setDirtyBlockIndex is forgotten. *)
PruneOneBlockFile_NotDirty(gone) ==
    /\ mapBlockIndex' = [b \in Known |->
          IF b \in gone THEN [have |-> {}, nFile |-> 0] ELSE mapBlockIndex[b]]
    /\ UNCHANGED dirty

(* PruneOneBlockFile clears the flags of the blocks of a file that is going *)
(* to be removed.                                                           *)
PruneOneBlockFile(gone) ==
    /\ mapBlockIndex' = [b \in Known |->
          IF b \in gone THEN [have |-> {}, nFile |-> 0] ELSE mapBlockIndex[b]]
    /\ dirty' = dirty \cup gone

(* The decision what to write: everything, the index alone, or nothing. *)
BeginFlush ==
    /\ phase = "begin"
    /\ \E full, write \in BOOLEAN :
          LET prune == FindFilesToPrune
              gone == {b \in Known : mapBlockIndex[b].nFile \in prune}
          IN  /\ \/ full /\ (call.mode # "NONE" \/ prune # {})
                 \/ ~full /\ call.mode # "ALWAYS" /\ prune = {}
              /\ write => (call.mode = "PERIODIC" /\ ~full)
              /\ PruneOneBlockFile(gone)
              /\ call' = [call EXCEPT !.full = full, !.prune = prune]
              /\ phase' = IF full \/ write THEN "files" ELSE "return"
    /\ fCheckForPruning' = FALSE
    /\ UNCHANGED <<nLastBlockFile, tip, highest, coinsTip, goal, stored, unsynced,
                   diskIndex, diskCoins>>

(* Mutant of FlushFiles: the coins are written before the index. *)
FlushFiles_CoinsFirst ==
    /\ phase = "files"
    /\ unsynced' = FlushBlockFile(unsynced)
    /\ diskCoins' = IF call.full THEN coinsTip ELSE diskCoins
    /\ phase' = "index"
    /\ UNCHANGED <<memory, call, stored, diskIndex>>

FlushFiles ==
    /\ phase = "files"
    /\ unsynced' = FlushBlockFile(unsynced)
    /\ phase' = "index"
    /\ UNCHANGED <<memory, call, stored, diskIndex, diskCoins>>

(* WriteBatchSync: the dirty entries in one batch. *)
WriteIndex ==
    /\ phase = "index"
    /\ diskIndex' = [blocks |-> [b \in DOMAIN diskIndex.blocks \cup dirty |->
                                    IF b \in dirty THEN mapBlockIndex[b] ELSE diskIndex.blocks[b]],
                     last |-> nLastBlockFile]
    /\ dirty' = {}
    /\ phase' = "unlink"
    /\ UNCHANGED <<mapBlockIndex, nLastBlockFile, fCheckForPruning, tip, highest, coinsTip, goal,
                   call, stored, unsynced, diskCoins>>

(* UnlinkPrunedFiles removes one file after the other. *)
UnlinkPrunedFiles ==
    /\ phase = "unlink"
    /\ IF call.prune = {}
       THEN /\ phase' = IF call.full THEN "coins" ELSE "return"
            /\ UNCHANGED <<call, stored, unsynced>>
       ELSE LET f == Min(call.prune)
            IN  /\ stored' = {d \in stored : d.file # f}
                /\ unsynced' = {d \in unsynced : d.file # f}
                /\ call' = [call EXCEPT !.prune = @ \ {f}]
                /\ UNCHANGED phase
    /\ UNCHANGED <<memory, diskIndex, diskCoins>>

(* pcoinsTip->Flush: the coins and their best block, in one batch. *)
FlushCoins ==
    /\ phase = "coins"
    /\ diskCoins' = coinsTip
    /\ phase' = "return"
    /\ UNCHANGED <<memory, call, stored, unsynced, diskIndex>>

(* FlushStateToDisk returns; within ConnectTip and DisconnectTip UpdateTip  *)
(* follows.                                                                 *)
Return ==
    /\ phase = "return"
    /\ tip' = coinsTip /\ highest' = Max({highest, Height(coinsTip)})
    /\ goal' = IF goal = coinsTip THEN NoBlock ELSE goal
    /\ phase' = "idle" /\ call' = NoCall
    /\ UNCHANGED <<mapBlockIndex, dirty, nLastBlockFile, fCheckForPruning, coinsTip,
                   stored, unsynced, diskIndex, diskCoins>>

(* LoadBlockIndexDB finds the files of all the data the index claims, and   *)
(* the best block of the coins.                                             *)
FilesPresent ==
    \A d \in Claims(diskIndex.blocks) :
        d.kind = "data" => \E e \in stored : e.kind = "data" /\ e.file = d.file

(* The process dies and is started again.  Bytes that the index does not    *)
(* mention are overwritten.  AppInit2 ends with PruneAndFlush.              *)
Restart ==
    /\ mapBlockIndex' = diskIndex.blocks /\ nLastBlockFile' = diskIndex.last
    /\ stored' = stored \cap Claims(diskIndex.blocks)
    /\ unsynced' = unsynced \cap stored'
    /\ dirty' = {} /\ fCheckForPruning' = TRUE
    /\ tip' = diskCoins /\ coinsTip' = diskCoins /\ goal' = NoBlock
    /\ phase' = IF FilesPresent /\ diskCoins \in DOMAIN diskIndex.blocks THEN "begin" ELSE "lost"
    /\ call' = NoCall /\ highest' = Max({highest, Height(diskCoins)})
    /\ UNCHANGED <<diskIndex, diskCoins>>

----------------------------------------------------------------------------

Next ==
    \/ \E b \in Blocks \ {Genesis} : AcceptBlockHeader(b) \/ AcceptBlock(b)
    \/ BeginStep \/ DisconnectTip \/ ConnectTip \/ CallFlush
    \/ BeginFlush \/ FlushFiles \/ WriteIndex \/ UnlinkPrunedFiles \/ FlushCoins \/ Return
    \/ Restart

Spec == Init /\ [][Next]_vars

(* The variables of ChainFlush have the values the code can give them, and  *)
(* no block file holds more than fits.                                      *)
TypeOK ==
    /\ Known \subseteq Blocks /\ mapBlockIndex \in [Known -> Entry]
    /\ dirty \subseteq Known /\ nLastBlockFile \in Files /\ fCheckForPruning \in BOOLEAN
    /\ {tip, coinsTip, diskCoins} \subseteq Blocks /\ goal \in Blocks \cup {NoBlock}
    /\ phase \in {"idle", "begin", "files", "index", "unlink", "coins", "return",
                  "failed", "lost"}
    /\ call.mode \in {"NONE", "IF_NEEDED", "PERIODIC", "ALWAYS"}
    /\ highest \in Nat /\ call.full \in BOOLEAN /\ call.prune \subseteq Files
    /\ unsynced \subseteq stored
    /\ \A f \in Files : nSize(f) <= BlocksPerFile

(* Whenever the process dies, the next start finds the best block of the    *)
(* coins database, and all blocks below it, in the block index database:    *)
(* LoadBlockIndexDB sets the tip (main.cpp:5348).                           *)
CoinsAreIndexed == Chain(diskCoins) \subseteq DOMAIN diskIndex.blocks

(* Whenever the process dies, all block and undo data that the block index  *)
(* database claims is in the files, also in the middle of pruning: the      *)
(* presence check of LoadBlockIndexDB (main.cpp:5291) succeeds and no read  *)
(* of a block or of its undo data fails.  Block data has even been          *)
(* committed, by FindBlockPos for the file it leaves and by                 *)
(* FlushStateToDisk for the file in use.                                    *)
IndexedDataExists ==
    /\ TypeOK /\ Claims(diskIndex.blocks) \subseteq stored
    /\ \A d \in Claims(diskIndex.blocks) \cap unsynced : d.kind # "data"

(* Pruning leaves what a reorganisation reads: no DisconnectTip or          *)
(* ConnectTip misses block or undo data (MAX_REORG_LENGTH is below          *)
(* MIN_BLOCKS_TO_KEEP), unless the step began below a tip the files were    *)
(* pruned for, to which a crash has put the node back.  A step that begins  *)
(* at the greatest height leads one block above it.                         *)
ReorgFindsData == phase = "failed" => Height(goal) <= highest

=============================================================================
