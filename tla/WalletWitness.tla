---------------------------- MODULE WalletWitness ----------------------------
(***************************************************************************)
(* The wallet's cache of note witnesses (wallet.cpp): for every note the   *)
(* wallet keeps the witness after each of the last WITNESS_CACHE_SIZE      *)
(* blocks, so that it can step back when blocks are disconnected.  The     *)
(* notifier (NotifyWallets) walks the wallet from block to block; every    *)
(* so often SetBestChain writes all notes together with a locator; single  *)
(* transactions are written whenever they are touched; on a restart the    *)
(* wallet is rescanned from the locator on.                                *)
(*                                                                         *)
(* A transaction has one shielded output.  A commitment tree is the        *)
(* sequence of the outputs appended to it, and so is a witness: appending  *)
(* a commitment to it is what IncrementalWitness::append does to its root. *)
(***************************************************************************)
EXTENDS BlockTree, Integers, Sequences, SequencesExt

CONSTANTS
    Txs,
    TxsOf,         \* the shielded outputs of a block, in order
    Mine,          \* transactions with an output to this wallet
    CacheSize,     \* WITNESS_CACHE_SIZE
    MaxReorg,      \* MAX_REORG_LENGTH
    Birth          \* the tip when the wallet file was created

ASSUME WitnessAssumption ==
    /\ TxsOf \in [Blocks -> Seq(Txs)] /\ Mine \subseteq Txs
    /\ MaxReorg \in Nat /\ CacheSize = MaxReorg + 1 /\ Birth \in Blocks

TxsIn(b) == UNION {ToSet(TxsOf[c]) : c \in Chain(b)}

(* The commitment tree after block b. *)
Tree(b) ==
    LET tree[c \in Blocks] == IF c = Genesis THEN TxsOf[c] ELSE tree[Parent[c]] \o TxsOf[c]
    IN  tree[b]

(* The n-th ancestor of b. *)
Ancestor(b, n) == CHOOSE c \in Chain(b) : Height(c) = Height(b) - n

(* The child of a on the way up to b. *)
Towards(a, b) == CHOOSE c \in Chain(b) : c # Genesis /\ Parent[c] = a

VARIABLES
    tip,        \* chainActive.Tip()
    flushedTip, \* the best block of the coins database
    goal,       \* the tip the notifier collected in this cycle
    view,       \* pindexLastTip: where the wallet has been led to
    wallet,     \* mapWallet and nWitnessCacheSize
    file,       \* the same in wallet.dat, with the locator's first block
    failed,     \* the assertion that ended the process, or "none"
    rolledBack, \* history: a disconnect was notified since SetBestChain
    diverged    \* history: the wallet file did not fit the chain of a restart

chainVars == <<tip, flushedTip>>
witnessVars == <<tip, flushedTip, goal, view, wallet, file, failed, rolledBack, diverged>>

Alive == failed = "none"

NewNote == [witnesses |-> <<>>, witnessHeight |-> -1]
NewWallet == [notes |-> [t \in {} |-> NewNote], nWitnessCacheSize |-> 0]

(* A wallet file created at Birth: SetBestChain(chainActive.GetLocator()). *)
InitWitness ==
    /\ tip = Birth /\ flushedTip = Birth /\ goal = Birth /\ view = Birth
    /\ wallet = NewWallet /\ file = [wallet |-> NewWallet, best |-> Birth]
    /\ failed = "none" /\ rolledBack = FALSE /\ diverged = FALSE

----------------------------------------------------------------------------
(* The caches *)

(* AddToWallet of the wallet's transactions among S: known ones keep their  *)
(* note data.                                                               *)
AddToWallet(w, S) ==
    [w EXCEPT !.notes = [t \in DOMAIN @ \cup (S \cap Mine) |->
        IF t \in DOMAIN @ THEN @[t] ELSE NewNote]]

(* WriteTx of the transactions of S. *)
WriteTxs(f, w, S) ==
    [f EXCEPT !.wallet.notes = [t \in DOMAIN @ \cup (S \cap Mine) |->
        IF t \in S THEN w.notes[t] ELSE @[t]]]

(* One note in IncrementNoteWitnesses: CopyPreviousWitnesses, then          *)
(* AppendNoteCommitment for each output of the block, WitnessNoteIfMine for *)
(* the note's own, and UpdateWitnessHeights.                                *)
Incremented_CacheTooSmall(nd, t, b) ==
    LET full == <<Head(nd.witnesses) \o TxsOf[b]>> \o nd.witnesses
    IN  IF nd.witnessHeight >= Height(b) THEN nd
        ELSE [witnessHeight |-> Height(b),
              witnesses |-> IF t \in ToSet(TxsOf[b]) THEN <<Tree(b)>>
                            ELSE IF nd.witnesses = <<>> THEN <<>>
                            ELSE SubSeq(full, 1, IF Len(full) >= CacheSize THEN CacheSize - 1 ELSE Len(full))]
Incremented(nd, t, b) ==
    LET full == <<Head(nd.witnesses) \o TxsOf[b]>> \o nd.witnesses
    IN  IF nd.witnessHeight >= Height(b) THEN nd
        ELSE [witnessHeight |-> Height(b),
              witnesses |-> IF t \in ToSet(TxsOf[b]) THEN <<Tree(b)>>
                            ELSE IF nd.witnesses = <<>> THEN <<>>
                            ELSE SubSeq(full, 1, IF Len(full) > CacheSize THEN CacheSize ELSE Len(full))]

IncrementNoteWitnesses(w, b) ==
    [notes |-> [t \in DOMAIN w.notes |-> Incremented(w.notes[t], t, b)],
     nWitnessCacheSize |-> IF w.nWitnessCacheSize < CacheSize
                           THEN w.nWitnessCacheSize + 1 ELSE w.nWitnessCacheSize]

(* The assertions on the way. *)
IncrementAsserts(w, b) ==
    \A t \in DOMAIN w.notes : w.notes[t].witnessHeight < Height(b) =>
        /\ w.nWitnessCacheSize >= Len(w.notes[t].witnesses)
        /\ w.notes[t].witnessHeight \in {-1, Height(b) - 1}
        /\ IncrementNoteWitnesses(w, b).nWitnessCacheSize >= Len(Incremented(w.notes[t], t, b).witnesses)

Decremented(nd, b) ==
    IF nd.witnessHeight <= Height(b)
    THEN [witnesses |-> IF nd.witnesses = <<>> THEN <<>> ELSE Tail(nd.witnesses),
          witnessHeight |-> Height(b) - 1]
    ELSE nd

DecrementNoteWitnesses(w, b) ==
    [notes |-> [t \in DOMAIN w.notes |-> Decremented(w.notes[t], b)],
     nWitnessCacheSize |-> w.nWitnessCacheSize - 1]

(* The assertions on the notes; nWitnessCacheSize > 0 comes after them.  In *)
(* the comparison with size() an nWitnessCacheSize - 1 of -1 is unsigned.   *)
DecrementAsserts(w, b) ==
    \A t \in DOMAIN w.notes :
        /\ w.notes[t].witnessHeight <= Height(b) =>
            /\ w.nWitnessCacheSize >= Len(w.notes[t].witnesses)
            /\ w.notes[t].witnessHeight \in {-1, Height(b)}
        /\ Decremented(w.notes[t], b).witnessHeight < Height(b) =>
            \/ w.nWitnessCacheSize - 1 >= Len(Decremented(w.notes[t], b).witnesses)
            \/ w.nWitnessCacheSize = 0

----------------------------------------------------------------------------
(* The chain *)

(* ActivateBestChain moves to a chain with more work (blocks of equal work) *)
(* but refuses to undo more than MAX_REORG_LENGTH blocks.                   *)
ActivateBestChain(b) ==
    /\ Alive
    /\ Height(b) > Height(tip) /\ Height(tip) - Height(Fork(b, tip)) <= MaxReorg
    /\ tip' = b
    /\ UNCHANGED <<flushedTip, goal, view, wallet, file, failed, rolledBack, diverged>>

FlushStateToDisk ==
    /\ Alive /\ flushedTip' = tip
    /\ UNCHANGED <<tip, goal, view, wallet, file, failed, rolledBack, diverged>>

----------------------------------------------------------------------------
(* Notifications *)

Collect ==
    /\ Alive /\ view = goal /\ goal' = tip
    /\ UNCHANGED <<chainVars, view, wallet, file, failed, rolledBack, diverged>>

(* SyncTransaction writes the block's transactions, then ChainTip steps     *)
(* the caches back.                                                         *)
NotifyDisconnect ==
    /\ Alive /\ view \notin Chain(goal)
    /\ LET S == ToSet(TxsOf[view])
           w == AddToWallet(wallet, S)
       IN  /\ file' = WriteTxs(file, w, S \cap Mine)
           /\ wallet' = DecrementNoteWitnesses(w, view)
           /\ failed' = IF ~DecrementAsserts(w, view) THEN "witnesses"
                        ELSE IF wallet'.nWitnessCacheSize <= 0 THEN "cacheSize" ELSE "none"
    /\ view' = Parent[view] /\ rolledBack' = TRUE
    /\ UNCHANGED <<chainVars, goal, diverged>>

(* SetBestChain: everything at once, in a database transaction. *)
SetBestChain_ForgetsCacheSize(w, b) == [wallet |-> [w EXCEPT !.nWitnessCacheSize = 0], best |-> b]
SetBestChain(w, b) == [wallet |-> w, best |-> b]

(* ... and for a connected block forward; ChainTipAdded calls SetBestChain  *)
(* when enough time or blocks have passed.                                  *)
NotifyConnect ==
    /\ Alive /\ view \in Chain(goal) /\ view # goal
    /\ LET b == Towards(view, goal)
           S == ToSet(TxsOf[b])
           w == AddToWallet(wallet, S)
       IN  /\ view' = b
           /\ wallet' = IncrementNoteWitnesses(w, b)
           /\ failed' = IF IncrementAsserts(w, b) THEN "none" ELSE "witnesses"
           /\ \/ file' = WriteTxs(file, w, S \cap Mine) /\ rolledBack' = rolledBack
              \/ /\ Alive'
                 /\ file' = SetBestChain(wallet', b) /\ rolledBack' = FALSE
    /\ UNCHANGED <<chainVars, goal, diverged>>

(* A transaction of ours was in the mempool when the notifier collected and *)
(* is notified.  One the wallet knows, from a block that was disconnected,  *)
(* keeps its note data and is written again: UpdatedNoteData finds another  *)
(* witnessHeight than the -1 of the new data.                               *)
NotifyMempool(t) ==
    /\ Alive /\ view = goal /\ t \notin TxsIn(goal)
    /\ wallet' = AddToWallet(wallet, {t})
    /\ file' = WriteTxs(file, wallet', {t})
    /\ UNCHANGED <<chainVars, goal, view, failed, rolledBack, diverged>>

Running ==
    \/ \E b \in Blocks : ActivateBestChain(b)
    \/ FlushStateToDisk \/ Collect
    \/ NotifyDisconnect \/ NotifyConnect
    \/ \E t \in Mine : NotifyMempool(t)

----------------------------------------------------------------------------
(* Restarts *)

(* ScanForWalletTransactions from block a up to the tip t. *)
PathUp(a, t) ==
    LET path[b \in Blocks] == IF b = a THEN <<a>> ELSE Append(path[Parent[b]], b)
    IN  path[t]

ScanStep(acc, b) ==
    LET w == AddToWallet(acc.wallet, ToSet(TxsOf[b]))
    IN  [wallet |-> IncrementNoteWitnesses(w, b), ok |-> acc.ok /\ IncrementAsserts(w, b)]

ScanForWalletTransactions(w, a, t) == FoldLeft(ScanStep, [wallet |-> w, ok |-> TRUE], PathUp(a, t))

(* The node comes back at the chain it flushed: all of it after a clean     *)
(* shutdown, an older tip after a crash.  InitLoadWallet loads the file and *)
(* rescans from where its locator meets the chain, unless that is the tip.  *)
Restart ==
    \E t \in IF Alive THEN {tip, flushedTip} ELSE {flushedTip} :
        LET pindexRescan == Fork(file.best, t)
            scan == ScanForWalletTransactions(file.wallet, pindexRescan, t)
        IN  /\ tip' = t /\ flushedTip' = t /\ goal' = t /\ view' = t
            /\ diverged' = (diverged \/ rolledBack \/ view \notin Chain(t)
                               \/ Height(t) < Height(goal))
            /\ IF pindexRescan = t
               THEN /\ wallet' = file.wallet /\ failed' = "none"
                    /\ UNCHANGED <<file, rolledBack>>
               ELSE /\ wallet' = scan.wallet
                    /\ failed' = IF scan.ok THEN "none" ELSE "witnesses"
                    /\ IF scan.ok
                       THEN file' = SetBestChain(scan.wallet, t) /\ rolledBack' = FALSE
                       ELSE UNCHANGED <<file, rolledBack>>

SpecWitness == InitWitness /\ [][Running \/ Restart]_witnessVars

----------------------------------------------------------------------------
(* Properties *)

NoteType == [witnesses : Seq(Seq(Txs)), witnessHeight : Int]

(* Shape of the state; no note has more witnesses than WITNESS_CACHE_SIZE   *)
(* in memory or in the wallet file.                                         *)
WitnessTypeOK ==
    /\ {tip, flushedTip, goal, view, file.best} \subseteq Blocks
    /\ \A w \in {wallet, file.wallet} :
        /\ DOMAIN w.notes \subseteq Mine
        /\ \A t \in DOMAIN w.notes :
            /\ w.notes[t] \in NoteType
            /\ Len(w.notes[t].witnesses) <= CacheSize /\ w.notes[t].witnessHeight >= -1
        /\ w.nWitnessCacheSize \in -1 .. CacheSize
    /\ failed \in {"none", "witnesses", "cacheSize"}

(* What a restart assumes: each one found a chain that extends the block    *)
(* the wallet was at and is no shorter than the one it was being led to,    *)
(* and the wallet had written its caches since it last stepped back.        *)
(* Nothing resets diverged, so TLC need not go on without.                  *)
OnlyFittingRestarts == ~diverged

(* A note can be spent exactly while its transaction is in the chain the    *)
(* wallet was told of: it has a witness then and none otherwise, and the    *)
(* i-th leads to the commitment tree i-1 blocks below the block the wallet  *)
(* is at, also after a reorganisation as deep as the node allows and after  *)
(* a restart (IncrementNoteWitnesses, DecrementNoteWitnesses, the rescan).  *)
WitnessesMatchChain ==
    Alive /\ ~diverged => \A t \in DOMAIN wallet.notes :
        LET nd == wallet.notes[t]
        IN  /\ nd.witnesses # <<>> <=> t \in TxsIn(view)
            /\ nd.witnessHeight = Height(view) =>
                \A i \in DOMAIN nd.witnesses : nd.witnesses[i] = Tree(Ancestor(view, i - 1))

(* The assertions of the increment and the decrement hold while blocks are *)
(* notified and in the rescan after a restart, all but one: a wallet that  *)
(* is led back to the block it was born at, or below, has nWitnessCacheSize*)
(* at 0.  A reorganisation above its first block never uses up the caches. *)
OnlyBirthAborts ==
    /\ WitnessTypeOK
    /\ ~Alive /\ ~diverged => failed = "cacheSize" /\ view \in Chain(Birth)

=============================================================================
