----------------------------- MODULE ChainState -----------------------------
(***************************************************************************)
(* The block index and the choice of the active chain (main.cpp): headers  *)
(* and blocks arrive in any order, ReceivedBlockTransactions links them,   *)
(* ActivateBestChain moves the tip towards the candidate with most work,   *)
(* and the RPCs invalidateblock and reconsiderblock overrule it.           *)
(*                                                                         *)
(* Each action is one critical section on cs_main.  ActivateBestChain      *)
(* gives the lock up after every ActivateBestChainStep and keeps the       *)
(* target it was moving to, pindexMostWork, in a local variable: threads   *)
(* interleave there.                                                       *)
(*                                                                         *)
(* Abstractions.  The tree of blocks that may ever be seen is constant;    *)
(* what is wrong with a block (its header is always in order) is the set   *)
(* it belongs to.  Pruning, best-header and best-invalid (which only feed  *)
(* downloads and warnings), the mempool and the disk are not here: reads   *)
(* and writes of the node's own files succeed.                             *)
(***************************************************************************)
EXTENDS Integers, FiniteSets

CONSTANTS
    Blocks, Genesis,
    Parent,          \* pprev; Parent[Genesis] is NoBlock
    Height,          \* nHeight
    Anc,             \* Anc[b]: b and all its ancestors
    Work,            \* nChainWork
    Address,         \* order of the CBlockIndex objects in memory
    Loaded,          \* blocks LoadBlockIndexDB found with their data
    BadBlocks,       \* fail CheckBlock or ContextualCheckBlock
    BadConnects,     \* fail ConnectBlock (scripts, proofs, amounts)
    Threads,         \* message handler, miners, RPC workers
    Operations,      \* what the threads are asked to do
    MAX_REORG_LENGTH, MIN_BLOCKS_TO_KEEP,
    NoBlock          \* NULL

ASSUME ChainStateAssumption ==
    /\ IsFiniteSet(Blocks) /\ Genesis \in Blocks /\ NoBlock \notin Blocks
    /\ Parent \in [Blocks -> Blocks \cup {NoBlock}]
    /\ Height \in [Blocks -> Nat] /\ Work \in [Blocks -> Nat]
    /\ Address \in [Blocks -> Nat]
    /\ \A b, c \in Blocks : b # c => Address[b] # Address[c]
    /\ Anc \in [Blocks -> SUBSET Blocks]
    /\ Parent[Genesis] = NoBlock /\ Anc[Genesis] = {Genesis} /\ Height[Genesis] = 0
    /\ \A b \in Blocks \ {Genesis} :
          /\ Parent[b] \in Blocks
          /\ Anc[b] = {b} \cup Anc[Parent[b]]
          /\ b \notin Anc[Parent[b]]
          /\ Height[b] = Height[Parent[b]] + 1
          /\ Work[b] > Work[Parent[b]]
    /\ \A b \in Blocks : Genesis \in Anc[b]
    /\ Loaded \subseteq Blocks /\ Genesis \in Loaded
    /\ \A b \in Loaded : Anc[b] \subseteq Loaded
    /\ BadBlocks \subseteq Blocks \ Loaded
    /\ BadConnects \subseteq Blocks \ {Genesis}
    /\ Operations \subseteq {"header", "block", "invalidate", "reconsider"}
    /\ MAX_REORG_LENGTH \in Nat \ {0} /\ MIN_BLOCKS_TO_KEEP \in Nat

VARIABLES
    known,             \* mapBlockIndex
    data,              \* nTx > 0, BLOCK_HAVE_DATA, BLOCK_VALID_TRANSACTIONS
    linked,            \* nChainTx > 0
    scripts,           \* BLOCK_VALID_SCRIPTS
    failedValid,       \* BLOCK_FAILED_VALID
    failedChild,       \* BLOCK_FAILED_CHILD
    seq,               \* nSequenceId
    nBlockSequenceId,
    candidates,        \* setBlockIndexCandidates
    unlinked,          \* second components of mapBlocksUnlinked
    tip,               \* chainActive.Tip()
    pc,                \* idle, or inside ActivateBestChain
    mostWork,          \* each thread's pindexMostWork
    shutdown,          \* StartShutdown() was called
    reconsidered,      \* history: reconsiderblock was called
    raced              \* history: a step was made with a stale target

vars == <<known, data, linked, scripts, failedValid, failedChild, seq,
          nBlockSequenceId, candidates, unlinked, tip, pc, mostWork, shutdown,
          reconsidered, raced>>

failed == failedValid \cup failedChild     \* BLOCK_FAILED_MASK
active == Anc[tip]                         \* chainActive
Descendants(b) == {c \in known : b \in Anc[c]}

\* CBlockIndexWorkComparator with sequence ids s: a sorts before (is worse
\* than) b.
Less(s, a, b) ==
    \/ Work[a] < Work[b]
    \/ Work[a] = Work[b] /\ s[a] > s[b]
    \/ Work[a] = Work[b] /\ s[a] = s[b] /\ Address[a] > Address[b]

Worse(a, b) == Less(seq, a, b)

\* After LoadBlockIndexDB: the loaded blocks have sequence id 0, the coins
\* database names the tip, and ThreadImport is about to activate.
Init ==
    /\ known = Loaded /\ data = Loaded /\ linked = Loaded
    /\ failedValid = {} /\ failedChild = {}
    /\ seq = [b \in Blocks |-> 0]
    /\ nBlockSequenceId = 1
    /\ tip \in {b \in Loaded : Anc[b] \cap BadConnects = {}}
    /\ scripts = active \ {Genesis}
    /\ candidates = {b \in Loaded : ~Worse(b, tip)}
    /\ unlinked = {}
    /\ \E t \in Threads : pc = [u \in Threads |-> IF u = t THEN "activate" ELSE "idle"]
    /\ mostWork = [t \in Threads |-> NoBlock]
    /\ shutdown = FALSE /\ reconsidered = FALSE /\ raced = FALSE

-----------------------------------------------------------------------------
(* AcceptBlockHeader and ProcessNewBlock. *)

HeaderAccepted(b) ==
    IF b \in known THEN b \notin failed
    ELSE b # Genesis /\ Parent[b] \in known \ failed

\* A headers message: nothing is activated.
AcceptBlockHeader(t, b) ==
    /\ "header" \in Operations
    /\ pc[t] = "idle"
    /\ b \notin known /\ HeaderAccepted(b)
    /\ known' = known \cup {b}
    /\ UNCHANGED <<data, linked, scripts, failedValid, failedChild, seq,
                   nBlockSequenceId, candidates, unlinked, tip, pc, mostWork,
                   shutdown, reconsidered, raced>>

\* AcceptBlock keeps a block only if it is new and, when nobody asked for it,
\* has more work than the tip and is not too far ahead of it.
Wanted(b, fRequested) ==
    /\ b \notin data
    /\ fRequested \/ ( /\ Work[b] > Work[tip]
                       /\ Height[b] <= Height[tip] + MIN_BLOCKS_TO_KEEP )

\* AcceptBlock returns early with success: ActivateBestChain is run anyway.
ProcessUnwantedBlock(t, b, fRequested) ==
    /\ "block" \in Operations
    /\ pc[t] = "idle"
    /\ HeaderAccepted(b) /\ ~Wanted(b, fRequested)
    /\ known' = known \cup {b}
    /\ pc' = [pc EXCEPT ![t] = "activate"]
    /\ UNCHANGED <<data, linked, scripts, failedValid, failedChild, seq,
                   nBlockSequenceId, candidates, unlinked, tip, mostWork, shutdown, reconsidered, raced>>

\* CheckBlock fails.  The block is marked unless its transactions may have
\* been mangled on the way (CorruptionPossible).
ProcessBadBlock(t, b, fRequested, corrupt) ==
    /\ "block" \in Operations
    /\ pc[t] = "idle"
    /\ HeaderAccepted(b) /\ Wanted(b, fRequested)
    /\ b \in BadBlocks \/ corrupt
    /\ known' = known \cup {b}
    /\ failedValid' = IF corrupt THEN failedValid ELSE failedValid \cup {b}
    /\ UNCHANGED <<data, linked, scripts, failedChild, seq, nBlockSequenceId,
                   candidates, unlinked, tip, pc, mostWork,
                   shutdown, reconsidered, raced>>

\* Variant: only the block itself is linked, not the blocks waiting for it.
NowLinked_NoDescendants(b) == IF Parent[b] \in linked THEN {b} ELSE {}

\* ReceivedBlockTransactions: the blocks that become linked when b arrives, b
\* and whatever mapBlocksUnlinked holds below it.
NowLinked(b) ==
    IF Parent[b] \notin linked THEN {}
    ELSE {c \in Blocks : b \in Anc[c] /\ Anc[c] \ Anc[b] \subseteq unlinked}

\* The queue hands out sequence ids breadth first.
Numberings(S) ==
    {f \in [S -> nBlockSequenceId .. (nBlockSequenceId + Cardinality(S) - 1)] :
        \A x, y \in S : x # y => /\ f[x] # f[y]
                                 /\ Height[x] < Height[y] => f[x] < f[y]}

\* mapBlocksUnlinked afterwards: what became linked leaves it, and a block
\* whose parent is not linked is filed there unless the parent has failed.
UnlinkedAfter(b) ==
    IF Parent[b] \in linked THEN unlinked \ NowLinked(b)
    ELSE IF Parent[b] \notin failed THEN unlinked \cup {b} ELSE unlinked

ProcessNewBlock(t, b, fRequested) ==
    /\ "block" \in Operations
    /\ pc[t] = "idle"
    /\ HeaderAccepted(b) /\ Wanted(b, fRequested)
    /\ b \notin BadBlocks
    /\ known' = known \cup {b}
    /\ data' = data \cup {b}
    /\ linked' = linked \cup NowLinked(b)
    /\ \E f \in Numberings(NowLinked(b)) :
          seq' = [c \in Blocks |-> IF c \in NowLinked(b) THEN f[c] ELSE seq[c]]
    /\ nBlockSequenceId' = nBlockSequenceId + Cardinality(NowLinked(b))
    /\ candidates' = candidates \cup {c \in NowLinked(b) : ~Less(seq', c, tip)}
    /\ unlinked' = UnlinkedAfter(b)
    /\ pc' = [pc EXCEPT ![t] = "activate"]
    /\ UNCHANGED <<scripts, failedValid, failedChild, tip, mostWork, shutdown, reconsidered, raced>>

-----------------------------------------------------------------------------
(* FindMostWorkChain.  Its loop drops the best candidate as long as a      *)
(* failed block lies between it and the active chain.                      *)

Path(b) == Anc[b] \ active

\* Variant: only the marks of the candidate itself are looked at.
Usable_IgnoresAncestors(b) == b \notin failed

Usable(b) == Path(b) \cap failed = {}

\* The candidates the loop looks at and drops: all that beat every usable one.
Skipped == {c \in candidates : \A d \in candidates : Usable(d) => Worse(d, c)}

\* The failed block the walk down from c meets first.
FirstFailed(c) ==
    CHOOSE a \in Path(c) \cap failed : \A x \in Path(c) \cap failed : Height[x] <= Height[a]

Removed == UNION {{a \in Path(c) : Height[a] >= Height[FirstFailed(c)]} : c \in Skipped}

\* Variant: the whole branch is marked, also below the failed block.
MarkedFailed_WholeBranch == UNION {Path(c) : c \in Skipped}

MarkedFailed == UNION {{a \in Path(c) : Height[a] > Height[FirstFailed(c)]} : c \in Skipped}

FindMostWorkChain ==
    LET ok == {c \in candidates : Usable(c)}
    IN IF ok = {} THEN NoBlock ELSE CHOOSE c \in ok : \A d \in ok \ {c} : Worse(d, c)

\* The target of the next step of thread t, and what finding it leaves of the
\* candidates and of the failure marks.
Target(t) == IF mostWork[t] = NoBlock THEN FindMostWorkChain ELSE mostWork[t]
CandidatesAfterFind(t) == IF mostWork[t] = NoBlock THEN candidates \ Removed ELSE candidates
FailedChildAfterFind(t) ==
    IF mostWork[t] = NoBlock THEN failedChild \cup MarkedFailed ELSE failedChild

-----------------------------------------------------------------------------
(* ActivateBestChain. *)

\* The target was kept while cs_main was released, and FindMostWorkChain would
\* now give another one.
Stale(t) == mostWork[t] \notin {NoBlock, FindMostWorkChain}

\* Nothing to do: no candidate, or the target is the tip.
ActivationDone(t) ==
    /\ pc[t] = "activate"
    /\ Target(t) \in {NoBlock, tip}
    /\ candidates' = CandidatesAfterFind(t)
    /\ failedChild' = FailedChildAfterFind(t)
    /\ pc' = [pc EXCEPT ![t] = "idle"]
    /\ mostWork' = [mostWork EXCEPT ![t] = NoBlock]
    /\ raced' = (raced \/ Stale(t))
    /\ UNCHANGED <<known, data, linked, scripts, failedValid, seq, nBlockSequenceId,
                   unlinked, tip, shutdown, reconsidered>>

\* chainActive.FindFork
Fork(b) == CHOOSE f \in active \cap Anc[b] : \A x \in active \cap Anc[b] : Height[x] <= Height[f]

\* A reorganisation that rolls back too much stops the node instead.
ReorgTooLong(t) ==
    /\ pc[t] = "activate"
    /\ Target(t) \notin {NoBlock, tip}
    /\ Height[tip] - Height[Fork(Target(t))] > MAX_REORG_LENGTH
    /\ candidates' = CandidatesAfterFind(t)
    /\ failedChild' = FailedChildAfterFind(t)
    /\ shutdown' = TRUE
    /\ pc' = [pc EXCEPT ![t] = "idle"]
    /\ mostWork' = [mostWork EXCEPT ![t] = NoBlock]
    /\ raced' = (raced \/ Stale(t))
    /\ UNCHANGED <<known, data, linked, scripts, failedValid, seq, nBlockSequenceId,
                   unlinked, tip, reconsidered>>

\* Variant: one block at a time, whatever the work of the old tip.
StopAt_FirstBlock(b) ==
    IF Path(b) = {} THEN Fork(b)
    ELSE CHOOSE c \in Path(b) : \A x \in Path(b) : Height[c] <= Height[x]

\* Blocks are connected from the fork upwards until one fails, one has more
\* work than the old tip, or the target is reached: where that happens.
StopAt(b) ==
    LET stops == {c \in Path(b) : c \in BadConnects \/ Work[c] > Work[tip] \/ c = b}
    IN IF Path(b) = {} THEN Fork(b)
       ELSE CHOOSE c \in stops : \A x \in stops : Height[c] <= Height[x]

PruneBlockIndexCandidates(S, newTip) == {c \in S : ~Worse(c, newTip)}

\* Variant: the target is kept after it turned out to hold an invalid block.
NextTarget_KeptAfterInvalid(b, invalid) == b

\* "Wipe cache, we may need another branch now."
NextTarget(b, invalid) == IF invalid THEN NoBlock ELSE b

\* ActivateBestChainStep: disconnect to the fork, connect up to StopAt, mark
\* the block that failed to connect (InvalidBlockFound).
ActivateBestChainStep(t) ==
    /\ pc[t] = "activate"
    /\ Target(t) \notin {NoBlock, tip}
    /\ LET b == Target(t)
           stop == StopAt(b)
           invalid == stop \in BadConnects
           newTip == IF invalid THEN Parent[stop] ELSE stop
           connected == Anc[newTip] \cap Path(b)
           left == IF connected = {} THEN CandidatesAfterFind(t)
                   ELSE PruneBlockIndexCandidates(CandidatesAfterFind(t), newTip)
       IN /\ Height[tip] - Height[Fork(b)] <= MAX_REORG_LENGTH
          /\ tip' = newTip
          /\ candidates' = IF invalid THEN left \ {stop} ELSE left
          /\ failedValid' = IF invalid THEN failedValid \cup {stop} ELSE failedValid
          /\ failedChild' = FailedChildAfterFind(t)
          /\ scripts' = scripts \cup (connected \ (failedValid \cup failedChild'))
          /\ mostWork' = [mostWork EXCEPT ![t] =
                              IF newTip = NextTarget(b, invalid) THEN NoBlock
                              ELSE NextTarget(b, invalid)]
          /\ pc' = [pc EXCEPT ![t] =
                        IF newTip = NextTarget(b, invalid) THEN "idle" ELSE "activate"]
    /\ raced' = (raced \/ Stale(t))
    /\ UNCHANGED <<known, data, linked, seq, nBlockSequenceId, unlinked, shutdown, reconsidered>>

-----------------------------------------------------------------------------
(* The RPCs.  Both end in ActivateBestChain, outside the lock. *)

\* Blocks of the active chain that invalidating b disconnects.
Disconnected(b) == IF b \in active THEN {c \in active : b \in Anc[c]} ELSE {}

\* Variant: the chain left behind is not put back among the candidates.
CandidatesAfterInvalidate_NotRefilled(b, newTip) == candidates \ ({b} \cup Disconnected(b))

\* "The resulting new best tip may not be in setBlockIndexCandidates anymore,
\* so add it again."
CandidatesAfterInvalidate(b, newTip) ==
    LET gone == {b} \cup Disconnected(b)
    IN (candidates \ gone)
         \cup {c \in (data \cap linked) \ (failed \cup gone) : ~Worse(c, newTip)}

InvalidateBlock(t, b) ==
    /\ "invalidate" \in Operations
    /\ pc[t] = "idle"
    /\ b \in known \ {Genesis}
    /\ LET newTip == IF b \in active THEN Parent[b] ELSE tip
       IN /\ tip' = newTip
          /\ candidates' = CandidatesAfterInvalidate(b, newTip)
    /\ failedValid' = failedValid \cup {b}
    /\ failedChild' = failedChild \cup Disconnected(b)
    /\ pc' = [pc EXCEPT ![t] = "activate"]
    /\ UNCHANGED <<known, data, linked, scripts, seq, nBlockSequenceId, unlinked,
                   mostWork, shutdown, reconsidered, raced>>

\* The marks of b, of its descendants and of its ancestors are cleared.
ReconsiderBlock(t, b) ==
    /\ "reconsider" \in Operations
    /\ pc[t] = "idle"
    /\ b \in known
    /\ LET cleared == Descendants(b) \cup Anc[b]
           reset == {c \in Descendants(b) : c \in failed \/ c \notin data}
       IN /\ failedValid' = failedValid \ cleared
          /\ failedChild' = failedChild \ cleared
          /\ candidates' = candidates
                 \cup {c \in reset \cap data \cap linked : Worse(tip, c)}
    /\ reconsidered' = TRUE
    /\ pc' = [pc EXCEPT ![t] = "activate"]
    /\ UNCHANGED <<known, data, linked, scripts, seq, nBlockSequenceId, unlinked,
                   tip, mostWork, shutdown, raced>>

-----------------------------------------------------------------------------
Activate(t) == ActivationDone(t) \/ ReorgTooLong(t) \/ ActivateBestChainStep(t)

Next ==
    \/ \E t \in Threads, b \in Blocks : AcceptBlockHeader(t, b)
    \/ \E t \in Threads, b \in Blocks, r \in BOOLEAN : ProcessUnwantedBlock(t, b, r)
    \/ \E t \in Threads, b \in Blocks, r, c \in BOOLEAN : ProcessBadBlock(t, b, r, c)
    \/ \E t \in Threads, b \in Blocks, r \in BOOLEAN : ProcessNewBlock(t, b, r)
    \/ \E t \in Threads : ActivationDone(t)
    \/ \E t \in Threads : ReorgTooLong(t)
    \/ \E t \in Threads : ActivateBestChainStep(t)
    \/ \E t \in Threads, b \in Blocks : InvalidateBlock(t, b)
    \/ \E t \in Threads, b \in Blocks : ReconsiderBlock(t, b)

Spec == Init /\ [][Next]_vars

\* A step of ActivateBestChain that would leave everything as it is: it fails
\* again at the block it failed at before.
Spins(t) ==
    LET b == mostWork[t]
    IN  /\ pc[t] = "activate" /\ b # NoBlock /\ NextTarget(b, TRUE) = b
        /\ StopAt(b) \in BadConnects \cap failedValid /\ Parent[StopAt(b)] = tip

\* A thread inside ActivateBestChain keeps going: weak fairness of Activate(t),
\* with its enabling condition written out.  Nothing is assumed of peers and
\* users.
FairSpec ==
    /\ Spec
    /\ \A t \in Threads : []<>(pc[t] = "idle" \/ Spins(t)) \/ []<><<Activate(t)>>_vars

-----------------------------------------------------------------------------
(* Properties.  CheckBlockIndex asserts many of them; the code runs it      *)
(* only with -checkblockindex.                                              *)

(* Shape of the state; the flags of CBlockIndex nest (scripts checked,      *)
(* linked, data, known), and only linked blocks are candidates or the tip.  *)
TypeOK ==
    /\ known \subseteq Blocks /\ data \subseteq known /\ linked \subseteq data
    /\ scripts \subseteq linked
    /\ failedValid \subseteq known /\ failedChild \subseteq known
    /\ seq \in [Blocks -> Nat] /\ nBlockSequenceId \in Nat \ {0}
    /\ candidates \subseteq linked /\ unlinked \subseteq data
    /\ tip \in linked
    /\ pc \in [Threads -> {"idle", "activate"}]
    /\ mostWork \in [Threads -> Blocks \cup {NoBlock}]
    /\ \A t \in Threads : pc[t] = "idle" => mostWork[t] = NoBlock
    /\ shutdown \in BOOLEAN /\ reconsidered \in BOOLEAN

\* "nChainTx != 0 is used to signal that all parent blocks have been
\* processed": in whatever order the blocks of a branch arrive, a block is
\* linked exactly when it and all its ancestors have arrived, only linked
\* blocks have a sequence id, and a block with data waits in mapBlocksUnlinked
\* exactly while an ancestor is missing.  (Not so above an invalid block: its
\* children are not filed there, ReceivedBlockTransactions does not find them
\* when a missing block below arrives, and they stay unlinked for ever, also
\* when reconsiderblock clears the mark.)
LinkingIsExact ==
    /\ \A b \in linked : Anc[b] \subseteq data
    /\ \A b \in known : seq[b] # 0 => b \in linked
    /\ unlinked \cap linked = {}
    /\ ~reconsidered =>
        \A b \in known : Anc[b] \cap failedValid = {} =>
            /\ Anc[b] \subseteq data => b \in linked
            /\ b \in data \ linked => b \in unlinked

\* "The failed mask cannot be set for blocks without invalid parents", as long
\* as reconsiderblock, which clears a parent and leaves the marks of its other
\* children, was not called.
FailureHasACause == ~reconsidered => \A b \in failed : Anc[b] \cap failedValid # {}

quiescent == \A t \in Threads : pc[t] = "idle"

\* When no thread is between two steps of ActivateBestChain, none took a step
\* towards a stale target, and the node is not stopping because of a
\* reorganisation too long for it, every block that
\* could replace the tip, and the tip itself, is a candidate ("it must be in
\* setBlockIndexCandidates"), also after invalidateblock moved the tip back
\* below blocks that had been pruned from the set.  (reconsiderblock makes its
\* argument a candidate again, not the ancestors it clears.)  At all times
\* candidates are linked blocks, none of them worse than the tip.
CandidatesComplete ==
    /\ TypeOK
    /\ \A c \in candidates : ~Worse(c, tip)
    /\ (~shutdown /\ quiescent /\ ~reconsidered /\ ~raced) =>
           \A b \in linked :
               ~Worse(b, tip) /\ Anc[b] \cap failedValid = {} => b \in candidates

\* ActivateBestChain considers blocks already in chainActive unconditionally
\* valid: none of them is marked failed or would fail its checks, and all were
\* fully validated.  (A thread with a stale target connects it even if it was
\* invalidated meanwhile.)
ActiveChainValid ==
    ~raced => /\ active \cap (failed \cup BadBlocks \cup BadConnects) = {}
              /\ active \ {Genesis} \subseteq scripts

\* "The result is either failure or an activated best chain": when no thread is
\* left in ActivateBestChain, no complete chain without a failed block is
\* better than the active one, unless a step was made with a stale target.
BestChainActive ==
    (~shutdown /\ quiescent /\ ~reconsidered /\ ~raced) =>
        \A b \in linked : Worse(tip, b) => Anc[b] \cap failed # {}

\* Work is given up only for invalid blocks: a step that leaves the tip with
\* less work than before has marked a block as failed, or follows a step of a
\* thread with a stale target.
WorkIsLostOnlyToInvalidity ==
    [][Work[tip'] < Work[tip] /\ ~raced' => failedValid' # failedValid]_vars

\* ActivateBestChain ends, however many threads move the tip at once, unless
\* users keep invalidating and reconsidering blocks under it.
ActivationEnds ==
    \A t \in Threads :
        \/ []<>(pc[t] = "idle")
        \/ []<><<\E u \in Threads, b \in Blocks : InvalidateBlock(u, b) \/ ReconsiderBlock(u, b)>>_vars
=============================================================================
