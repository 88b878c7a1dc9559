---------------------------- MODULE BlockDownload ----------------------------
(***************************************************************************)
(* Which peer is asked for which block (main.cpp): mapNodeState,           *)
(* mapBlocksInFlight and the counters over them, as the message handlers,  *)
(* SendMessages and the end of a connection change them.  Each handler     *)
(* holds cs_main throughout.  A peer may announce blocks in any order,     *)
(* send some nobody asked for, send none, or go away.                      *)
(*                                                                         *)
(* Time runs in units of GetBlockTimeout's half block interval.  A point   *)
(* in time is kept as what is left until it, -1 once it has passed.        *)
(*                                                                         *)
(* Abstractions.  Every block adds the same work, so that work is height.  *)
(* ActivateBestChain is one step with the block that sets it off (module   *)
(* ChainState is about how it gets there, and about blocks that fail to    *)
(* connect).  The tip and the best header are recent once initial block    *)
(* download is over.  A score that may reach the ban threshold is a choice *)
(* whether it does.  Peers have the chain (not fClient, not fOneShot) and  *)
(* are not whitelisted; the node is not importing; nothing is pruned.      *)
(***************************************************************************)
EXTENDS BlockTree, Integers, Sequences, Functions

CONSTANTS
    Peers,            \* NodeIds, none of which is used twice
    Offers,           \* the blocks a peer may announce
    Outbound,         \* those the node connected to (not fInbound)
    Doubtful,         \* the blocks CheckBlock may find invalid
    BLOCK_DOWNLOAD_WINDOW, MAX_BLOCKS_IN_TRANSIT_PER_PEER, MIN_BLOCKS_TO_KEEP,
    BLOCK_STALLING_TIMEOUT,
    BaseTimeout,      \* the 4 of GetBlockTimeout
    None

ASSUME BlockDownloadAssumption ==
    /\ Offers \in [Peers -> SUBSET (Blocks \ {Genesis})] /\ Outbound \subseteq Peers
    /\ Doubtful \subseteq Blocks /\ None \notin Blocks \cup Peers
    /\ {BLOCK_DOWNLOAD_WINDOW, MAX_BLOCKS_IN_TRANSIT_PER_PEER} \subseteq Nat \ {0}
    /\ {MIN_BLOCKS_TO_KEEP, BLOCK_STALLING_TIMEOUT, BaseTimeout} \subseteq Nat

VARIABLES
    known,        \* mapBlockIndex
    have,         \* BLOCK_HAVE_DATA
    failed,       \* BLOCK_FAILED_VALID
    tip,          \* chainActive.Tip()
    ibd,          \* IsInitialBlockDownload, until it latches to false
    fresh,        \* NodeIds still to be given out
    net,          \* node: mapNodeState and the flags of CNode,
                  \* inFlight: the peers of mapBlocksInFlight,
                  \* queued: nQueuedValidatedHeaders
    nPreferredDownload, nSyncStarted,
    copied, todo  \* vNodesCopy of ThreadMessageHandler, and those still to visit

blockVars == <<known, have, failed, tip, ibd>>
counters == <<nPreferredDownload, nSyncStarted>>
round == <<copied, todo>>
vars == <<blockVars, fresh, net, counters, round>>

(* A CNodeState as constructed, with nVersion, fDisconnect of its CNode. *)
NewNode ==
    [best |-> None, unknown |-> None, common |-> None, fSyncStarted |-> FALSE,
     stalling |-> None, vBlocksInFlight |-> <<>>, nBlocksInFlight |-> 0,
     nValidHeaders |-> 0, fPreferredDownload |-> FALSE, fShouldBan |-> FALSE,
     version |-> FALSE, fDisconnect |-> FALSE]

Init ==
    /\ known = {Genesis} /\ have = {Genesis} /\ failed = {} /\ tip = Genesis
    /\ ibd = TRUE /\ fresh = Peers
    /\ net = [node |-> [p \in {} |-> NewNode], inFlight |-> [b \in {} |-> None], queued |-> 0]
    /\ nPreferredDownload = 0 /\ nSyncStarted = 0
    /\ copied = {} /\ todo = {}

Live == DOMAIN net.node
Listening(p) == p \in todo /\ net.node[p].version /\ ~net.node[p].fDisconnect
OneIf(x) == IF x THEN 1 ELSE 0

----------------------------------------------------------------------------
(* MarkBlockAsReceived and MarkBlockAsInFlight, on a net n *)

(* The list element the iterator of mapBlocksInFlight points to. *)
EntryOf(q, b) == CHOOSE i \in DOMAIN q : q[i].hash = b
EraseEntry(q, b) ==
    [i \in 1 .. Len(q) - 1 |-> IF i < EntryOf(q, b) THEN q[i] ELSE q[i + 1]]

Received_KeepsStalling(n, b) ==
    IF b \notin DOMAIN n.inFlight THEN n
    ELSE LET p == n.inFlight[b]
             q == n.node[p].vBlocksInFlight
             valid == OneIf(q[EntryOf(q, b)].fValidatedHeaders)
         IN  [node |-> [n.node EXCEPT ![p].vBlocksInFlight = EraseEntry(q, b),
                                      ![p].nBlocksInFlight = @ - 1,
                                      ![p].nValidHeaders = @ - valid],
              inFlight |-> Restrict(n.inFlight, DOMAIN n.inFlight \ {b}),
              queued |-> n.queued - valid]
MarkBlockAsReceived(n, b) ==
    IF b \notin DOMAIN n.inFlight THEN n
    ELSE LET p == n.inFlight[b]
             q == n.node[p].vBlocksInFlight
             valid == OneIf(q[EntryOf(q, b)].fValidatedHeaders)
         IN  [node |-> [n.node EXCEPT ![p].vBlocksInFlight = EraseEntry(q, b),
                                      ![p].nBlocksInFlight = @ - 1,
                                      ![p].nValidHeaders = @ - valid,
                                      ![p].stalling = None],
              inFlight |-> Restrict(n.inFlight, DOMAIN n.inFlight \ {b}),
              queued |-> n.queued - valid]

GetBlockTimeout(queuedBefore) == BaseTimeout + queuedBefore

MarkBlockAsInFlight(n, p, b, validated) ==
    LET m == MarkBlockAsReceived(n, b)
        entry == [hash |-> b, fValidatedHeaders |-> validated,
                  left |-> GetBlockTimeout(m.queued)]
    IN  [node |-> [m.node EXCEPT ![p].vBlocksInFlight = Append(@, entry),
                                 ![p].nBlocksInFlight = @ + 1,
                                 ![p].nValidHeaders = @ + OneIf(validated)],
         inFlight |-> [c \in DOMAIN m.inFlight \cup {b} |->
                           IF c = b THEN p ELSE m.inFlight[c]],
         queued |-> m.queued + OneIf(validated)]

----------------------------------------------------------------------------
(* What a peer is known to have *)

Better(s, b) == IF s.best = None \/ Height(b) >= Height(s.best) THEN b ELSE s.best

(* With the block index S. *)
ProcessBlockAvailability(s, S) ==
    IF s.unknown \in S THEN [s EXCEPT !.best = Better(s, s.unknown), !.unknown = None] ELSE s

UpdateBlockAvailability(s, b, S) ==
    LET t == ProcessBlockAvailability(s, S)
    IN  IF b \in S THEN [t EXCEPT !.best = Better(t, b)] ELSE [t EXCEPT !.unknown = b]

----------------------------------------------------------------------------
(* FindNextBlocksToDownload for peer p, whose state is s after              *)
(* ProcessBlockAvailability *)

AtHeight(b, h) == CHOOSE c \in Chain(b) : Height(c) = h

Interesting(s) == s.best # None /\ Height(s.best) >= Height(tip)

(* pindexLastCommonBlock as bootstrapped, and brought onto the peer's chain. *)
LastCommon(s) ==
    Fork(IF s.common # None THEN s.common
         ELSE IF Height(s.best) <= Height(tip) THEN AtHeight(tip, Height(s.best)) ELSE tip,
         s.best)

(* The successors the loop looks at: up to the block after the window, and  *)
(* none from an invalid one on.                                             *)
Successors(s) ==
    {b \in Chain(s.best) \ Chain(LastCommon(s)) :
        /\ Height(b) <= Height(LastCommon(s)) + BLOCK_DOWNLOAD_WINDOW + 1
        /\ (Chain(b) \ Chain(LastCommon(s))) \cap failed = {}}

InWindow(s, b) == Height(b) <= Height(LastCommon(s)) + BLOCK_DOWNLOAD_WINDOW
Missing(b) == b \notin have \cup DOMAIN net.inFlight

(* vToDownload: on the way up the blocks that nobody was asked for, until    *)
(* there are count of them.                                                 *)
ToDownload(s, count) ==
    LET found[h \in 0 .. Height(s.best)] ==
            IF h = 0 THEN <<>>
            ELSE LET b == AtHeight(s.best, h)
                 IN  IF /\ Len(found[h - 1]) < count /\ b \in Successors(s)
                        /\ InWindow(s, b) /\ Missing(b)
                     THEN Append(found[h - 1], b) ELSE found[h - 1]
    IN  found[Height(s.best)]

(* The peer we wait for, if only the window keeps us from asking p. *)
Staller(p, s) ==
    LET flying == {b \in Successors(s) : b \in DOMAIN net.inFlight}
        first == CHOOSE b \in flying : \A c \in flying : Height(b) <= Height(c)
    IN  IF /\ ToDownload(s, 1) = <<>> /\ flying # {} /\ net.inFlight[first] # p
           /\ \E b \in Successors(s) : ~InWindow(s, b) /\ Missing(b)
        THEN net.inFlight[first] ELSE None

(* The loop moves pindexLastCommonBlock over linked blocks until it ends.   *)
NewCommon(s, count) ==
    LET last == ToDownload(s, count)
        seen == {b \in Successors(s) :
                    /\ Chain(b) \subseteq have
                    /\ Len(last) = count => Height(b) < Height(last[count])}
    IN  IF seen = {} THEN LastCommon(s)
        ELSE CHOOSE b \in seen : \A c \in seen : Height(c) <= Height(b)

----------------------------------------------------------------------------
(* Connections *)

InitializeNode(p) ==
    /\ p \in fresh /\ fresh' = fresh \ {p}
    /\ net' = [net EXCEPT !.node = [q \in Live \cup {p} |-> IF q = p THEN NewNode ELSE @[q]]]
    /\ UNCHANGED <<blockVars, counters, round>>

(* The version message, with UpdatePreferredDownload. *)
VersionMessage(p) ==
    /\ p \in todo /\ ~net.node[p].version /\ ~net.node[p].fDisconnect
    /\ net' = [net EXCEPT !.node[p].version = TRUE, !.node[p].fPreferredDownload = p \in Outbound]
    /\ nPreferredDownload' = nPreferredDownload + OneIf(p \in Outbound)
    /\ UNCHANGED <<blockVars, fresh, nSyncStarted, round>>

(* The peer closes the connection, or some other part of the node does. *)
CloseSocketDisconnect(p) ==
    /\ p \in Live /\ ~net.node[p].fDisconnect
    /\ net' = [net EXCEPT !.node[p].fDisconnect = TRUE]
    /\ UNCHANGED <<blockVars, fresh, counters, round>>

(* ThreadSocketHandler deletes the CNode; nQueuedValidatedHeaders keeps     *)
(* counting the requests that die with it.                                  *)
FinalizeNode_KeepsRequests(p) ==
    /\ p \in Live \ copied /\ net.node[p].fDisconnect
    /\ nSyncStarted' = nSyncStarted - OneIf(net.node[p].fSyncStarted)
    /\ net' = [net EXCEPT !.node = Restrict(@, Live \ {p})]
    /\ nPreferredDownload' = nPreferredDownload - OneIf(net.node[p].fPreferredDownload)
    /\ UNCHANGED <<blockVars, fresh, round>>
FinalizeNode_KeepsSync(p) ==
    /\ p \in Live \ copied /\ net.node[p].fDisconnect
    /\ net' = [net EXCEPT
           !.node = Restrict(@, Live \ {p}),
           !.inFlight = Restrict(@, DOMAIN @ \ {e.hash : e \in Range(net.node[p].vBlocksInFlight)})]
    /\ nPreferredDownload' = nPreferredDownload - OneIf(net.node[p].fPreferredDownload)
    /\ UNCHANGED <<blockVars, fresh, round, nSyncStarted>>
FinalizeNode(p) ==
    /\ p \in Live \ copied /\ net.node[p].fDisconnect
    /\ nSyncStarted' = nSyncStarted - OneIf(net.node[p].fSyncStarted)
    /\ net' = [net EXCEPT
           !.node = Restrict(@, Live \ {p}),
           !.inFlight = Restrict(@, DOMAIN @ \ {e.hash : e \in Range(net.node[p].vBlocksInFlight)})]
    /\ nPreferredDownload' = nPreferredDownload - OneIf(net.node[p].fPreferredDownload)
    /\ UNCHANGED <<blockVars, fresh, round>>

----------------------------------------------------------------------------
(* ThreadMessageHandler: rounds over the peers.  In its turn a peer's       *)
(* messages are processed, then SendMessages is called.  The round holds a  *)
(* reference to each, which keeps FinalizeNode away.                        *)

StartRound ==
    /\ copied = {}
    /\ todo' = {p \in Live : ~net.node[p].fDisconnect} /\ copied' = todo'
    /\ UNCHANGED <<blockVars, fresh, net, counters>>

Visited(p) == todo' = todo \ {p} /\ copied' = IF todo' = {} THEN {} ELSE copied

(* A turn without SendMessages doing anything: the connection is closed or  *)
(* not set up, or TRY_LOCK finds cs_vSend or cs_main taken.                 *)
Skip(p) ==
    /\ p \in todo /\ Visited(p)
    /\ UNCHANGED <<blockVars, fresh, net, counters>>

----------------------------------------------------------------------------
(* Messages *)

(* inv of a block.  When the tip is recent, a block nobody has heard of is  *)
(* asked for at once.                                                       *)
InvMessage(p, b) ==
    /\ Listening(p) /\ b \in Offers[p]
    /\ LET n == [net EXCEPT !.node[p] = UpdateBlockAvailability(@, b, known)]
       IN  net' = IF /\ b \notin known \cup DOMAIN net.inFlight /\ ~ibd
                     /\ net.node[p].nBlocksInFlight < MAX_BLOCKS_IN_TRANSIT_PER_PEER
                  THEN MarkBlockAsInFlight(n, p, b, FALSE)
                  ELSE n
    /\ UNCHANGED <<blockVars, fresh, counters, round>>

(* headers up to b.  Those below an invalid block are taken, then the       *)
(* message is dropped, and the peer punished if it sent a child of it.      *)
HeadersMessage(p, b, child) ==
    /\ Listening(p) /\ b \in Offers[p]
    /\ child => \E c \in Chain(b) \ known : Parent[c] \in failed
    /\ known' = known \cup {c \in Chain(b) : Chain(c) \cap failed = {}}
    /\ net' = IF Chain(b) \cap failed = {}
              THEN [net EXCEPT !.node[p] = UpdateBlockAvailability(@, b, known')]
              ELSE [net EXCEPT !.node[p].fShouldBan = @ \/ child]
    /\ UNCHANGED <<have, failed, tip, ibd, fresh, counters, round>>

HeaderAccepted(b) == IF b \in known THEN b \notin failed ELSE Parent[b] \in known \ failed

(* The tips ActivateBestChain may choose when the blocks S have data. *)
BestTips(S) ==
    LET linked == {b \in S : Chain(b) \subseteq S}
        most == {b \in linked : \A c \in linked : Height(c) <= Height(b)}
    IN  IF tip \in most THEN {tip} ELSE most

(* AcceptBlock goes on with a block that was asked for, or that is next.    *)
Wants(b) ==
    /\ b \notin have
    /\ \/ b \in DOMAIN net.inFlight
       \/ Height(b) > Height(tip) /\ Height(b) <= Height(tip) + MIN_BLOCKS_TO_KEEP

(* block: ProcessNewBlock.  CheckBlock gets to a block until it has said    *)
(* "valid" or "invalid" once; what is wrong with a "corrupt" copy may not   *)
(* be wrong with the block, and leaves no mark on it.                       *)
Verdicts(b) == {"valid", "corrupt"} \cup IF b \in Doubtful THEN {"invalid"} ELSE {}
BlockMessage(p, b, verdict) ==
    /\ Listening(p) /\ b \in UNION {Chain(c) \ {Genesis} : c \in Offers[p]}
    /\ LET n == MarkBlockAsReceived(net, b)
           wanted == Wants(b)
           good == wanted /\ verdict = "valid"
       IN  \/ /\ ~HeaderAccepted(b)
              /\ \E ban \in IF b \in known THEN {FALSE} ELSE BOOLEAN :
                     net' = [n EXCEPT !.node[p].fShouldBan = @ \/ ban]
              /\ UNCHANGED <<known, have, failed, tip, ibd>>
           \/ /\ HeaderAccepted(b) /\ wanted /\ ~good
              /\ \E ban \in IF verdict = "corrupt" THEN {TRUE} ELSE BOOLEAN :
                     net' = [n EXCEPT !.node[p].fShouldBan = @ \/ ban]
              /\ known' = known \cup {b}
              /\ failed' = IF verdict = "corrupt" THEN failed ELSE failed \cup {b}
              /\ UNCHANGED <<have, tip, ibd>>
           \/ /\ HeaderAccepted(b) /\ (wanted => good)
              /\ net' = n /\ known' = known \cup {b}
              /\ have' = IF good THEN have \cup {b} ELSE have
              /\ tip' \in BestTips(have')
              /\ ibd' \in IF tip' # tip THEN {ibd, FALSE} ELSE {ibd}
              /\ UNCHANGED failed
    /\ UNCHANGED <<fresh, counters, round>>

----------------------------------------------------------------------------
(* SendMessages *)

Passed(left) == left # None /\ left < 0

(* Whether p is to be disconnected, with the timeout of its oldest request  *)
(* shortened to what it would be if it were made now.                       *)
Shortened(s) ==
    IF s.vBlocksInFlight = <<>> THEN s
    ELSE LET now == GetBlockTimeout(net.queued - s.nValidHeaders)
         IN  [s EXCEPT !.vBlocksInFlight[1].left = IF @ > now THEN now ELSE @]
TimedOut_ValidatedOnly(s) ==
    /\ s.vBlocksInFlight # <<>> /\ s.vBlocksInFlight[1].left < 0
    /\ s.vBlocksInFlight[1].fValidatedHeaders
TimedOut(s) == s.vBlocksInFlight # <<>> /\ s.vBlocksInFlight[1].left < 0

(* The blocks asked for, and the stall that begins with it. *)
Fetch(n, p, s) ==
    LET count == MAX_BLOCKS_IN_TRANSIT_PER_PEER - s.nBlocksInFlight
        blocks == ToDownload(s, count)
        asked[i \in 0 .. Len(blocks)] ==
            IF i = 0 THEN [n EXCEPT !.node[p].common = NewCommon(s, count)]
            ELSE MarkBlockAsInFlight(asked[i - 1], p, blocks[i], TRUE)
        m == asked[Len(blocks)]
        staller == Staller(p, s)
    IN  IF m.node[p].nBlocksInFlight = 0 /\ staller # None /\ m.node[staller].stalling = None
        THEN [m EXCEPT !.node[staller].stalling = BLOCK_STALLING_TIMEOUT]
        ELSE m

SendMessages(p) ==
    /\ Listening(p) /\ Visited(p)
    /\ LET s == net.node[p]
           fFetch == s.fPreferredDownload \/ nPreferredDownload = 0
           sync == ~s.fSyncStarted /\ ((nSyncStarted = 0 /\ fFetch) \/ ~ibd)
           s1 == [s EXCEPT !.fSyncStarted = @ \/ sync, !.fShouldBan = FALSE,
                           !.fDisconnect = s.fShouldBan \/ Passed(s.stalling)]
           s2 == IF s1.fDisconnect THEN s1 ELSE Shortened(s1)
           s3 == [s2 EXCEPT !.fDisconnect = @ \/ TimedOut(s2)]
           s4 == ProcessBlockAvailability(s3, known)
           asks == ~s3.fDisconnect /\ (fFetch \/ ~ibd)
                      /\ s.nBlocksInFlight < MAX_BLOCKS_IN_TRANSIT_PER_PEER
       IN  /\ nSyncStarted' = nSyncStarted + OneIf(sync)
           /\ net' = IF asks /\ Interesting(s4)
                     THEN Fetch([net EXCEPT !.node[p] = s4], p, s4)
                     ELSE [net EXCEPT !.node[p] = IF asks THEN s4 ELSE s3]
    /\ UNCHANGED <<blockVars, fresh, nPreferredDownload>>

----------------------------------------------------------------------------
(* Time passes. *)
Later(left) == IF left = None \/ left < 0 THEN left ELSE left - 1

Aged(e) == [e EXCEPT !.left = Later(@)]
Older(s) == [s EXCEPT !.stalling = Later(@), !.vBlocksInFlight = [i \in DOMAIN @ |-> Aged(@[i])]]

Tick ==
    /\ net' = [net EXCEPT !.node = [p \in Live |-> Older(@[p])]]
    /\ UNCHANGED <<blockVars, fresh, counters, round>>

Next ==
    \/ \E p \in Peers :
        \/ InitializeNode(p) \/ VersionMessage(p) \/ CloseSocketDisconnect(p) \/ FinalizeNode(p)
        \/ \E b \in Blocks :
            \/ InvMessage(p, b) \/ \E child \in BOOLEAN : HeadersMessage(p, b, child)
            \/ \E verdict \in Verdicts(b) : BlockMessage(p, b, verdict)
        \/ SendMessages(p) \/ Skip(p)
    \/ StartRound \/ Tick

Spec == Init /\ [][Next]_vars

(* ThreadMessageHandler goes on for ever, ThreadSocketHandler gets to every *)
(* closed connection, time passes, and a peer that gets its turn again and  *)
(* again finds the locks free again and again.  Nothing is assumed of the   *)
(* peers.                                                                   *)
FairSpec ==
    /\ Spec /\ WF_vars(Tick)
    /\ \A p \in Peers : []<>Listening(p) => []<><<SendMessages(p)>>_vars
    /\ []<>(todo = {}) /\ []<>(todo # {} \/ \A p \in Live : net.node[p].fDisconnect)
    /\ \A p \in Peers : []<>(p \in Live => ~net.node[p].fDisconnect)

----------------------------------------------------------------------------
(* Properties *)

Requests(p) == Range(net.node[p].vBlocksInFlight)
Validated(p) == {e \in Requests(p) : e.fValidatedHeaders}

(* Shape of the state. *)
TypeOK ==
    /\ known \subseteq Blocks /\ have \subseteq known /\ failed \subseteq known \ have
    /\ tip \in have /\ ibd \in BOOLEAN /\ Live \subseteq Peers \ fresh
    /\ \A p \in Live : /\ {net.node[p].best, net.node[p].common} \subseteq known \cup {None}
                        /\ net.node[p].unknown \in Blocks \cup {None}

(* mapBlocksInFlight, the lists it points into and the counters over them   *)
(* agree, whoever delivers, disconnects or is asked again: every entry of   *)
(* the map belongs to a peer that still exists and to the one element of    *)
(* its list with that hash, so that MarkBlockAsReceived never follows a     *)
(* dangling iterator; nothing on disk is waited for; no peer is asked for   *)
(* more than MAX_BLOCKS_IN_TRANSIT_PER_PEER.                                *)
RequestsMatch ==
    /\ TypeOK
    /\ \A b \in DOMAIN net.inFlight :
        /\ net.inFlight[b] \in Live /\ b \notin have
        /\ \E e \in Requests(net.inFlight[b]) : e.hash = b
    /\ \A p \in Live :
        LET s == net.node[p]
        IN  /\ \A e \in Requests(p) : e.hash \in DOMAIN net.inFlight /\ net.inFlight[e.hash] = p
            /\ s.nBlocksInFlight = Len(s.vBlocksInFlight)
            /\ s.nBlocksInFlight = Cardinality({e.hash : e \in Requests(p)})
            /\ s.nBlocksInFlight <= MAX_BLOCKS_IN_TRANSIT_PER_PEER
            /\ s.nValidHeaders = Cardinality(Validated(p))

InFlightValidated == UNION {{<<p, e>> : e \in Validated(p)} : p \in Live}

(* The totals over all peers.  nPreferredDownload and nSyncStarted are      *)
(* exact: no peer keeps the others from being asked after it went.          *)
(* nQueuedValidatedHeaders is never less than what is in flight, so that no *)
(* timeout gets shorter than the blocks in flight justify.                  *)
TotalsMatch ==
    /\ nPreferredDownload = Cardinality({p \in Live : net.node[p].fPreferredDownload})
    /\ nSyncStarted = Cardinality({p \in Live : net.node[p].fSyncStarted})
    /\ net.queued >= Cardinality(InFlightValidated)

(* nQueuedValidatedHeaders is the "Number of blocks in flight with          *)
(* validated headers."                                                      *)
QueuedIsExact == net.queued = Cardinality(InFlightValidated)

(* Only a peer that owes us a block is held to be stalling: nStallingSince  *)
(* of a peer that delivered, or lost its requests to others, is reset.      *)
StallersOweBlocks == \A p \in Live : net.node[p].stalling # None => Requests(p) # {}

(* A block some peer offers on a valid chain better than ours, from whom we *)
(* download.                                                                *)
Offered(b) ==
    \E p \in Live :
        LET s == net.node[p]
        IN  /\ s.version /\ s.best # None /\ Height(s.best) > Height(tip)
            /\ s.fPreferredDownload \/ nPreferredDownload = 0 \/ ~ibd
            /\ b \in Chain(s.best) /\ Chain(s.best) \cap failed = {}

(* No block stays offered and missing for ever, although any peer may fail  *)
(* to deliver it: requests run out, and are made again of others as long as *)
(* there are others.                                                        *)
DownloadGoesOn == \A b \in Blocks : []<>(b \in have \/ ~Offered(b))
=============================================================================
