------------------------------ MODULE OrphanTx ------------------------------
(***************************************************************************)
(* mapOrphanTransactions (main.cpp): transactions whose inputs are not     *)
(* known yet, beside the memory pool they want to get into.  The handler   *)
(* of a tx message holds cs_main until it has tried all orphans that       *)
(* became possible; one orphan is a step, because each may make the pool   *)
(* evict something.                                                        *)
(*                                                                         *)
(* A peer that goes and comes back has another NodeId; as nothing is left  *)
(* of the old one, a name is used again.  Blocks bring transactions too,   *)
(* and so do RPCs (AcceptToMemoryPool of Mempool): neither looks at the    *)
(* orphans.  recentRejects is left out: all it does is make the handler    *)
(* ignore a message, as may a fee, a script or a proof.                    *)
(***************************************************************************)
EXTENDS Mempool

CONSTANTS
    Peers,
    Relayed,        \* the transactions peers send
    Large,          \* those of more than 5000 bytes
    MaxOrphans,     \* -maxorphantx
    Idle

ASSUME OrphanAssumption ==
    Relayed \subseteq Txs \ Coinbases /\ MaxOrphans \in Nat /\ Idle \notin Peers

VARIABLES
    orphans,        \* mapOrphanTransactions: transaction to fromPeer
    byPrev,         \* mapOrphanTransactionsByPrev
    call            \* the locals of the tx handler, or Idle

orphanVars == <<orphans, byPrev, call>>
allVars == <<vars, orphanVars>>

InitOrphans ==
    /\ Init
    /\ orphans = [t \in {} |-> t] /\ byPrev = [t \in {} |-> {}]
    /\ call = Idle

----------------------------------------------------------------------------
(* The two maps: o is the first, b the second *)

AddOrphanTx(o, t, peer) ==
    IF t \in Large THEN o ELSE [u \in DOMAIN o \cup {t} |-> IF u = t THEN peer ELSE o[u]]
LinkOrphan(b, t) ==
    IF t \in Large THEN b
    ELSE [i \in DOMAIN b \cup Inputs[t] |->
            (IF i \in DOMAIN b THEN b[i] ELSE {}) \cup (IF i \in Inputs[t] THEN {t} ELSE {})]

(* EraseOrphanTx of the orphans of S. *)
EraseOrphans(o, S) == Restrict(o, DOMAIN o \ S)
UnlinkOrphans_OneInput(b, S) ==
    LET left == [i \in DOMAIN b |->
                    b[i] \ {t \in S : i = CHOOSE j \in Inputs[t] : TRUE}]
    IN  Restrict(left, {i \in DOMAIN b : left[i] # {}})
UnlinkOrphans(b, S) ==
    LET left == [i \in DOMAIN b |-> b[i] \ S]
    IN  Restrict(left, {i \in DOMAIN b : left[i] # {}})

(* The sets of orphans that LimitOrphanTxSize may evict. *)
LimitOrphanTxSize(o) ==
    LET excess == Cardinality(DOMAIN o) - MaxOrphans
    IN  {gone \in SUBSET DOMAIN o : Cardinality(gone) = IF excess > 0 THEN excess ELSE 0}

EraseOrphanTxs(S) ==
    /\ orphans' = EraseOrphans(orphans, S)
    /\ byPrev' = UnlinkOrphans(byPrev, S \cap DOMAIN orphans)

----------------------------------------------------------------------------
(* The tx message *)

Height1 == Height(tip) + 1
Missing(t) == Eligible(pool, t, coins, Height1) /\ ~InputsFound(pool, t, coins)
Shielded(t) == Nullifiers[t] \cup Anchors[t] # {}

AlreadyHave(t) == t \in pool.mapTx \cup DOMAIN orphans \cup Unspent(coins)

Quiet == phase = "settled" /\ call = Idle

(* Accepted: the orphans that wait for it are tried next. *)
TxAccepted(t) ==
    /\ Quiet /\ ~AlreadyHave(t) /\ Acceptable(pool, t, coins, Height1)
    /\ AddAndLimit(pool, t)
    /\ call' = [work |-> <<t>>, accepted |-> {t}, left |-> {}, erase |-> {}, misbehaving |-> {}]
    /\ UNCHANGED <<tip, coins, target, phase, todo, disconnected, orphans, byPrev>>

(* Inputs are missing. *)
TxOrphaned(p, t) ==
    /\ Quiet /\ ~AlreadyHave(t) /\ Missing(t) /\ ~Shielded(t)
    /\ LET o == AddOrphanTx(orphans, t, p)
       IN  \E gone \in LimitOrphanTxSize(o) :
              /\ orphans' = EraseOrphans(o, gone)
              /\ byPrev' = UnlinkOrphans(LinkOrphan(byPrev, t), gone)
    /\ UNCHANGED <<vars, call>>

(* The next transaction of vWorkQueue. *)
NextParent ==
    /\ call # Idle /\ call.left = {} /\ call.work # <<>>
    /\ LET t == Head(call.work)
       IN  call' = [call EXCEPT !.work = Tail(@),
                                !.left = IF t \in DOMAIN byPrev THEN byPrev[t] ELSE {}]
    /\ UNCHANGED <<vars, orphans, byPrev>>

(* An orphan was accepted: what waits for it comes next. *)
OrphanAccepted_NoChildren(c, t) ==
    [c EXCEPT !.accepted = @ \cup {t}, !.erase = @ \cup {t}]
OrphanAccepted(c, t) ==
    [c EXCEPT !.work = Append(@, t), !.accepted = @ \cup {t}, !.erase = @ \cup {t}]

(* One orphan of the current parent; bad is whether a refusal has a DoS     *)
(* score, as it has for scripts or for another epoch.                       *)
TryOrphan(t, bad) ==
    /\ call # Idle /\ t \in call.left
    /\ LET now == [call EXCEPT !.left = @ \ {t}]
           peer == orphans[t]
           ok == Acceptable(pool, t, coins, Height1)
       IN  \/ /\ peer \notin call.misbehaving /\ ok /\ AddAndLimit(pool, t)
              /\ call' = OrphanAccepted(now, t)
           \/ /\ peer \notin call.misbehaving /\ ~Missing(t)
              /\ bad => ok \/ (t \notin evicted /\ Branch[t] # Epoch(Height1))
              /\ call' = [now EXCEPT !.erase = @ \cup {t},
                                     !.misbehaving = @ \cup IF bad THEN {peer} ELSE {}]
              /\ UNCHANGED <<pool, evicted>>
           \/ /\ peer \in call.misbehaving \/ Missing(t)
              /\ call' = now /\ UNCHANGED <<pool, evicted>>
    /\ UNCHANGED <<tip, coins, target, phase, todo, disconnected, orphans, byPrev>>

EndOfCall ==
    /\ call # Idle /\ call.left = {} /\ call.work = <<>>
    /\ EraseOrphanTxs(call.erase) /\ call' = Idle
    /\ UNCHANGED vars

(* FinalizeNode *)
EraseOrphansFor(p) ==
    /\ Quiet /\ EraseOrphanTxs({t \in DOMAIN orphans : orphans[t] = p})
    /\ UNCHANGED <<vars, call>>

NextOrphans ==
    \/ call = Idle /\ Next /\ UNCHANGED orphanVars
    \/ \E t \in Relayed : TxAccepted(t) \/ \E p \in Peers : TxOrphaned(p, t)
    \/ \E t \in Relayed, bad \in BOOLEAN : TryOrphan(t, bad)
    \/ NextParent \/ EndOfCall
    \/ \E p \in Peers : EraseOrphansFor(p)

SpecOrphans == InitOrphans /\ [][NextOrphans]_allVars

----------------------------------------------------------------------------
(* Properties *)

(* mapOrphanTransactionsByPrev is the index of mapOrphanTransactions by     *)
(* input: whatever evicts, resolves or disowns an orphan takes it out of    *)
(* every set it is in and leaves no empty set behind.  The handler looks    *)
(* orphans up with operator[], which would invent one otherwise.  Their     *)
(* number stays within -maxorphantx.                                        *)
OrphanMapsAgree ==
    /\ Cardinality(DOMAIN orphans) <= MaxOrphans
    /\ byPrev = [i \in UNION {Inputs[t] : t \in DOMAIN orphans} |->
                    {t \in DOMAIN orphans : i \in Inputs[t]}]
    /\ call # Idle => call.left \cup call.erase \subseteq DOMAIN orphans

(* When the handler returns, no orphan that waited for a transaction it     *)
(* accepted, directly or through other orphans, could still be accepted,    *)
(* unless its peer misbehaved in between: in whatever order a chain of      *)
(* transactions arrives, its last missing link brings in all of it.         *)
OrphansAreResolved ==
    [][EndOfCall => \A t \in DOMAIN orphans' :
          Inputs[t] \cap call.accepted # {} /\ orphans[t] \notin call.misbehaving
              => ~Acceptable(pool, t, coins, Height1)]_allVars
=============================================================================
