----------------------------- MODULE CoinsCache -----------------------------
(***************************************************************************)
(* The unspent transparent outputs (coins.h, coins.cpp, txdb.cpp): the     *)
(* database, the cache pcoinsTip above it, and above that the view in      *)
(* which ConnectTip or DisconnectTip (main.cpp) processes one block.  A    *)
(* cache entry carries DIRTY (may differ from the parent) and FRESH (the   *)
(* parent has no unspent output of this transaction); Flush trusts both.   *)
(*                                                                         *)
(* Everything runs under cs_main; a step is one operation on the block's   *)
(* view, so that a block that turns out invalid may be abandoned after     *)
(* any of them.  Abstraction: a CCoins is the set of its unspent output    *)
(* indices (empty: IsPruned); amounts, scripts, heights and the memory     *)
(* accounting are left out.                                                *)
(***************************************************************************)
EXTENDS Naturals

CONSTANTS Txids, Outputs, NoEntry

ASSUME NoEntryAssumption ==
    NoEntry \notin [coins: SUBSET Outputs, dirty: BOOLEAN, fresh: BOOLEAN]

VARIABLES
    db,        \* CCoinsViewDB: unspent outputs of every transaction
    tip,       \* pcoinsTip->cacheCoins
    view,      \* cacheCoins of the block's view
    session,   \* "connect": ConnectBlock owns the view, "disconnect": DisconnectBlock
    touched    \* transactions the current block has created, spent from or undone

coinVars == <<db, tip, view, session, touched>>

Entry == [coins: SUBSET Outputs, dirty: BOOLEAN, fresh: BOOLEAN]
Cached(entries, t) == entries[t] # NoEntry

(* What GetCoins returns at each level; no unspent output: false, or a     *)
(* pruned CCoins.                                                          *)
TipCoins(t) == IF Cached(tip, t) THEN tip[t].coins ELSE db[t]
ViewCoins(t) == IF Cached(view, t) THEN view[t].coins ELSE TipCoins(t)

InitCoins == /\ db = [t \in Txids |-> {}]
        /\ tip = [t \in Txids |-> NoEntry]
        /\ view = [t \in Txids |-> NoEntry]
        /\ session = "none" /\ touched = {}

-----------------------------------------------------------------------------
(* FetchCoins on pcoinsTip: an entry found in the database is cached.      *)
TipFetched(t) ==
    IF Cached(tip, t) \/ db[t] = {} THEN tip[t]
    ELSE [coins |-> db[t], dirty |-> FALSE, fresh |-> FALSE]

(* The entry the view takes from its parent.  Only an entry without an     *)
(* unspent output is FRESH, even if the parent is caching one.             *)
Pulled(t) == [coins |-> TipCoins(t), dirty |-> FALSE, fresh |-> TipCoins(t) = {}]

(* FetchCoins on the view, through pcoinsTip.                              *)
ViewFetched(t) ==
    IF Cached(view, t) \/ TipFetched(t) = NoEntry THEN view[t] ELSE Pulled(t)

(* An entry under a CCoinsModifier: DIRTY, and dropped by the destructor   *)
(* when it is FRESH and ends without an unspent output.                    *)
Modified(entry, coins) ==
    IF entry.fresh /\ coins = {} THEN NoEntry
    ELSE [entry EXCEPT !.coins = coins, !.dirty = TRUE]

ModifyCoins(t, coins) ==
    /\ tip' = [tip EXCEPT ![t] = IF Cached(view, t) THEN @ ELSE TipFetched(t)]
    /\ view' = [view EXCEPT ![t] = Modified(IF Cached(view, t) THEN @ ELSE Pulled(t), coins)]
    /\ touched' = touched \cup {t}

(* ModifyNewCoins asks no parent: the entry is FRESH by assumption.        *)
ModifyNewCoins(t, coins) ==
    /\ view' = [view EXCEPT ![t] =
                  Modified([coins |-> {}, dirty |-> TRUE, fresh |-> TRUE], coins)]
    /\ touched' = touched \cup {t}
    /\ UNCHANGED tip

-----------------------------------------------------------------------------
(* ConnectTip and DisconnectTip create the view of their block.            *)
OpenView ==
    /\ session = "none" /\ session' \in {"connect", "disconnect"}
    /\ UNCHANGED <<db, tip, view, touched>>

(* HaveInputs, GetValueIn and the check against overwriting: a read.       *)
AccessCoins(t) ==
    /\ session # "none"
    /\ view' = [view EXCEPT ![t] = ViewFetched(t)]
    /\ tip' = [tip EXCEPT ![t] = IF Cached(view, t) THEN @ ELSE TipFetched(t)]
    /\ UNCHANGED <<db, session, touched>>

(* The mempool reads pcoinsTip between blocks.                             *)
AccessTipCoins(t) ==
    /\ session = "none"
    /\ tip' = [tip EXCEPT ![t] = TipFetched(t)]
    /\ UNCHANGED <<db, view, session, touched>>

(* UpdateCoins marks an input spent; HaveInputs made sure it is unspent.   *)
SpendInput(t) ==
    /\ session = "connect"
    /\ \E n \in ViewCoins(t) : ModifyCoins(t, ViewCoins(t) \ {n})
    /\ UNCHANGED <<db, session>>

(* UpdateCoins adds the outputs that are not unspendable.  ConnectBlock    *)
(* has rejected a block that overwrites unspent outputs, and a transaction *)
(* is in a block once, after which only it can spend its own outputs.      *)
AddOutputs_TwiceInABlock(t) ==
    /\ session = "connect" /\ ViewCoins(t) = {}
    /\ \E outs \in SUBSET Outputs : ModifyNewCoins(t, outs)
    /\ UNCHANGED <<db, session>>
AddOutputs(t) ==
    /\ session = "connect" /\ t \notin touched /\ ViewCoins(t) = {}
    /\ \E outs \in SUBSET Outputs : ModifyNewCoins(t, outs)
    /\ UNCHANGED <<db, session>>

(* DisconnectBlock removes the outputs of a transaction ...                *)
RemoveOutputs(t) ==
    /\ session = "disconnect"
    /\ ModifyCoins(t, {})
    /\ UNCHANGED <<db, session>>

(* ... and restores one it had spent (ApplyTxInUndo).                      *)
RestoreInput(t) ==
    /\ session = "disconnect"
    /\ \E n \in Outputs \ ViewCoins(t) : ModifyCoins(t, ViewCoins(t) \cup {n})
    /\ UNCHANGED <<db, session>>

-----------------------------------------------------------------------------
(* CCoinsViewCache::BatchWrite: one entry of the view moves to pcoinsTip.  *)
Merged_ErasesPruned(t) ==
    LET child == view[t] IN
    IF ~Cached(view, t) \/ ~child.dirty THEN tip[t]
    ELSE IF child.coins = {} THEN NoEntry
    ELSE [coins |-> child.coins, dirty |-> TRUE,
          fresh |-> Cached(tip, t) => tip[t].fresh]
Merged(t) ==
    LET child == view[t] IN
    IF ~Cached(view, t) \/ ~child.dirty THEN tip[t]
    ELSE IF ~Cached(tip, t)
         THEN IF child.coins = {} THEN NoEntry
              ELSE [coins |-> child.coins, dirty |-> TRUE, fresh |-> TRUE]
         ELSE IF tip[t].fresh /\ child.coins = {} THEN NoEntry
              ELSE [tip[t] EXCEPT !.coins = child.coins, !.dirty = TRUE]

(* view.Flush() at the end of the handler; the view is destroyed.          *)
FlushView ==
    /\ session # "none" /\ session' = "none"
    /\ tip' = [t \in Txids |-> Merged(t)]
    /\ view' = [t \in Txids |-> NoEntry]
    /\ touched' = {} /\ UNCHANGED db

(* ConnectBlock or DisconnectBlock fails: the view is destroyed unflushed. *)
AbandonView ==
    /\ session # "none" /\ session' = "none"
    /\ view' = [t \in Txids |-> NoEntry] /\ touched' = {}
    /\ UNCHANGED <<db, tip>>

(* FlushStateToDisk: pcoinsTip->Flush() writes the DIRTY entries in one    *)
(* batch (CCoinsViewDB::BatchWrite) and empties the cache.                 *)
Written(t) == IF Cached(tip, t) /\ tip[t].dirty THEN tip[t].coins ELSE db[t]
FlushTip ==
    /\ session = "none"
    /\ db' = [t \in Txids |-> Written(t)]
    /\ tip' = [t \in Txids |-> NoEntry]
    /\ UNCHANGED <<view, session, touched>>

(* The process ends; the database keeps its last batch.                    *)
Crash ==
    /\ tip' = [t \in Txids |-> NoEntry] /\ view' = [t \in Txids |-> NoEntry]
    /\ session' = "none" /\ touched' = {}
    /\ UNCHANGED db

NextCoins ==
    \/ OpenView \/ FlushView \/ AbandonView \/ FlushTip \/ Crash
    \/ \E t \in Txids :
         \/ AccessCoins(t) \/ AccessTipCoins(t)
         \/ SpendInput(t) \/ AddOutputs(t)
         \/ RemoveOutputs(t) \/ RestoreInput(t)

SpecCoins == InitCoins /\ [][NextCoins]_coinVars

-----------------------------------------------------------------------------
(* Shape of the state; outside of ConnectBlock and DisconnectBlock no view  *)
(* on top of pcoinsTip is left over.                                        *)
CoinsTypeOK ==
    /\ db \in [Txids -> SUBSET Outputs]
    /\ tip \in [Txids -> Entry \cup {NoEntry}]
    /\ view \in [Txids -> Entry \cup {NoEntry}]
    /\ session \in {"none", "connect", "disconnect"}
    /\ touched \subseteq Txids
    /\ session = "none" => touched = {} /\ \A t \in Txids : ~Cached(view, t)

(* The flags mean what coins.h says they mean: an entry that is not DIRTY  *)
(* agrees with the parent, and one that is FRESH has a parent without an   *)
(* unspent output of that transaction.                                     *)
FlagsAreTrue ==
    \A t \in Txids :
      /\ Cached(tip, t) => /\ tip[t].dirty \/ tip[t].coins = db[t]
                           /\ tip[t].fresh => db[t] = {}
      /\ Cached(view, t) => /\ view[t].dirty \/ view[t].coins = TipCoins(t)
                            /\ view[t].fresh => TipCoins(t) = {}

(* The assertion in BatchWrite holds: an entry moved to a parent that has  *)
(* none is FRESH.                                                          *)
BatchWriteAssertion ==
    \A t \in Txids :
      Cached(view, t) /\ view[t].dirty /\ view[t].coins # {} /\ ~Cached(tip, t)
        => view[t].fresh

Map == INSTANCE CoinsMap WITH
    onDisk <- db,
    atTip <- [t \in Txids |-> TipCoins(t)],
    inBlock <- [t \in Txids |-> ViewCoins(t)]

(* The stack of caches behaves as three plain maps (CoinsMap): reading     *)
(* through the caches never changes what anyone sees, a flush moves        *)
(* exactly the block's changes, and a crash loses only what came after     *)
(* the last write.                                                         *)
IsThreeMaps == Map!Spec
=============================================================================
