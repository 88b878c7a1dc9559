-------------------------- MODULE CoinsViewProofs ---------------------------
(***************************************************************************)
(* TLAPS proofs about the two halves of the chain state: the caches of     *)
(* unspent outputs (CoinsCache) and of nullifiers and anchors              *)
(* (ShieldedView).  CoinsInv and Inv are their inductive invariants.       *)
(***************************************************************************)
EXTENDS CoinsCache, ShieldedView, DataFacts, TLAPS

-----------------------------------------------------------------------------
(* Unspent outputs *)

Bookkeeping ==
    \A t \in Txids : Cached(view, t) =>
      /\ view[t].fresh \/ Cached(tip, t)
      /\ view[t].dirty => t \in touched

CoinsInv == CoinsTypeOK /\ FlagsAreTrue /\ Bookkeeping

(* An entry is not the absence of one.                                     *)
LEMMA EntryIsEntry == \A e \in Entry : e # NoEntry
BY Zenon, NoEntryAssumption DEF Entry

(* CCoinsModifier leaves an entry that is DIRTY, or none.                  *)
LEMMA ModifiedType ==
    ASSUME NEW e \in Entry, NEW c \in SUBSET Outputs
    PROVE  /\ Modified(e, c) \in Entry \cup {NoEntry}
           /\ Modified(e, c) = NoEntry => e.fresh /\ c = {}
           /\ Modified(e, c) # NoEntry =>
                 Modified(e, c) = [coins |-> c, dirty |-> TRUE, fresh |-> e.fresh]
BY Zenon, EntryIsEntry DEF Modified, Entry

(* An empty cache over the database, as at start-up, satisfies the         *)
(* inductive invariant.                                                    *)
LEMMA InitEstablishes == InitCoins => CoinsInv
BY Zenon DEF InitCoins, CoinsInv, CoinsTypeOK, FlagsAreTrue, Bookkeeping, Cached

(* Reading through pcoinsTip caches an entry and changes nobody's view.    *)
LEMMA TipFetchedType ==
    ASSUME CoinsTypeOK, NEW t \in Txids
    PROVE  /\ TipFetched(t) \in Entry \cup {NoEntry}
           /\ ~Cached(tip, t) /\ TipFetched(t) # NoEntry =>
                TipFetched(t) = [coins |-> db[t], dirty |-> FALSE, fresh |-> FALSE]
           /\ ~Cached(tip, t) /\ TipFetched(t) = NoEntry => db[t] = {}
           /\ Cached(tip, t) => TipFetched(t) = tip[t]
<1>1. [coins |-> db[t], dirty |-> FALSE, fresh |-> FALSE] \in Entry
  BY Zenon DEF CoinsTypeOK, Entry
<1> QED BY Zenon, <1>1, EntryIsEntry DEF CoinsTypeOK, TipFetched, Cached

(* What the view pulls from its parent.                                    *)
LEMMA TipCoinsType ==
    ASSUME CoinsTypeOK, NEW t \in Txids
    PROVE  TipCoins(t) \in SUBSET Outputs /\ ViewCoins(t) \in SUBSET Outputs
           /\ Pulled(t) \in Entry
BY Zenon DEF CoinsTypeOK, TipCoins, ViewCoins, Pulled, Cached, Entry
(* ModifyCoins keeps the invariant, leaves pcoinsTip's contents alone and  *)
(* changes one transaction in the view.                                    *)
LEMMA ModifyCoinsStep ==
    ASSUME CoinsInv, session # "none", NEW t \in Txids, NEW c \in SUBSET Outputs,
           ModifyCoins(t, c), UNCHANGED <<db, session>>
    PROVE  /\ CoinsInv'
           /\ \A u \in Txids : /\ TipCoins(u)' = TipCoins(u)
                               /\ ViewCoins(u)' = IF u = t THEN c ELSE ViewCoins(u)
<1> DEFINE e == IF Cached(view, t) THEN view[t] ELSE Pulled(t)
           f == IF Cached(view, t) THEN tip[t] ELSE TipFetched(t)
<1>1. e \in Entry
  BY Zenon, TipCoinsType DEF CoinsInv, CoinsTypeOK, Cached
<1>2. /\ view' = [view EXCEPT ![t] = Modified(e, c)]
      /\ tip' = [tip EXCEPT ![t] = f]
      /\ touched' = touched \cup {t}
  BY Zenon DEF ModifyCoins
<1>3. f \in Entry \cup {NoEntry}
  BY Zenon, TipFetchedType DEF CoinsInv, CoinsTypeOK
<1>4. CoinsTypeOK'
  BY Zenon, <1>1, <1>2, <1>3, ModifiedType DEF CoinsInv, CoinsTypeOK
<1>5. /\ \A u \in Txids \ {t} : tip'[u] = tip[u] /\ view'[u] = view[u]
      /\ tip'[t] = f /\ view'[t] = Modified(e, c)
  BY Zenon, <1>2 DEF CoinsInv, CoinsTypeOK
<1>6. \A u \in Txids : TipCoins(u)' = TipCoins(u)
  <2>1. TipCoins(t)' = TipCoins(t)
    BY <1>5, TipFetchedType DEF CoinsInv, CoinsTypeOK, TipCoins, Cached
  <2> QED BY Zenon, <2>1, <1>5 DEF TipCoins, Cached
<1>7. e.fresh => TipCoins(t) = {}
  BY Zenon DEF Pulled, CoinsInv, FlagsAreTrue
<1>8. Cached(tip, t) \/ e.fresh \/ f # NoEntry
  BY Zenon, TipFetchedType DEF CoinsInv, Bookkeeping, Pulled, TipCoins, Cached
<1>9. \A u \in Txids : ViewCoins(u)' = IF u = t THEN c ELSE ViewCoins(u)
  <2>1. ViewCoins(t)' = c
    <3>1. CASE Modified(e, c) = NoEntry
      <4>1. c = {} /\ TipCoins(t)' = {}
        BY Zenon, <3>1, <1>1, <1>6, <1>7, ModifiedType
      <4> QED BY Zenon, <4>1, <3>1, <1>5 DEF ViewCoins, Cached
    <3>2. CASE Modified(e, c) # NoEntry
      BY <3>2, <1>1, <1>5, ModifiedType DEF ViewCoins, Cached
    <3> QED BY Zenon, <3>1, <3>2
  <2> QED BY Zenon, <2>1, <1>5, <1>6 DEF ViewCoins, Cached
<1>10. FlagsAreTrue'
  <2> SUFFICES ASSUME NEW u \in Txids
               PROVE /\ Cached(tip, u)' => /\ tip'[u].dirty \/ tip'[u].coins = db[u]
                                           /\ tip'[u].fresh => db[u] = {}
                     /\ Cached(view, u)' => /\ view'[u].dirty \/ view'[u].coins = TipCoins(u)
                                            /\ view'[u].fresh => TipCoins(u) = {}
    BY Zenon, <1>6 DEF FlagsAreTrue
  <2>1. CASE u = t
    <3>1. Cached(tip, u)' => /\ tip'[u].dirty \/ tip'[u].coins = db[u]
                             /\ tip'[u].fresh => db[u] = {}
      BY <2>1, <1>5, TipFetchedType DEF CoinsInv, FlagsAreTrue, Cached
    <3>2. Cached(view, u)' => /\ view'[u].dirty \/ view'[u].coins = TipCoins(u)
                              /\ view'[u].fresh => TipCoins(u) = {}
      BY <2>1, <1>1, <1>5, <1>7, ModifiedType DEF Cached
    <3> QED BY Zenon, <3>1, <3>2
  <2>2. CASE u # t
    BY Zenon, <2>2, <1>5 DEF CoinsInv, FlagsAreTrue, Cached
  <2> QED BY Zenon, <2>1, <2>2
<1>11. Bookkeeping'
  <2> SUFFICES ASSUME NEW u \in Txids, Cached(view, u)'
               PROVE  (view'[u].fresh \/ Cached(tip, u)') /\ (view'[u].dirty => u \in touched')
    BY Zenon DEF Bookkeeping
  <2>1. CASE u = t
    <3>1. Cached(tip, t) => Cached(tip, t)'
      BY Zenon, <1>5, TipFetchedType DEF Cached, CoinsInv
    <3>2. view'[u].fresh = e.fresh
      BY <2>1, <1>1, <1>5, ModifiedType DEF Cached
    <3>3. view'[u].fresh \/ Cached(tip, u)'
      BY Zenon, <2>1, <3>1, <3>2, <1>5, <1>8 DEF Cached
    <3> QED BY Zenon, <2>1, <3>3, <1>2
  <2>2. CASE u # t
    BY Zenon, <2>2, <1>2, <1>5 DEF CoinsInv, Bookkeeping, Cached
  <2> QED BY Zenon, <2>1, <2>2
<1> QED BY Zenon, <1>4, <1>6, <1>9, <1>10, <1>11 DEF CoinsInv

(* A read keeps the invariant and changes what nobody sees.                *)
LEMMA AccessStep ==
    ASSUME CoinsInv, NEW t \in Txids, AccessCoins(t) \/ AccessTipCoins(t)
    PROVE  /\ CoinsInv'
           /\ \A u \in Txids : TipCoins(u)' = TipCoins(u) /\ ViewCoins(u)' = ViewCoins(u)
<1> DEFINE f == IF AccessCoins(t) /\ Cached(view, t) THEN tip[t] ELSE TipFetched(t)
           v == IF AccessCoins(t) THEN ViewFetched(t) ELSE view[t]
<1>1. /\ tip' = [tip EXCEPT ![t] = f] /\ view' = [view EXCEPT ![t] = v]
      /\ UNCHANGED <<db, session, touched>>
      /\ session = "none" => v = view[t]
  BY Zenon DEF AccessCoins, AccessTipCoins, CoinsInv, CoinsTypeOK
<1>2. f \in Entry \cup {NoEntry} /\ v \in Entry \cup {NoEntry}
  BY Zenon, TipFetchedType, TipCoinsType DEF CoinsInv, CoinsTypeOK, ViewFetched
<1>3. /\ \A u \in Txids \ {t} : tip'[u] = tip[u] /\ view'[u] = view[u]
      /\ tip'[t] = f /\ view'[t] = v
  BY Zenon, <1>1 DEF CoinsInv, CoinsTypeOK
<1>4. CoinsTypeOK'
  <2>1. session = "none" => \A u \in Txids : ~Cached(view, u)'
    BY Zenon, <1>1, <1>3 DEF CoinsInv, CoinsTypeOK, Cached
  <2> QED BY Zenon, <2>1, <1>1, <1>2 DEF CoinsInv, CoinsTypeOK
<1>5. \A u \in Txids : TipCoins(u)' = TipCoins(u)
  <2>1. TipCoins(t)' = TipCoins(t)
    BY <1>1, <1>3, TipFetchedType DEF CoinsInv, CoinsTypeOK, TipCoins, Cached
  <2> QED BY <2>1, <1>1, <1>3 DEF TipCoins, Cached
<1>6. v = view[t] \/ (~Cached(view, t) /\ v = Pulled(t) /\ f # NoEntry)
  BY Zenon DEF ViewFetched
<1>7. \A u \in Txids : ViewCoins(u)' = ViewCoins(u)
  <2>1. ViewCoins(t)' = ViewCoins(t)
    BY <1>3, <1>5, <1>6, TipCoinsType, EntryIsEntry DEF CoinsInv, ViewCoins, Cached, Pulled
  <2> QED BY Zenon, <2>1, <1>3, <1>5 DEF ViewCoins, Cached
<1>8. FlagsAreTrue'
  <2> SUFFICES ASSUME NEW u \in Txids
               PROVE /\ Cached(tip, u)' => /\ tip'[u].dirty \/ tip'[u].coins = db[u]
                                           /\ tip'[u].fresh => db[u] = {}
                     /\ Cached(view, u)' => /\ view'[u].dirty \/ view'[u].coins = TipCoins(u)
                                            /\ view'[u].fresh => TipCoins(u) = {}
    BY Zenon, <1>1, <1>5 DEF FlagsAreTrue
  <2>1. CASE u = t
    <3>1. Cached(tip, u)' => /\ tip'[u].dirty \/ tip'[u].coins = db[u]
                             /\ tip'[u].fresh => db[u] = {}
      BY <2>1, <1>3, TipFetchedType DEF CoinsInv, FlagsAreTrue, Cached
    <3>2. Cached(view, u)' => /\ view'[u].dirty \/ view'[u].coins = TipCoins(u)
                              /\ view'[u].fresh => TipCoins(u) = {}
      <4>1. CASE v = view[t]
        BY Zenon, <2>1, <4>1, <1>3 DEF CoinsInv, FlagsAreTrue, Cached
      <4>2. CASE v = Pulled(t)
        <5>1. Pulled(t).coins = TipCoins(t) /\ (Pulled(t).fresh => TipCoins(t) = {})
          BY Zenon DEF Pulled
        <5> QED BY Zenon, <5>1, <2>1, <4>2, <1>3
      <4> QED BY Zenon, <4>1, <4>2, <1>6
    <3> QED BY Zenon, <3>1, <3>2
  <2>2. CASE u # t
    BY Zenon, <2>2, <1>3 DEF CoinsInv, FlagsAreTrue, Cached
  <2> QED BY Zenon, <2>1, <2>2
<1>9. Bookkeeping'
  <2> SUFFICES ASSUME NEW u \in Txids, Cached(view, u)'
               PROVE  (view'[u].fresh \/ Cached(tip, u)') /\ (view'[u].dirty => u \in touched)
    BY Zenon, <1>1 DEF Bookkeeping
  <2>1. CASE u = t
    BY <2>1, <1>3, <1>6, TipFetchedType DEF CoinsInv, Bookkeeping, Cached, Pulled
  <2>2. CASE u # t
    BY Zenon, <2>2, <1>3 DEF CoinsInv, Bookkeeping, Cached
  <2> QED BY Zenon, <2>1, <2>2
<1> QED BY Zenon, <1>4, <1>5, <1>7, <1>8, <1>9 DEF CoinsInv

(* ModifyNewCoins may call the entry FRESH: the parent has no unspent      *)
(* output, because the block has not touched the transaction before.       *)
LEMMA AddOutputsStep ==
    ASSUME CoinsInv, NEW t \in Txids, AddOutputs(t)
    PROVE  /\ CoinsInv'
           /\ ViewCoins(t) = {}
           /\ \E c \in SUBSET Outputs : \A u \in Txids :
                 /\ TipCoins(u)' = TipCoins(u)
                 /\ ViewCoins(u)' = IF u = t THEN c ELSE ViewCoins(u)
<1> DEFINE e == [coins |-> {}, dirty |-> TRUE, fresh |-> TRUE]
<1>1. PICK c \in SUBSET Outputs : ModifyNewCoins(t, c)
  BY Zenon DEF AddOutputs
<1>2. /\ view' = [view EXCEPT ![t] = Modified(e, c)]
      /\ touched' = touched \cup {t} /\ UNCHANGED <<tip, db, session>>
      /\ session = "connect"
  BY Zenon, <1>1 DEF ModifyNewCoins, AddOutputs
<1>3. e \in Entry
  BY Zenon DEF Entry
<1>4. CoinsTypeOK'
  BY Zenon, <1>2, <1>3, ModifiedType DEF CoinsInv, CoinsTypeOK
<1>5. /\ \A u \in Txids \ {t} : view'[u] = view[u]
      /\ view'[t] = Modified(e, c)
  BY Zenon, <1>2 DEF CoinsInv, CoinsTypeOK
<1>6. \A u \in Txids : TipCoins(u)' = TipCoins(u)
  BY Zenon, <1>2 DEF TipCoins, Cached
<1>7. ViewCoins(t) = {} /\ TipCoins(t) = {}
  BY Zenon DEF AddOutputs, ViewCoins, CoinsInv, FlagsAreTrue, Bookkeeping
<1>8. \A u \in Txids : ViewCoins(u)' = IF u = t THEN c ELSE ViewCoins(u)
  <2>1. ViewCoins(t)' = c
    <3>1. CASE Modified(e, c) = NoEntry
      <4>1. c = {}
        BY Zenon, <3>1, <1>3, ModifiedType
      <4> QED BY Zenon, <4>1, <3>1, <1>5, <1>6, <1>7 DEF ViewCoins, Cached
    <3>2. CASE Modified(e, c) # NoEntry
      BY <3>2, <1>3, <1>5, ModifiedType DEF ViewCoins, Cached
    <3> QED BY Zenon, <3>1, <3>2
  <2> QED BY Zenon, <2>1, <1>5, <1>6 DEF ViewCoins, Cached
<1>9. FlagsAreTrue' /\ Bookkeeping'
  <2> SUFFICES ASSUME NEW u \in Txids
               PROVE /\ Cached(tip, u)' => /\ tip'[u].dirty \/ tip'[u].coins = db'[u]
                                           /\ tip'[u].fresh => db'[u] = {}
                     /\ Cached(view, u)' => /\ view'[u].dirty \/ view'[u].coins = TipCoins(u)
                                            /\ view'[u].fresh => TipCoins(u) = {}
                                            /\ view'[u].fresh \/ Cached(tip, u)'
                                            /\ view'[u].dirty => u \in touched'
    BY Zenon, <1>6 DEF FlagsAreTrue, Bookkeeping
  <2>1. CASE u = t
    BY <2>1, <1>2, <1>3, <1>5, <1>7, ModifiedType DEF CoinsInv, FlagsAreTrue, Cached
  <2>2. CASE u # t
    BY Zenon, <2>2, <1>2, <1>5 DEF CoinsInv, FlagsAreTrue, Bookkeeping, Cached
  <2> QED BY Zenon, <2>1, <2>2
<1> QED BY Zenon, <1>4, <1>6, <1>7, <1>8, <1>9 DEF CoinsInv

(* BatchWrite: pcoinsTip then shows exactly what the view showed, and its  *)
(* flags are still true of the database.                                   *)
LEMMA MergedIsView ==
    ASSUME CoinsInv, NEW t \in Txids
    PROVE  /\ Merged(t) \in Entry \cup {NoEntry}
           /\ Merged(t) = NoEntry => db[t] = ViewCoins(t)
           /\ Merged(t) # NoEntry => /\ Merged(t).coins = ViewCoins(t)
                                     /\ Merged(t).dirty \/ Merged(t).coins = db[t]
                                     /\ Merged(t).fresh => db[t] = {}
<1> USE DEF CoinsInv, CoinsTypeOK, FlagsAreTrue, Bookkeeping, Cached
<1>1. CASE ~Cached(view, t) \/ ~view[t].dirty
  <2>1. Merged(t) = tip[t]
    BY Zenon, <1>1 DEF Merged
  <2>2. ViewCoins(t) = TipCoins(t)
    BY Zenon, <1>1 DEF ViewCoins
  <2> QED BY Zenon, <2>1, <2>2 DEF TipCoins
<1>2. CASE Cached(view, t) /\ view[t].dirty /\ ~Cached(tip, t)
  <2>1. ViewCoins(t) = view[t].coins /\ db[t] = {}
    BY Zenon, <1>2 DEF ViewCoins, TipCoins
  <2>2. Merged(t) = IF view[t].coins = {} THEN NoEntry
                    ELSE [coins |-> view[t].coins, dirty |-> TRUE, fresh |-> TRUE]
    BY Zenon, <1>2 DEF Merged
  <2> QED BY Zenon, <1>2, <2>1, <2>2 DEF Entry
<1>3. CASE Cached(view, t) /\ view[t].dirty /\ Cached(tip, t)
  <2>1. ViewCoins(t) = view[t].coins /\ ViewCoins(t) \in SUBSET Outputs
    BY Zenon, <1>3, TipCoinsType DEF ViewCoins
  <2>2. Merged(t) = IF tip[t].fresh /\ view[t].coins = {} THEN NoEntry
                    ELSE [tip[t] EXCEPT !.coins = view[t].coins, !.dirty = TRUE]
    BY Zenon, <1>3 DEF Merged
  <2>3. tip[t] \in Entry
    BY Zenon, <1>3
  <2>4. CASE tip[t].fresh /\ view[t].coins = {}
    BY Zenon, <1>3, <2>1, <2>2, <2>4
  <2>5. CASE ~(tip[t].fresh /\ view[t].coins = {})
    <3>1. Merged(t) = [coins |-> view[t].coins, dirty |-> TRUE, fresh |-> tip[t].fresh]
      BY Zenon, <2>2, <2>3, <2>5 DEF Entry
    <3>2. Merged(t) \in Entry
      BY <3>1, <2>1, <2>3 DEF Entry
    <3>3. tip[t].fresh => db[t] = {}
      BY Zenon, <1>3
    <3>4. /\ Merged(t).coins = ViewCoins(t) /\ Merged(t).dirty
          /\ Merged(t).fresh => db[t] = {}
      BY ONLY <3>1, <3>3, <2>1
    <3> QED BY ONLY Zenon, <3>2, <3>4, EntryIsEntry
  <2> QED BY Zenon, <2>4, <2>5
<1> QED BY Zenon, <1>1, <1>2, <1>3

(* CCoinsViewCache::Flush of a block's view into pcoinsTip keeps the flags *)
(* true; afterwards pcoinsTip shows what the view showed.                  *)
LEMMA FlushViewStep ==
    ASSUME CoinsInv, FlushView
    PROVE  /\ CoinsInv'
           /\ \A u \in Txids : TipCoins(u)' = ViewCoins(u) /\ ViewCoins(u)' = ViewCoins(u)
<1>1. /\ tip' = [t \in Txids |-> Merged(t)] /\ view' = [t \in Txids |-> NoEntry]
      /\ db' = db /\ session' = "none" /\ touched' = {}
  BY Zenon DEF FlushView
<1>2. CoinsTypeOK'
  BY Zenon, <1>1, MergedIsView DEF CoinsInv, CoinsTypeOK, Cached
<1>3. \A u \in Txids : tip'[u] = Merged(u) /\ ~Cached(view, u)'
  BY Zenon, <1>1 DEF Cached
<1>4. \A u \in Txids : TipCoins(u)' = ViewCoins(u)
  BY Zenon, <1>1, <1>3, MergedIsView DEF TipCoins, Cached
<1>5. \A u \in Txids : ViewCoins(u)' = TipCoins(u)'
  BY Zenon, <1>3 DEF ViewCoins
<1>6. FlagsAreTrue' /\ Bookkeeping'
  BY Zenon, <1>1, <1>3, MergedIsView DEF FlagsAreTrue, Bookkeeping, Cached
<1> QED BY Zenon, <1>2, <1>4, <1>5, <1>6 DEF CoinsInv

(* Writing the DIRTY entries writes everything pcoinsTip shows.            *)
LEMMA FlushTipStep ==
    ASSUME CoinsInv, FlushTip
    PROVE  /\ CoinsInv'
           /\ \A u \in Txids : /\ db'[u] = TipCoins(u) /\ TipCoins(u)' = TipCoins(u)
                               /\ ViewCoins(u)' = ViewCoins(u)
<1>1. /\ db' = [t \in Txids |-> Written(t)] /\ tip' = [t \in Txids |-> NoEntry]
      /\ UNCHANGED <<view, session, touched>> /\ session = "none"
  BY Zenon DEF FlushTip
<1>2. \A u \in Txids : Written(u) = TipCoins(u)
  BY Zenon DEF Written, TipCoins, CoinsInv, FlagsAreTrue
<1>3. \A u \in Txids : /\ db'[u] = TipCoins(u) /\ ~Cached(tip, u)'
                       /\ ~Cached(view, u)' /\ ~Cached(view, u)
  BY Zenon, <1>1, <1>2 DEF CoinsInv, CoinsTypeOK, Cached
<1>4. \A u \in Txids : TipCoins(u)' = TipCoins(u)
  BY Zenon, <1>3 DEF TipCoins
<1>5. \A u \in Txids : ViewCoins(u)' = ViewCoins(u)
  BY Zenon, <1>3, <1>4 DEF ViewCoins
<1>6. CoinsTypeOK'
  BY Zenon, <1>1, <1>2, <1>3, TipCoinsType DEF CoinsInv, CoinsTypeOK
<1>7. FlagsAreTrue' /\ Bookkeeping'
  BY Zenon, <1>3 DEF FlagsAreTrue, Bookkeeping
<1> QED BY Zenon, <1>3, <1>4, <1>5, <1>6, <1>7 DEF CoinsInv

(* Abandoning a view and crashing forget whole caches.                     *)
LEMMA ForgetStep ==
    ASSUME CoinsInv, AbandonView \/ Crash
    PROVE  /\ CoinsInv' /\ session' = "none" /\ db' = db
           /\ \A u \in Txids : /\ TipCoins(u)' = IF AbandonView THEN TipCoins(u) ELSE db[u]
                               /\ ViewCoins(u)' = TipCoins(u)'
<1>1. /\ view' = [t \in Txids |-> NoEntry] /\ db' = db
      /\ tip' = IF AbandonView THEN tip ELSE [t \in Txids |-> NoEntry]
      /\ session' = "none" /\ touched' = {}
  BY Zenon DEF AbandonView, Crash
<1>2. \A u \in Txids : ~Cached(view, u)' /\ (AbandonView \/ ~Cached(tip, u)')
  BY Zenon, <1>1 DEF Cached
<1>3. CoinsTypeOK'
  BY Zenon, <1>1, <1>2 DEF CoinsInv, CoinsTypeOK
<1>4. FlagsAreTrue' /\ Bookkeeping'
  BY Zenon, <1>1, <1>2 DEF CoinsInv, FlagsAreTrue, Bookkeeping, Cached
<1>5. \A u \in Txids : TipCoins(u)' = IF AbandonView THEN TipCoins(u) ELSE db[u]
  BY Zenon, <1>1, <1>2 DEF TipCoins, Cached
<1>6. \A u \in Txids : ViewCoins(u)' = TipCoins(u)'
  BY Zenon, <1>2 DEF ViewCoins
<1> QED BY Zenon, <1>1, <1>3, <1>4, <1>5, <1>6 DEF CoinsInv

(* Opening a view on pcoinsTip changes nothing that anyone sees.           *)
LEMMA OpenStep ==
    ASSUME CoinsInv, OpenView
    PROVE  /\ CoinsInv'
           /\ \A u \in Txids : TipCoins(u)' = TipCoins(u) /\ ViewCoins(u)' = ViewCoins(u)
<1>1. UNCHANGED <<db, tip, view, touched>> /\ session' \in {"connect", "disconnect"}
  BY Zenon DEF OpenView
<1> QED BY Zenon, <1>1 DEF CoinsInv, CoinsTypeOK, FlagsAreTrue, Bookkeeping, Cached, TipCoins, ViewCoins

(* Every step of ConnectBlock, DisconnectBlock, the flushes, a crash or a  *)
(* lookup preserves the inductive invariant.                               *)
LEMMA StepPreserves == CoinsInv /\ [NextCoins]_coinVars => CoinsInv'
<1> SUFFICES ASSUME CoinsInv, [NextCoins]_coinVars PROVE CoinsInv'
  BY Zenon
<1>1. CASE OpenView
  BY Zenon, <1>1, OpenStep
<1>2. CASE FlushView
  BY Zenon, <1>2, FlushViewStep
<1>3. CASE AbandonView \/ Crash
  BY Zenon, <1>3, ForgetStep
<1>4. CASE FlushTip
  BY Zenon, <1>4, FlushTipStep
<1>5. ASSUME NEW t \in Txids, AccessCoins(t) \/ AccessTipCoins(t) PROVE CoinsInv'
  BY Zenon, <1>5, AccessStep
<1>6. ASSUME NEW t \in Txids, AddOutputs(t) PROVE CoinsInv'
  BY Zenon, <1>6, AddOutputsStep
<1>7. ASSUME NEW t \in Txids, SpendInput(t) PROVE CoinsInv'
  <2>1. PICK n \in ViewCoins(t) : ModifyCoins(t, ViewCoins(t) \ {n})
    BY Zenon, <1>7 DEF SpendInput
  <2> QED BY Zenon, <2>1, <1>7, ModifyCoinsStep, TipCoinsType DEF SpendInput, CoinsInv
<1>8. ASSUME NEW t \in Txids, RemoveOutputs(t) PROVE CoinsInv'
  BY Zenon, <1>8, ModifyCoinsStep DEF RemoveOutputs
<1>9. ASSUME NEW t \in Txids, RestoreInput(t) PROVE CoinsInv'
  <2>1. PICK n \in Outputs \ ViewCoins(t) : ModifyCoins(t, ViewCoins(t) \cup {n})
    BY Zenon, <1>9 DEF RestoreInput
  <2> QED BY Zenon, <2>1, <1>9, ModifyCoinsStep, TipCoinsType DEF RestoreInput, CoinsInv
<1>10. CASE UNCHANGED coinVars
  BY Zenon, <1>10 DEF coinVars, CoinsInv, CoinsTypeOK, FlagsAreTrue, Bookkeeping, Cached, TipCoins
<1> QED BY Zenon, <1>1, <1>2, <1>3, <1>4, <1>5, <1>6, <1>7, <1>8, <1>9, <1>10 DEF NextCoins

(* The inductive invariant of the coins caches holds in every state of     *)
(* every execution.                                                        *)
THEOREM CoinsInvariance == SpecCoins => []CoinsInv
BY InitEstablishes, StepPreserves, PTL DEF SpecCoins

(* The flags are true, always: an entry that is not DIRTY may be dropped   *)
(* and a FRESH one deleted without asking the parent.                      *)
THEOREM FlagsCorrect == SpecCoins => [](CoinsTypeOK /\ FlagsAreTrue)
BY CoinsInvariance, PTL DEF CoinsInv

(* BatchWrite's assertion on FRESH never fails.                            *)
THEOREM AssertionHolds == SpecCoins => []BatchWriteAssertion
<1>1. CoinsInv => BatchWriteAssertion
  BY Zenon DEF CoinsInv, Bookkeeping, BatchWriteAssertion
<1> QED BY <1>1, CoinsInvariance, PTL

-----------------------------------------------------------------------------
(* One step of the caches is one step of the maps, or changes none.        *)
LEMMA StepRefines == CoinsInv /\ [NextCoins]_coinVars => [Map!Next]_(Map!vars)
<1> SUFFICES ASSUME CoinsInv, [NextCoins]_coinVars PROVE [Map!Next]_(Map!vars)
  BY Zenon
<1> DEFINE at == [t \in Txids |-> TipCoins(t)]
           in == [t \in Txids |-> ViewCoins(t)]
<1> USE DEF CoinsInv
<1>1. CASE OpenView
  <2>1. at' = at /\ in' = in
    BY Zenon, <1>1, OpenStep
  <2>2. Map!Open
    BY Zenon, <1>1, <2>1 DEF OpenView, Map!Open
  <2> QED BY Zenon, <2>2 DEF Map!Next
<1>2. CASE FlushView
  <2>1. at' = in /\ in' = in
    BY Zenon, <1>2, FlushViewStep
  <2>2. Map!Commit
    BY Zenon, <1>2, <2>1 DEF FlushView, Map!Commit
  <2> QED BY Zenon, <2>2 DEF Map!Next
<1>3. CASE AbandonView
  <2>1. at' = at /\ in' = at
    BY Zenon, <1>3, ForgetStep
  <2>2. Map!Abort
    BY Zenon, <1>3, <2>1 DEF AbandonView, Map!Abort
  <2> QED BY Zenon, <2>2 DEF Map!Next
<1>4. CASE Crash /\ ~AbandonView
  <2>1. at' = [t \in Txids |-> db[t]] /\ in' = [t \in Txids |-> db[t]]
    BY Zenon, <1>4, ForgetStep
  <2>2. db = [t \in Txids |-> db[t]]
    BY Zenon DEF CoinsTypeOK
  <2>3. at' = db /\ in' = db
    BY Zenon, <2>1, <2>2
  <2>4. Map!Crash
    BY Zenon, <1>4, <2>3 DEF Crash, Map!Crash
  <2> QED BY Zenon, <2>4 DEF Map!Next
<1>5. CASE FlushTip
  <2>1. at' = at /\ in' = in /\ \A t \in Txids : db'[t] = TipCoins(t)
    BY Zenon, <1>5, FlushTipStep
  <2>2. db' = [t \in Txids |-> db'[t]]
    BY Zenon, <1>5 DEF FlushTip
  <2>3. db' = at
    BY Zenon, <2>1, <2>2
  <2>4. Map!Save
    BY Zenon, <1>5, <2>1, <2>3 DEF FlushTip, Map!Save
  <2> QED BY Zenon, <2>4 DEF Map!Next
<1>6. ASSUME NEW t \in Txids, AccessCoins(t) \/ AccessTipCoins(t)
      PROVE  UNCHANGED Map!vars
  <2>1. at' = at /\ in' = in
    BY Zenon, <1>6, AccessStep
  <2> QED BY Zenon, <1>6, <2>1 DEF AccessCoins, AccessTipCoins, Map!vars
<1>7. ASSUME NEW t \in Txids, AddOutputs(t) PROVE Map!Next
  <2>1. PICK c \in SUBSET Outputs : \A u \in Txids :
           /\ TipCoins(u)' = TipCoins(u)
           /\ ViewCoins(u)' = IF u = t THEN c ELSE ViewCoins(u)
    BY Zenon, <1>7, AddOutputsStep
  <2>2. at' = at /\ in' = [in EXCEPT ![t] = c]
    BY Zenon, <2>1
  <2>3. in[t] = {}
    BY Zenon, <1>7, AddOutputsStep
  <2>4. Map!Connect(t)
    BY Zenon, <1>7, <2>2, <2>3 DEF AddOutputs, Map!Connect
  <2> QED BY Zenon, <2>4 DEF Map!Next
<1>8. ASSUME NEW t \in Txids, SpendInput(t) PROVE Map!Next
  <2>1. PICK n \in ViewCoins(t) : ModifyCoins(t, ViewCoins(t) \ {n})
    BY Zenon, <1>8 DEF SpendInput
  <2>2. \A u \in Txids : /\ TipCoins(u)' = TipCoins(u)
                         /\ ViewCoins(u)' = IF u = t THEN ViewCoins(t) \ {n} ELSE ViewCoins(u)
    BY Zenon, <2>1, <1>8, ModifyCoinsStep, TipCoinsType DEF SpendInput
  <2>3. at' = at /\ in' = [in EXCEPT ![t] = @ \ {n}] /\ n \in in[t]
    BY Zenon, <2>2
  <2>4. Map!Connect(t)
    BY Zenon, <1>8, <2>3 DEF SpendInput, Map!Connect
  <2> QED BY Zenon, <2>4 DEF Map!Next
<1>9. ASSUME NEW t \in Txids, RemoveOutputs(t) PROVE Map!Next
  <2>1. \A u \in Txids : /\ TipCoins(u)' = TipCoins(u)
                         /\ ViewCoins(u)' = IF u = t THEN {} ELSE ViewCoins(u)
    BY Zenon, <1>9, ModifyCoinsStep DEF RemoveOutputs
  <2>2. at' = at /\ in' = [in EXCEPT ![t] = {}]
    BY Zenon, <2>1
  <2>3. Map!Disconnect(t)
    BY Zenon, <1>9, <2>2 DEF RemoveOutputs, Map!Disconnect
  <2> QED BY Zenon, <2>3 DEF Map!Next
<1>10. ASSUME NEW t \in Txids, RestoreInput(t) PROVE Map!Next
  <2>1. PICK n \in Outputs \ ViewCoins(t) : ModifyCoins(t, ViewCoins(t) \cup {n})
    BY Zenon, <1>10 DEF RestoreInput
  <2>2. \A u \in Txids : /\ TipCoins(u)' = TipCoins(u)
                         /\ ViewCoins(u)' = IF u = t THEN ViewCoins(t) \cup {n} ELSE ViewCoins(u)
    BY Zenon, <2>1, <1>10, ModifyCoinsStep, TipCoinsType DEF RestoreInput
  <2>3. at' = at /\ in' = [in EXCEPT ![t] = @ \cup {n}] /\ n \in Outputs \ in[t]
    BY Zenon, <2>2
  <2>4. Map!Disconnect(t)
    BY Zenon, <1>10, <2>3 DEF RestoreInput, Map!Disconnect
  <2> QED BY Zenon, <2>4 DEF Map!Next
<1>11. CASE UNCHANGED coinVars
  BY Zenon, <1>11 DEF coinVars, Map!vars, TipCoins, ViewCoins, Cached
<1> QED BY Zenon, <1>1, <1>2, <1>3, <1>4, <1>5, <1>6, <1>7, <1>8, <1>9, <1>10, <1>11 DEF NextCoins

(* The caches of coins.cpp implement three plain maps (CoinsMap).          *)
THEOREM CachesAreMaps == SpecCoins => IsThreeMaps
<1>1. InitCoins => Map!Init
  BY Zenon DEF InitCoins, Map!Init, TipCoins, ViewCoins, Cached
<1> QED BY <1>1, StepRefines, CoinsInvariance, PTL DEF SpecCoins, IsThreeMaps, Map!Spec

-----------------------------------------------------------------------------
(* Nullifiers and anchors *)

(* The inductive invariant. *)

(* An anchor map a over the anchors d of its parent: whether it has a root, *)
(* and that a tree is stored under its own root and an entry that is not    *)
(* dirty says what the parent says.                                         *)
CacheEntry == [entered : BOOLEAN, dirty : BOOLEAN, tree : Roots]
Has(a, d, r) == IF r \in DOMAIN a THEN a[r].entered ELSE (r = Empty \/ r \in DOMAIN d)
Faithful(a, d) ==
    /\ \A r \in DOMAIN d : r \in Roots /\ d[r] = r
    /\ \A r \in DOMAIN a :
         /\ r \in Roots /\ a[r] \in CacheEntry /\ a[r].tree = r
         /\ ~a[r].dirty => (a[r].entered <=> (r = Empty \/ r \in DOMAIN d))
AllEntered(a) == \A r \in DOMAIN a : a[r].entered

(* The same for a nullifier map c over the set d.                           *)
Mark == [entered : BOOLEAN, dirty : BOOLEAN]
Holds(c, d, n) == IF n \in DOMAIN c THEN c[n].entered ELSE n \in d
FaithfulMarks(c, d) ==
    /\ DOMAIN c \subseteq Nullifiers /\ d \subseteq Nullifiers
    /\ \A n \in DOMAIN c : c[n] \in Mark /\ (~c[n].dirty => (c[n].entered <=> n \in d))

(* The trees after the blocks of the chain to b, the undo data of b, and    *)
(* that no two blocks of the chain to b reveal the same nullifier.          *)
TreesOf(p, b) == {TreeAfter[a][p] : a \in Chain(b)}
UndoOf(b) == [p \in Popped |-> TreeAfter[Parent[b]][p]]
Disjoint(b) == \A x, y \in Chain(b) \ {Genesis} : x # y => Reveals[x] \cap Reveals[y] = {}

Shape ==
    /\ disk.block \in Blocks /\ chainTip \in Blocks
    /\ disk.best \in [Pools -> Roots] /\ cache.best \in [Pools -> {NoHash} \cup Roots]
    /\ cache = [block |-> cache.block, best |-> cache.best,
                anchors |-> cache.anchors, nullifiers |-> cache.nullifiers]
    /\ undo \in [Blocks -> {NoHash} \cup [Popped -> Roots]]
    /\ IF cache.block = NoHash THEN chainTip = disk.block ELSE cache.block = chainTip
UndoInv ==
    /\ \A b \in Blocks \ {Genesis} : undo[b] = NoHash \/ undo[b] = UndoOf(b)
    /\ \A b \in Chain(chainTip) \ {Genesis} : undo[b] = UndoOf(b)
    /\ \A b \in Chain(disk.block) \ {Genesis} : undo[b] = UndoOf(b)
PoolInv ==
    \A p \in Pools :
      /\ Faithful(cache.anchors[p], disk.anchors[p])
      /\ Has(cache.anchors[p], disk.anchors[p], Best(p)) /\ OnDisk(p, disk.best[p])
      /\ p \notin Popped => AllEntered(cache.anchors[p])
ChainInv ==
    \A p \in Popped :
      /\ Best(p) = TreeAfter[chainTip][p]
      /\ \A r \in Roots : Has(cache.anchors[p], disk.anchors[p], r) <=> r \in TreesOf(p, chainTip)
DiskInv ==
    \A p \in Popped :
      /\ disk.best[p] = TreeAfter[disk.block][p] /\ Empty \notin DOMAIN disk.anchors[p]
      /\ \A r \in Roots : OnDisk(p, r) <=> r \in TreesOf(p, disk.block)
NullInv ==
    /\ FaithfulMarks(cache.nullifiers, disk.nullifiers)
    /\ \A n \in Nullifiers : Holds(cache.nullifiers, disk.nullifiers, n) <=> n \in RevealedBy(chainTip)
    /\ disk.nullifiers = RevealedBy(disk.block)
    /\ Disjoint(chainTip) /\ Disjoint(disk.block)

Inv == Shape /\ UndoInv /\ PoolInv /\ ChainInv /\ DiskInv /\ NullInv

-----------------------------------------------------------------------------
(* Chains of blocks and the trees after them. *)

\* The blocks with their pprev links are a tree.
LEMMA BlocksAreATree == Tree(Blocks, Genesis, Parent)
  BY Zenon, BlockTreeAssumption DEF Tree

\* What holds of the genesis block and of a block whenever it holds of its pprev
\* holds of every block.
LEMMA ByParent ==
    ASSUME NEW S \in SUBSET Blocks, Genesis \in S,
           \A b \in Blocks \ {Genesis} : Parent[b] \in S => b \in S
    PROVE  S = Blocks
  BY BlocksAreATree, TreeInduction

\* A chain is its last block and the chain to its pprev.
LEMMA ChainFacts ==
    /\ Chain(Genesis) = {Genesis}
    /\ \A b \in Blocks \ {Genesis} : Chain(b) = {b} \cup Chain(Parent[b])
    /\ \A b \in Blocks : Chain(b) \in SUBSET Blocks
<1>1. Chains = ChainsOf(Blocks, Genesis, Parent)
  BY Zenon DEF Chains, ChainsOf
<1>2. Chained(Chains, Blocks, Genesis, Parent)
  BY Zenon, <1>1, BlocksAreATree, ChainsExist
<1>3. QED
  BY Zenon, <1>2 DEF Chained, Chain

\* A chain holds its last block and the genesis block, and no block is among its
\* own ancestors.
LEMMA ChainEnds ==
    /\ \A b \in Blocks : b \in Chain(b) /\ Genesis \in Chain(b)
    /\ \A b \in Blocks \ {Genesis} : Parent[b] \in Blocks /\ b \notin Chain(Parent[b])
<1>1. Chained(Chains, Blocks, Genesis, Parent)
  BY Zenon, ChainFacts DEF Chained, Chain
<1>2. QED
  BY Zenon, <1>1, BlocksAreATree, ChainEndPoints DEF Chain

\* What replaying a chain gives: the trees of its parent with the commitments of
\* the block appended.
LEMMA TreeFacts ==
    /\ TreeAfter \in [Blocks -> [Pools -> Roots]]
    /\ \A p \in Pools : TreeAfter[Genesis][p] = Empty
    /\ \A b \in Blocks \ {Genesis} : \A p \in Pools :
         TreeAfter[b][p] = TreeAfter[Parent[b]][p] \o Commitments[b][p]
<1> DEFINE V == [Pools -> Roots]
           step == [x \in Blocks \X V |-> [p \in Pools |-> x[2][p] \o Commitments[x[1]][p]]]
           v0 == [p \in Pools |-> Empty]
           IsTree(f) == f = [b \in Blocks |->
                               IF b = Genesis THEN [p \in Pools |-> Empty]
                               ELSE [p \in Pools |-> f[Parent[b]][p] \o Commitments[b][p]]]
<1>1. step \in [Blocks \X V -> V] /\ v0 \in V
  <2>1. ASSUME NEW b \in Blocks, NEW v \in V, NEW p \in Pools PROVE v[p] \o Commitments[b][p] \in Roots
    <3>1. v[p] \in Seq(Notes) /\ Commitments[b][p] \in Seq(Notes)
      BY Zenon, ShieldedAssumption DEF Roots
    <3>2. QED
      BY <3>1 DEF Roots
  <2>2. Empty \in Roots
    BY DEF Empty, Roots
  <2>3. ASSUME NEW x \in Blocks \X V PROVE step[x] \in V
    <3>1. x[1] \in Blocks /\ x[2] \in V
      BY Zenon
    <3>2. QED
      BY Zenon, <2>1, <3>1
  <2>4. QED
    BY Zenon, <2>2, <2>3
<1>2. PICK f \in [Blocks -> V] :
         AlongLinks(f, Blocks, Genesis, Parent, v0, step)
  <2> HIDE DEF step, V, v0
  <2>1. QED
    BY Zenon, <1>1, BlocksAreATree, TreeRecursion
<1>3. ASSUME NEW b \in Blocks \ {Genesis}
      PROVE  f[b] = [p \in Pools |-> f[Parent[b]][p] \o Commitments[b][p]]
  <2>1. f[b] = step[<<b, f[Parent[b]]>>] /\ <<b, f[Parent[b]]>> \in Blocks \X V
    BY Zenon, <1>2, BlockTreeAssumption DEF AlongLinks
  <2>2. QED
    BY Zenon, <2>1
<1>4. IsTree(f)
  BY Zenon, <1>2, <1>3 DEF AlongLinks
<1>5. IsTree(TreeAfter)
  <2>1. TreeAfter = CHOOSE h : IsTree(h)
    BY Zenon DEF TreeAfter
  <2> HIDE DEF IsTree
  <2>2. QED
    BY Zenon, <1>4, <2>1
<1>6. ASSUME NEW b \in Blocks \ {Genesis}
      PROVE  TreeAfter[b] = [p \in Pools |-> TreeAfter[Parent[b]][p] \o Commitments[b][p]]
  BY Zenon, <1>5
<1>7. TreeAfter[Genesis] = v0
  BY Zenon, <1>5, BlockTreeAssumption
<1>8. TreeAfter \in [Blocks -> V]
  <2> DEFINE S == {c \in Blocks : TreeAfter[c] = f[c]}
  <2>1. S \in SUBSET Blocks /\ Genesis \in S
    BY Zenon, <1>2, <1>7, BlockTreeAssumption DEF AlongLinks
  <2>2. ASSUME NEW c \in Blocks \ {Genesis}, Parent[c] \in S PROVE c \in S
    BY Zenon, <1>3, <1>6, <2>2
  <2>3. S = Blocks
    <3> HIDE DEF S
    <3>1. QED
      BY Zenon, <2>1, <2>2, ByParent
  <2>4. \A c \in Blocks : TreeAfter[c] \in V
    BY Zenon, <1>2, <2>3
  <2>5. \E D : TreeAfter = [c \in Blocks |-> D[c]]
    BY Zenon, <1>5
  <2> HIDE DEF IsTree, V, S
  <2>6. QED
    BY Zenon, <2>4, <2>5
<1>9. QED
  BY <1>6, <1>7, <1>8

\* No tree of the chain to b is longer than the tree after b.
LEMMA TreesGrow ==
    ASSUME NEW p \in Pools, NEW b \in Blocks, NEW a \in Chain(b)
    PROVE  Len(TreeAfter[a][p]) <= Len(TreeAfter[b][p])
<1> DEFINE S == {c \in Blocks : \A x \in Chain(c) : Len(TreeAfter[x][p]) <= Len(TreeAfter[c][p])}
<1>1. \A c \in Blocks : TreeAfter[c][p] \in Seq(Notes) /\ Commitments[c][p] \in Seq(Notes)
  BY TreeFacts, ShieldedAssumption DEF Roots
<1>2. \A c \in Blocks : Len(TreeAfter[c][p]) \in Nat /\ Len(Commitments[c][p]) \in Nat
  BY <1>1
<1>3. S \in SUBSET Blocks /\ Genesis \in S
  BY <1>2, ChainFacts, BlockTreeAssumption
<1>4. ASSUME NEW c \in Blocks \ {Genesis}, Parent[c] \in S PROVE c \in S
  <2>1. Parent[c] \in Blocks /\ Chain(c) = {c} \cup Chain(Parent[c]) /\ Chain(c) \in SUBSET Blocks
    BY Zenon, ChainFacts, ChainEnds
  <2>2. Len(TreeAfter[c][p]) = Len(TreeAfter[Parent[c]][p]) + Len(Commitments[c][p])
    <3> DEFINE t == TreeAfter[Parent[c]][p]
               d == Commitments[c][p]
    <3>1. t \in Seq(Notes) /\ d \in Seq(Notes) /\ TreeAfter[c][p] = t \o d
      BY Zenon, <1>1, <2>1, TreeFacts
    <3> HIDE DEF t, d
    <3>2. Len(t \o d) = Len(t) + Len(d)
      BY <3>1
    <3>3. QED
      BY Zenon, <3>1, <3>2 DEF t, d
  <2>3. ASSUME NEW x \in Chain(c) PROVE Len(TreeAfter[x][p]) <= Len(TreeAfter[c][p])
    <3>1. CASE x = c
      BY <3>1, <1>2
    <3>2. CASE x \in Chain(Parent[c])
      <4>1. Len(TreeAfter[x][p]) <= Len(TreeAfter[Parent[c]][p])
        BY Zenon, <1>4, <3>2
      <4>2. /\ Len(TreeAfter[x][p]) \in Nat /\ Len(TreeAfter[Parent[c]][p]) \in Nat
            /\ Len(Commitments[c][p]) \in Nat
        BY Zenon, <1>2, <2>1
      <4>3. \A i, j, k, n \in Nat : i <= j /\ n = j + k => i <= n
        OBVIOUS
      <4>4. QED
        BY Zenon, <4>1, <4>2, <4>3, <2>2, <1>2
    <3>3. QED
      BY Zenon, <2>1, <3>1, <3>2
  <2>4. QED
    BY Zenon, <2>3
<1>5. S = Blocks
  <2> HIDE DEF S
  <2>1. QED
    BY Zenon, <1>3, <1>4, ByParent
<1>6. QED
  BY Zenon, <1>5

\* The trees of a chain: connecting a block adds the tree after it, which, if it
\* is not the tree before it, is none of the trees of the chain so far.
LEMMA TreesFacts ==
    ASSUME NEW p \in Pools
    PROVE  /\ TreesOf(p, Genesis) = {Empty}
           /\ \A b \in Blocks : /\ TreesOf(p, b) \subseteq Roots
                                /\ Empty \in TreesOf(p, b) /\ TreeAfter[b][p] \in TreesOf(p, b)
           /\ \A b \in Blocks \ {Genesis} :
                /\ TreesOf(p, b) = TreesOf(p, Parent[b]) \cup {TreeAfter[b][p]}
                /\ TreeAfter[b][p] # TreeAfter[Parent[b]][p] =>
                     TreeAfter[b][p] \notin TreesOf(p, Parent[b])
<1>1. TreesOf(p, Genesis) = {Empty}
  BY ChainFacts, TreeFacts DEF TreesOf
<1>2. ASSUME NEW b \in Blocks
      PROVE  /\ TreesOf(p, b) \subseteq Roots
             /\ Empty \in TreesOf(p, b) /\ TreeAfter[b][p] \in TreesOf(p, b)
  <2>1. Chain(b) \in SUBSET Blocks /\ b \in Chain(b) /\ Genesis \in Chain(b)
    BY Zenon, ChainFacts, ChainEnds
  <2>2. QED
    BY <2>1, TreeFacts DEF TreesOf
<1>3. ASSUME NEW b \in Blocks \ {Genesis}
      PROVE  TreesOf(p, b) = TreesOf(p, Parent[b]) \cup {TreeAfter[b][p]}
  BY ChainFacts DEF TreesOf
<1>4. ASSUME NEW b \in Blocks \ {Genesis}, TreeAfter[b][p] # TreeAfter[Parent[b]][p],
             TreeAfter[b][p] \in TreesOf(p, Parent[b])
      PROVE  FALSE
  <2>1. Parent[b] \in Blocks
    BY Zenon, ChainEnds
  <2>2. PICK a \in Chain(Parent[b]) : TreeAfter[b][p] = TreeAfter[a][p]
    BY Zenon, <1>4 DEF TreesOf
  <2>3. Len(TreeAfter[b][p]) <= Len(TreeAfter[Parent[b]][p])
    BY Zenon, <2>1, <2>2, TreesGrow
  <2> DEFINE t == TreeAfter[Parent[b]][p]
             c == Commitments[b][p]
  <2>4. t \in Seq(Notes) /\ c \in Seq(Notes) /\ TreeAfter[b][p] = t \o c
    <3>1. t \in Seq(Notes) /\ c \in Seq(Notes)
      BY <2>1, TreeFacts, ShieldedAssumption DEF Roots
    <3>2. TreeAfter[b][p] = t \o c
      BY Zenon, TreeFacts
    <3>3. QED
      BY Zenon, <3>1, <3>2
  <2> HIDE DEF t, c
  <2>5. Len(t) \in Nat /\ Len(c) \in Nat /\ Len(t \o c) = Len(t) + Len(c)
    BY <2>4
  <2>6. Len(c) = 0
    BY <2>3, <2>4, <2>5 DEF t
  <2>7. c = <<>>
    BY <2>4, <2>6
  <2>8. t \o c = t
    <3>1. t \o <<>> = t
      BY <2>4
    <3>2. QED
      BY Zenon, <2>7, <3>1
  <2>9. QED
    BY Zenon, <1>4, <2>4, <2>8 DEF t
<1>5. QED
  BY Zenon, <1>1, <1>2, <1>3, <1>4

\* The nullifiers of a chain: those of the chain to pprev and those of the block.
LEMMA RevealedFacts ==
    /\ RevealedBy(Genesis) = {} /\ Disjoint(Genesis)
    /\ \A b \in Blocks : RevealedBy(b) \subseteq Nullifiers
    /\ \A b \in Blocks \ {Genesis} :
         /\ RevealedBy(b) = RevealedBy(Parent[b]) \cup Reveals[b]
         /\ Disjoint(b) <=> (Disjoint(Parent[b]) /\ RevealedBy(Parent[b]) \cap Reveals[b] = {})
<1>1. RevealedBy(Genesis) = {} /\ Disjoint(Genesis)
  BY Zenon, ChainFacts DEF RevealedBy, Disjoint
<1>2. ASSUME NEW b \in Blocks PROVE RevealedBy(b) \subseteq Nullifiers
  BY ChainFacts, ShieldedAssumption DEF RevealedBy
<1>3. ASSUME NEW b \in Blocks \ {Genesis}
      PROVE  /\ RevealedBy(b) = RevealedBy(Parent[b]) \cup Reveals[b]
             /\ Disjoint(b) <=> (Disjoint(Parent[b]) /\ RevealedBy(Parent[b]) \cap Reveals[b] = {})
  <2>1. /\ Chain(b) \ {Genesis} = (Chain(Parent[b]) \ {Genesis}) \cup {b}
        /\ b \notin Chain(Parent[b]) /\ b # Genesis
    BY ChainFacts, ChainEnds
  <2>2. RevealedBy(b) = RevealedBy(Parent[b]) \cup Reveals[b]
    BY Zenon, <2>1 DEF RevealedBy
  <2>3. ASSUME Disjoint(b) PROVE Disjoint(Parent[b]) /\ RevealedBy(Parent[b]) \cap Reveals[b] = {}
    BY <2>1, <2>3 DEF Disjoint, RevealedBy
  <2>4. ASSUME Disjoint(Parent[b]), RevealedBy(Parent[b]) \cap Reveals[b] = {} PROVE Disjoint(b)
    BY Zenon, <2>1, <2>4 DEF Disjoint, RevealedBy
  <2>5. QED
    BY Zenon, <2>2, <2>3, <2>4
<1>4. QED
  BY Zenon, <1>1, <1>2, <1>3

-----------------------------------------------------------------------------
(* Reading, merging and writing the maps. *)

\* Fetching anchors from the database changes no answer of the cache.
LEMMA ReadAnchors ==
    ASSUME NEW p \in Pools, NEW roots, Faithful(cache.anchors[p], disk.anchors[p])
    PROVE  /\ Faithful(AnchorsRead(p, roots), disk.anchors[p])
           /\ \A r : Has(AnchorsRead(p, roots), disk.anchors[p], r)
                       <=> Has(cache.anchors[p], disk.anchors[p], r)
           /\ AllEntered(cache.anchors[p]) => AllEntered(AnchorsRead(p, roots))
<1> DEFINE a == cache.anchors[p]
           d == disk.anchors[p]
           found == {r \in roots \ DOMAIN a : OnDisk(p, r)}
           e == AnchorsRead(p, roots)
<1>1. DOMAIN e = DOMAIN a \cup found
  BY Zenon DEF AnchorsRead
<1>2. \A r \in DOMAIN a : r \notin found /\ e[r] = a[r]
  BY Zenon DEF AnchorsRead
<1>3. ASSUME NEW r \in found
      PROVE  /\ e[r] = [entered |-> TRUE, dirty |-> FALSE, tree |-> TreeOnDisk(p, r)]
             /\ (r = Empty \/ r \in DOMAIN d)
  BY Zenon DEF AnchorsRead, OnDisk
<1>4. ASSUME NEW r \in found
      PROVE  r \in Roots /\ TreeOnDisk(p, r) = r /\ e[r] \in CacheEntry /\ e[r].tree = r
             /\ e[r].entered = TRUE
  <2>1. Empty \in Roots
    BY DEF Empty, Roots
  <2>2. r \in Roots /\ TreeOnDisk(p, r) = r
    BY Zenon, <1>3, <2>1 DEF Faithful, TreeOnDisk
  <2>3. e[r] = [entered |-> TRUE, dirty |-> FALSE, tree |-> r]
    BY Zenon, <1>3, <2>2
  <2> HIDE DEF e, found
  <2>4. QED
    BY <2>2, <2>3 DEF CacheEntry
<1> HIDE DEF e, found
<1>5. Faithful(e, d)
  BY Zenon, <1>1, <1>2, <1>3, <1>4 DEF Faithful
<1>6. ASSUME NEW r PROVE Has(e, d, r) <=> Has(a, d, r)
  <2>1. CASE r \in DOMAIN a
    BY Zenon, <2>1, <1>1, <1>2 DEF Has
  <2>2. CASE r \in found /\ r \notin DOMAIN a
    <3>1. r \in DOMAIN e /\ e[r].entered = TRUE /\ (r = Empty \/ r \in DOMAIN d)
      BY Zenon, <2>2, <1>1, <1>3, <1>4
    <3>2. QED
      BY Zenon, <2>2, <3>1 DEF Has
  <2>3. CASE r \notin found /\ r \notin DOMAIN a
    BY Zenon, <2>3, <1>1 DEF Has
  <2>4. QED
    BY Zenon, <2>1, <2>2, <2>3
<1>7. AllEntered(a) => AllEntered(e)
  BY Zenon, <1>1, <1>2, <1>4 DEF AllEntered
<1>8. QED
  BY Zenon, <1>5, <1>6, <1>7 DEF e

\* BatchWrite: the parent then answers as the view did for the view's roots.
LEMMA MergeAnchors ==
    ASSUME NEW a, NEW d, Faithful(a, d), NEW c,
           \A r \in DOMAIN c : r \in Roots /\ c[r].entered \in BOOLEAN /\ c[r].tree = r
    PROVE  /\ Faithful(MergedAnchors(a, c), d)
           /\ \A r : Has(MergedAnchors(a, c), d, r)
                       <=> (IF r \in DOMAIN c THEN c[r].entered ELSE Has(a, d, r))
           /\ AllEntered(a) /\ AllEntered(c) => AllEntered(MergedAnchors(a, c))
<1> DEFINE e == MergedAnchors(a, c)
<1>1. DOMAIN e = DOMAIN a \cup DOMAIN c
  BY Zenon DEF MergedAnchors
<1>2. \A r \in DOMAIN a \ DOMAIN c : e[r] = a[r]
  BY Zenon DEF MergedAnchors
<1>3. ASSUME NEW r \in DOMAIN c, r \notin DOMAIN a
      PROVE  e[r] = [entered |-> c[r].entered, dirty |-> TRUE, tree |-> c[r].tree]
  BY Zenon, <1>3 DEF MergedAnchors
<1>4. ASSUME NEW r \in DOMAIN c, r \in DOMAIN a
      PROVE  e[r] = IF a[r].entered = c[r].entered THEN a[r]
                    ELSE [a[r] EXCEPT !.entered = c[r].entered, !.dirty = TRUE]
  BY Zenon, <1>4 DEF MergedAnchors
<1> HIDE DEF e
<1>5. ASSUME NEW r \in DOMAIN c
      PROVE  /\ r \in Roots /\ e[r] \in CacheEntry /\ e[r].tree = r /\ e[r].entered = c[r].entered
             /\ ~e[r].dirty => (e[r].entered <=> (r = Empty \/ r \in DOMAIN d))
  <2>1. CASE r \notin DOMAIN a
    <3>1. e[r] = [entered |-> c[r].entered, dirty |-> TRUE, tree |-> c[r].tree]
      BY Zenon, <2>1, <1>3
    <3>2. QED
      BY <3>1 DEF CacheEntry
  <2>2. CASE r \in DOMAIN a
    <3>1. a[r] \in CacheEntry /\ a[r].tree = r
          /\ (~a[r].dirty => (a[r].entered <=> (r = Empty \/ r \in DOMAIN d)))
      BY Zenon, <2>2 DEF Faithful
    <3>2. CASE a[r].entered = c[r].entered
      BY Zenon, <3>1, <3>2, <2>2, <1>4
    <3>3. CASE a[r].entered # c[r].entered
      <4>1. e[r] = [a[r] EXCEPT !.entered = c[r].entered, !.dirty = TRUE]
        BY Zenon, <3>3, <2>2, <1>4
      <4>2. e[r] \in CacheEntry /\ e[r].tree = a[r].tree /\ e[r].entered = c[r].entered /\ e[r].dirty = TRUE
        BY Zenon, <4>1, <3>1 DEF CacheEntry
      <4>3. QED
        BY Zenon, <4>2, <3>1
    <3>4. QED
      BY Zenon, <3>2, <3>3
  <2>3. QED
    BY Zenon, <2>1, <2>2
<1>6. Faithful(e, d)
  BY <1>1, <1>2, <1>5 DEF Faithful
<1>7. ASSUME NEW r PROVE Has(e, d, r) <=> (IF r \in DOMAIN c THEN c[r].entered ELSE Has(a, d, r))
  <2>1. CASE r \in DOMAIN c
    BY Zenon, <2>1, <1>1, <1>5 DEF Has
  <2>2. CASE r \notin DOMAIN c
    BY Zenon, <2>2, <1>1, <1>2 DEF Has
  <2>3. QED
    BY Zenon, <2>1, <2>2
<1>8. AllEntered(a) /\ AllEntered(c) => AllEntered(e)
  BY Zenon, <1>1, <1>2, <1>5 DEF AllEntered
<1>9. QED
  BY Zenon, <1>6, <1>7, <1>8 DEF e

\* CCoinsViewDB::BatchWrite: the database then has the roots the cache had.
LEMMA WriteAnchors ==
    ASSUME NEW p \in Pools, Faithful(cache.anchors[p], disk.anchors[p])
    PROVE  /\ Faithful(<<>>, WrittenAnchors(p))
           /\ \A r : r # Empty => (r \in DOMAIN WrittenAnchors(p)
                                     <=> Has(cache.anchors[p], disk.anchors[p], r))
           /\ Empty \notin DOMAIN disk.anchors[p] => Empty \notin DOMAIN WrittenAnchors(p)
<1> DEFINE c == cache.anchors[p]
           d == disk.anchors[p]
           erased == {r \in DOMAIN c : c[r].dirty /\ ~c[r].entered}
           added == {r \in DOMAIN c : c[r].dirty /\ c[r].entered /\ r # Empty}
           e == WrittenAnchors(p)
<1>1. /\ DOMAIN e = (DOMAIN d \cup added) \ erased
      /\ \A r \in DOMAIN e : e[r] = IF r \in added THEN c[r].tree ELSE d[r]
  BY Zenon DEF WrittenAnchors
<1> HIDE DEF e
<1>2. ASSUME NEW r \in DOMAIN e PROVE r \in Roots /\ e[r] = r
  BY Zenon, <1>1 DEF Faithful
<1>3. ASSUME NEW r, r # Empty PROVE r \in DOMAIN e <=> Has(c, d, r)
  <2>1. CASE r \in DOMAIN c
    <3>1. c[r].entered \in BOOLEAN /\ c[r].dirty \in BOOLEAN
          /\ (~c[r].dirty => (c[r].entered <=> (r = Empty \/ r \in DOMAIN d)))
      BY Zenon, <2>1 DEF Faithful, CacheEntry
    <3>2. QED
      BY Zenon, <1>1, <1>3, <2>1, <3>1 DEF Has
  <2>2. CASE r \notin DOMAIN c
    BY Zenon, <1>1, <1>3, <2>2 DEF Has
  <2>3. QED
    BY Zenon, <2>1, <2>2
<1>4. Empty \notin DOMAIN d => Empty \notin DOMAIN e
  BY Zenon, <1>1
<1>5. Faithful(<<>>, e)
  BY <1>2 DEF Faithful
<1>6. QED
  BY Zenon, <1>3, <1>4, <1>5 DEF e

\* Looking nullifiers up changes no answer of the cache.
LEMMA ReadMarks ==
    ASSUME NEW ns \in SUBSET Nullifiers, FaithfulMarks(cache.nullifiers, disk.nullifiers)
    PROVE  /\ FaithfulMarks(NullifiersRead(ns), disk.nullifiers)
           /\ \A n : Holds(NullifiersRead(ns), disk.nullifiers, n)
                       <=> Holds(cache.nullifiers, disk.nullifiers, n)
<1> DEFINE c == cache.nullifiers
           d == disk.nullifiers
           e == NullifiersRead(ns)
<1>1. DOMAIN e = DOMAIN c \cup ns /\ \A n \in DOMAIN c : e[n] = c[n]
  BY Zenon DEF NullifiersRead
<1>2. ASSUME NEW n \in ns, n \notin DOMAIN c
      PROVE  e[n] = [entered |-> n \in d, dirty |-> FALSE]
  BY Zenon, <1>2 DEF NullifiersRead
<1> HIDE DEF e
<1>3. ASSUME NEW n \in ns, n \notin DOMAIN c
      PROVE  e[n] \in Mark /\ (e[n].entered <=> n \in d)
  <2>1. e[n] = [entered |-> n \in d, dirty |-> FALSE]
    BY Zenon, <1>2, <1>3
  <2>2. CASE n \in d
    <3>1. e[n] = [entered |-> TRUE, dirty |-> FALSE]
      BY <2>1, <2>2, Zenon
    <3>2. QED
      BY <2>2, <3>1 DEF Mark
  <2>3. CASE n \notin d
    <3>1. e[n] = [entered |-> FALSE, dirty |-> FALSE]
      <4>1. (n \in d) = FALSE
        BY <2>3
      <4>2. QED
        BY <2>1, <4>1, Zenon
    <3>2. QED
      BY <2>3, <3>1 DEF Mark
  <2>4. QED
    BY Zenon, <2>2, <2>3
<1>4. FaithfulMarks(e, d)
  BY Zenon, <1>1, <1>3 DEF FaithfulMarks
<1>5. \A n : Holds(e, d, n) <=> Holds(c, d, n)
  BY Zenon, <1>1, <1>3 DEF Holds
<1>6. QED
  BY Zenon, <1>4, <1>5 DEF e

\* BatchWrite: the parent then answers as the view did for the view's nullifiers.
LEMMA MergeMarks ==
    ASSUME NEW c, NEW d, FaithfulMarks(c, d), NEW v, DOMAIN v \in SUBSET Nullifiers,
           \A n \in DOMAIN v : v[n] \in BOOLEAN
    PROVE  /\ FaithfulMarks(MergedNullifiers(c, v), d)
           /\ \A n : Holds(MergedNullifiers(c, v), d, n)
                       <=> (IF n \in DOMAIN v THEN v[n] ELSE Holds(c, d, n))
<1> DEFINE e == MergedNullifiers(c, v)
<1>1. DOMAIN e = DOMAIN c \cup DOMAIN v /\ \A n \in DOMAIN c \ DOMAIN v : e[n] = c[n]
  BY Zenon DEF MergedNullifiers
<1>2. ASSUME NEW n \in DOMAIN v
      PROVE  e[n] = [entered |-> v[n], dirty |-> TRUE]
             \/ (n \in DOMAIN c /\ c[n].entered = v[n] /\ e[n] = c[n])
  BY Zenon DEF MergedNullifiers
<1> HIDE DEF e
<1>3. ASSUME NEW n \in DOMAIN v
      PROVE  /\ e[n] \in Mark /\ e[n].entered = v[n]
             /\ ~e[n].dirty => (e[n].entered <=> n \in d)
  <2>1. CASE e[n] = [entered |-> v[n], dirty |-> TRUE]
    <3>1. v[n] \in BOOLEAN
      BY Zenon
    <3>2. QED
      BY <2>1, <3>1 DEF Mark
  <2>2. CASE n \in DOMAIN c /\ c[n].entered = v[n] /\ e[n] = c[n]
    BY Zenon, <2>2 DEF FaithfulMarks
  <2>3. QED
    BY Zenon, <1>2, <2>1, <2>2
<1>4. FaithfulMarks(e, d)
  BY Zenon, <1>1, <1>3 DEF FaithfulMarks
<1>5. \A n : Holds(e, d, n) <=> (IF n \in DOMAIN v THEN v[n] ELSE Holds(c, d, n))
  BY Zenon, <1>1, <1>3 DEF Holds
<1>6. QED
  BY Zenon, <1>4, <1>5 DEF e

\* CCoinsViewDB::BatchWrite: the database then holds the nullifiers the cache held.
LEMMA WriteMarks ==
    ASSUME FaithfulMarks(cache.nullifiers, disk.nullifiers)
    PROVE  /\ FaithfulMarks(<<>>, WrittenNullifiers)
           /\ \A n \in Nullifiers : n \in WrittenNullifiers
                                      <=> Holds(cache.nullifiers, disk.nullifiers, n)
<1>1. WrittenNullifiers \subseteq Nullifiers
  BY Zenon DEF WrittenNullifiers
<1>2. FaithfulMarks(<<>>, WrittenNullifiers)
  BY <1>1 DEF FaithfulMarks
<1>3. ASSUME NEW n \in Nullifiers
      PROVE  n \in WrittenNullifiers <=> Holds(cache.nullifiers, disk.nullifiers, n)
  BY Zenon DEF WrittenNullifiers, Holds, FaithfulMarks, Mark
<1>4. QED
  BY Zenon, <1>2, <1>3

\* The best anchor of a pool is a tree stored under its own root, so the tree that
\* ConnectBlock builds is the best one with the commitments of the block appended.
LEMMA BestTree ==
    ASSUME Shape, PoolInv, NEW p \in Pools
    PROVE  /\ Best(p) \in Roots /\ TreeAt(p, Best(p)) = Best(p)
           /\ \A b \in Blocks : NewTree(p, b) = Best(p) \o Commitments[b][p]
                                /\ NewTree(p, b) \in Roots
<1>1. Best(p) \in Roots
  BY Zenon DEF Best, Shape
<1>2. TreeAt(p, Best(p)) = Best(p)
  BY DEF PoolInv, Faithful, Has, TreeAt, TreeOnDisk
<1>3. ASSUME NEW b \in Blocks
      PROVE  NewTree(p, b) = Best(p) \o Commitments[b][p] /\ NewTree(p, b) \in Roots
  <2>1. Commitments[b][p] \in Roots
    BY Zenon, ShieldedAssumption
  <2>2. QED
    BY <1>1, <1>2, <2>1 DEF NewTree, Roots
<1>4. QED
  BY Zenon, <1>1, <1>2, <1>3

-----------------------------------------------------------------------------
(* The invariant holds initially and every action keeps it. *)

\* The initial state: the genesis block, no anchor but the empty trees.
LEMMA InitInv == Init => Inv
<1> SUFFICES ASSUME Init PROVE Inv
  BY Zenon
<1> USE DEF Init, EmptyCache
<1>1. Genesis \in Blocks /\ Empty \in Roots
  BY BlockTreeAssumption DEF Empty, Roots
<1>2. Shape
  BY Zenon, <1>1 DEF Shape
<1>3. UndoInv
  BY Zenon, ChainFacts DEF UndoInv
<1>4. ASSUME NEW p \in Pools
      PROVE  cache.anchors[p] = <<>> /\ disk.anchors[p] = <<>> /\ Best(p) = Empty /\ disk.best[p] = Empty
  BY Zenon DEF Best
<1>5. Faithful(<<>>, <<>>) /\ AllEntered(<<>>) /\ \A r : Has(<<>>, <<>>, r) <=> r = Empty
  BY DEF Faithful, AllEntered, Has
<1>6. PoolInv
  BY Zenon, <1>4, <1>5 DEF PoolInv, OnDisk
<1>7. Popped \subseteq Pools
  BY Zenon DEF Popped
<1>8. ASSUME NEW p \in Popped PROVE TreeAfter[Genesis][p] = Empty /\ TreesOf(p, Genesis) = {Empty}
  BY Zenon, <1>7, TreeFacts, TreesFacts
<1>9. ChainInv
  BY <1>4, <1>5, <1>7, <1>8 DEF ChainInv
<1>10. DiskInv
  BY <1>4, <1>7, <1>8 DEF DiskInv, OnDisk
<1>11. NullInv
  BY RevealedFacts DEF NullInv, FaithfulMarks, Holds
<1>12. QED
  BY Zenon, <1>2, <1>3, <1>6, <1>9, <1>10, <1>11 DEF Inv

\* What reads leave in pcoinsTip (a rejected block, AcceptToMemoryPool) keeps it.
LEMMA ReadStep ==
    ASSUME Inv, NEW pools \in SUBSET Pools, NEW b \in Blocks,
           cache' = AfterReading(pools, b), UNCHANGED <<disk, chainTip, undo>>
    PROVE  Inv'
<1> DEFINE wanted(p) == UsedIn(b, p) \cup (IF p \in pools THEN {Best(p)} ELSE {})
<1>1. /\ cache'.block = cache.block
      /\ cache'.best = [p \in Pools |-> IF p \in pools THEN Best(p) ELSE cache.best[p]]
      /\ \A p \in Pools : cache'.anchors[p] = AnchorsRead(p, wanted(p))
      /\ cache'.nullifiers = NullifiersRead(Reveals[b])
      /\ cache' = [block |-> cache'.block, best |-> cache'.best,
                   anchors |-> cache'.anchors, nullifiers |-> cache'.nullifiers]
  BY Zenon DEF AfterReading
<1>2. disk' = disk /\ chainTip' = chainTip /\ undo' = undo
  BY Zenon
<1> HIDE DEF wanted
<1>3. Popped \subseteq Pools /\ Empty \in Roots
  BY DEF Popped, Empty, Roots
<1>4. ASSUME NEW p \in Pools PROVE Best(p)' = Best(p) /\ cache'.best[p] \in {NoHash} \cup Roots
  BY Zenon, <1>1, <1>2, BestTree, ShieldedAssumption DEF Best, Inv, Shape
<1>5. Shape'
  BY Zenon, <1>1, <1>2, <1>4 DEF Inv, Shape
<1>6. UndoInv'
  BY Zenon, <1>2 DEF Inv, UndoInv
<1>7. ASSUME NEW p \in Pools
      PROVE  /\ Faithful(cache'.anchors[p], disk'.anchors[p])
             /\ \A r : Has(cache'.anchors[p], disk'.anchors[p], r)
                         <=> Has(cache.anchors[p], disk.anchors[p], r)
             /\ AllEntered(cache.anchors[p]) => AllEntered(cache'.anchors[p])
  <2>1. Faithful(cache.anchors[p], disk.anchors[p])
    BY Zenon DEF Inv, PoolInv
  <2> DEFINE w == wanted(p)
             e == AnchorsRead(p, w)
  <2>2. cache'.anchors[p] = e /\ disk'.anchors[p] = disk.anchors[p]
    BY Zenon, <1>1, <1>2
  <2> HIDE DEF w
  <2>3. /\ Faithful(e, disk.anchors[p])
        /\ \A r : Has(e, disk.anchors[p], r) <=> Has(cache.anchors[p], disk.anchors[p], r)
        /\ AllEntered(cache.anchors[p]) => AllEntered(e)
    BY Zenon, <2>1, ReadAnchors
  <2> HIDE DEF e
  <2>4. QED
    BY Zenon, <2>2, <2>3
<1>8. PoolInv'
  BY Zenon, <1>2, <1>4, <1>7 DEF Inv, PoolInv, OnDisk
<1>9. ChainInv'
  BY Zenon, <1>2, <1>3, <1>4, <1>7 DEF Inv, ChainInv
<1>10. DiskInv'
  BY Zenon, <1>2 DEF Inv, DiskInv, OnDisk
<1>11. /\ FaithfulMarks(cache'.nullifiers, disk'.nullifiers)
       /\ \A n : Holds(cache'.nullifiers, disk'.nullifiers, n)
                   <=> Holds(cache.nullifiers, disk.nullifiers, n)
  <2>1. FaithfulMarks(cache.nullifiers, disk.nullifiers) /\ Reveals[b] \in SUBSET Nullifiers
    BY Zenon, ShieldedAssumption DEF Inv, NullInv
  <2>2. QED
    BY Zenon, <2>1, <1>1, <1>2, ReadMarks
<1>12. NullInv'
  BY Zenon, <1>2, <1>11 DEF Inv, NullInv
<1>13. QED
  BY Zenon, <1>5, <1>6, <1>8, <1>9, <1>10, <1>12 DEF Inv

\* CrashAndRestart: the cache is lost and the chain ends in the block of the
\* database again.
LEMMA CrashStep == ASSUME Inv, CrashAndRestart PROVE Inv'
<1>1. /\ cache' = [block |-> NoHash, best |-> [p \in Pools |-> NoHash],
                   anchors |-> [p \in Pools |-> <<>>], nullifiers |-> <<>>]
      /\ chainTip' = disk.block /\ disk' = disk /\ undo' = undo
  BY Zenon DEF CrashAndRestart, EmptyCache
<1>2. /\ cache'.block = NoHash /\ cache'.best = [p \in Pools |-> NoHash]
      /\ cache'.nullifiers = <<>> /\ \A p \in Pools : cache'.anchors[p] = <<>>
      /\ cache' = [block |-> cache'.block, best |-> cache'.best,
                   anchors |-> cache'.anchors, nullifiers |-> cache'.nullifiers]
  BY Zenon, <1>1
<1>3. Popped \subseteq Pools
  BY Zenon DEF Popped
<1>4. Shape'
  BY Zenon, <1>1, <1>2 DEF Inv, Shape
<1>5. UndoInv'
  BY Zenon, <1>1 DEF Inv, UndoInv
<1>6. ASSUME NEW p \in Pools
      PROVE  /\ Best(p)' = disk.best[p] /\ Faithful(cache'.anchors[p], disk'.anchors[p])
             /\ \A r : Has(cache'.anchors[p], disk'.anchors[p], r) <=> OnDisk(p, r)
             /\ AllEntered(cache'.anchors[p])
  <2>1. Faithful(<<>>, disk.anchors[p])
    BY DEF Inv, PoolInv, Faithful
  <2>2. Best(p)' = disk.best[p]
    BY Zenon, <1>1, <1>2 DEF Best
  <2>3. QED
    BY <2>1, <2>2, <1>1, <1>2 DEF Has, AllEntered, OnDisk
<1>7. PoolInv'
  BY Zenon, <1>1, <1>6 DEF Inv, PoolInv, OnDisk
<1>8. ChainInv'
  BY Zenon, <1>1, <1>3, <1>6 DEF Inv, ChainInv, DiskInv
<1>9. DiskInv'
  BY Zenon, <1>1 DEF Inv, DiskInv, OnDisk
<1>10. NullInv'
  <2>1. FaithfulMarks(<<>>, disk.nullifiers)
    BY DEF Inv, NullInv, FaithfulMarks
  <2>2. \A n : Holds(<<>>, disk.nullifiers, n) <=> n \in disk.nullifiers
    BY DEF Holds
  <2>3. QED
    BY Zenon, <2>1, <2>2, <1>1, <1>2 DEF Inv, NullInv
<1>11. QED
  BY Zenon, <1>4, <1>5, <1>7, <1>8, <1>9, <1>10 DEF Inv

\* FlushStateToDisk: the database becomes what the cache answered, and the cache
\* keeps its block and best anchors only.
LEMMA FlushStep == ASSUME Inv, FlushStateToDisk PROVE Inv'
<1>1. /\ disk' = [block |-> IF cache.block = NoHash THEN disk.block ELSE cache.block,
                  best |-> [p \in Pools |-> Best(p)],
                  anchors |-> [p \in Pools |-> WrittenAnchors(p)],
                  nullifiers |-> WrittenNullifiers]
      /\ cache' = [block |-> cache.block, best |-> cache.best,
                   anchors |-> [p \in Pools |-> <<>>], nullifiers |-> <<>>]
      /\ chainTip' = chainTip /\ undo' = undo
  BY Zenon DEF FlushStateToDisk, EmptyCache, WrittenDisk
<1>2. /\ disk'.block = chainTip /\ disk'.best = [p \in Pools |-> Best(p)]
      /\ \A p \in Pools : disk'.anchors[p] = WrittenAnchors(p)
      /\ disk'.nullifiers = WrittenNullifiers
  BY Zenon, <1>1 DEF Inv, Shape
<1>3. /\ cache'.block = cache.block /\ cache'.best = cache.best
      /\ cache'.nullifiers = <<>> /\ \A p \in Pools : cache'.anchors[p] = <<>>
      /\ cache' = [block |-> cache'.block, best |-> cache'.best,
                   anchors |-> cache'.anchors, nullifiers |-> cache'.nullifiers]
  BY Zenon, <1>1
<1>4. Popped \subseteq Pools /\ Empty \in Roots /\ chainTip' = chainTip /\ undo' = undo
  BY <1>1 DEF Popped, Empty, Roots
<1>5. ASSUME NEW p \in Pools PROVE Best(p)' = Best(p) /\ Best(p) \in Roots
  BY Zenon, <1>2, <1>3, BestTree DEF Best, Inv
<1>6. Shape'
  BY Zenon, <1>2, <1>3, <1>4, <1>5 DEF Inv, Shape
<1>7. UndoInv'
  BY Zenon, <1>2, <1>4 DEF Inv, UndoInv
<1>8. ASSUME NEW p \in Pools
      PROVE  /\ Faithful(cache'.anchors[p], disk'.anchors[p]) /\ AllEntered(cache'.anchors[p])
             /\ \A r : Has(cache'.anchors[p], disk'.anchors[p], r)
                         <=> (r = Empty \/ Has(cache.anchors[p], disk.anchors[p], r))
             /\ \A r : OnDisk(p, r)' <=> (r = Empty \/ Has(cache.anchors[p], disk.anchors[p], r))
             /\ Empty \notin DOMAIN disk.anchors[p] => Empty \notin DOMAIN disk'.anchors[p]
  <2>1. Faithful(cache.anchors[p], disk.anchors[p])
    BY Zenon DEF Inv, PoolInv
  <2> DEFINE e == WrittenAnchors(p)
  <2>2. /\ Faithful(<<>>, e)
        /\ \A r : r # Empty => (r \in DOMAIN e <=> Has(cache.anchors[p], disk.anchors[p], r))
        /\ Empty \notin DOMAIN disk.anchors[p] => Empty \notin DOMAIN e
    BY Zenon, <2>1, WriteAnchors
  <2>3. cache'.anchors[p] = <<>> /\ disk'.anchors[p] = e
    BY Zenon, <1>2, <1>3
  <2> HIDE DEF e
  <2>4. \A r : Has(<<>>, e, r) <=> (r = Empty \/ r \in DOMAIN e)
    BY DEF Has
  <2>5. \A r : OnDisk(p, r)' <=> (r = Empty \/ r \in DOMAIN e)
    BY Zenon, <2>3 DEF OnDisk
  <2>6. QED
    BY <2>2, <2>3, <2>4, <2>5 DEF AllEntered
<1>9. PoolInv'
  BY Zenon, <1>2, <1>5, <1>8 DEF Inv, PoolInv
<1>10. ASSUME NEW p \in Popped PROVE Empty \in TreesOf(p, chainTip)
  BY Zenon, <1>4, TreesFacts DEF Inv, Shape
<1>11. ChainInv'
  BY Zenon, <1>4, <1>5, <1>8, <1>10 DEF Inv, ChainInv
<1>12. DiskInv'
  BY Zenon, <1>2, <1>4, <1>5, <1>8, <1>10 DEF Inv, ChainInv, DiskInv
<1>13. NullInv'
  <2>1. /\ FaithfulMarks(<<>>, WrittenNullifiers) /\ WrittenNullifiers \subseteq Nullifiers
        /\ \A n \in Nullifiers : n \in WrittenNullifiers <=> n \in RevealedBy(chainTip)
    BY Zenon, WriteMarks DEF Inv, NullInv, WrittenNullifiers
  <2>2. RevealedBy(chainTip) \subseteq Nullifiers
    BY Zenon, RevealedFacts DEF Inv, Shape
  <2>3. WrittenNullifiers = RevealedBy(chainTip)
    BY Zenon, <2>1, <2>2
  <2>4. \A n : Holds(<<>>, WrittenNullifiers, n) <=> n \in WrittenNullifiers
    BY DEF Holds
  <2>5. QED
    BY Zenon, <2>1, <2>3, <2>4, <1>2, <1>3, <1>4 DEF Inv, NullInv
<1>14. QED
  BY Zenon, <1>6, <1>7, <1>9, <1>11, <1>12, <1>13 DEF Inv

\* ConnectTip: the tree after the block joins the anchors of each pool, and its
\* nullifiers, none of which was revealed, join those of the chain.
LEMMA ConnectStep == ASSUME Inv, NEW b \in Blocks, ConnectTip(b) PROVE Inv'
<1> DEFINE read(p) == AnchorsRead(p, UsedIn(b, p) \cup (IF p \in Pools THEN {Best(p)} ELSE {}))
           seen == NullifiersRead(Reveals[b])
           new == [n \in Reveals[b] |-> TRUE]
<1>1. /\ cache'.block = b /\ cache'.best = [p \in Pools |-> NewTree(p, b)]
      /\ \A p \in Pools : cache'.anchors[p] = MergedAnchors(read(p), PushAnchor(p, b))
      /\ cache'.nullifiers = MergedNullifiers(seen, new)
      /\ cache' = [block |-> cache'.block, best |-> cache'.best,
                   anchors |-> cache'.anchors, nullifiers |-> cache'.nullifiers]
  BY Zenon DEF ConnectTip, BatchWrite, AfterReading, ConnectedView
<1>2. /\ disk' = disk /\ chainTip' = b /\ b # Genesis /\ Parent[b] = chainTip
      /\ undo' = [undo EXCEPT ![b] = IF @ = NoHash THEN [p \in Popped |-> Best(p)] ELSE @]
      /\ \A n \in Reveals[b] : ~Revealed(n)
  BY Zenon DEF ConnectTip, HaveShieldedRequirements
<1>3. Popped \subseteq Pools /\ chainTip \in Blocks /\ b \in Blocks \ {Genesis} /\ b # NoHash
  BY Zenon, <1>2, ShieldedAssumption DEF Popped, Inv, Shape
<1>4. ASSUME NEW p \in Pools
      PROVE  /\ Best(p) \in Roots /\ NewTree(p, b) \in Roots /\ Best(p)' = NewTree(p, b)
             /\ NewTree(p, b) = Best(p) \o Commitments[b][p]
  <2>1. /\ Best(p) \in Roots /\ NewTree(p, b) \in Roots
        /\ NewTree(p, b) = Best(p) \o Commitments[b][p]
    BY Zenon, BestTree DEF Inv
  <2>2. Best(p)' = NewTree(p, b)
    <3>1. cache'.best[p] = NewTree(p, b) /\ NewTree(p, b) # NoHash
      BY Zenon, <1>1, <2>1, ShieldedAssumption
    <3> HIDE DEF seen, new
    <3>2. QED
      BY Zenon, <3>1 DEF Best
  <2>3. QED
    BY Zenon, <2>1, <2>2
<1>5. undo'[b] = UndoOf(b) /\ UndoOf(b) \in [Popped -> Roots]
      /\ \A c \in Blocks \ {b} : undo'[c] = undo[c]
  <2>1. [p \in Popped |-> Best(p)] = UndoOf(b)
    BY Zenon, <1>2, <1>3 DEF Inv, ChainInv, UndoOf
  <2>2. UndoOf(b) \in [Popped -> Roots]
    BY Zenon, <1>2, <1>3, TreeFacts DEF UndoOf
  <2>3. undo \in [Blocks -> {NoHash} \cup [Popped -> Roots]] /\ (undo[b] = NoHash \/ undo[b] = UndoOf(b))
    BY Zenon, <1>3 DEF Inv, Shape, UndoInv
  <2>4. undo'[b] = IF undo[b] = NoHash THEN UndoOf(b) ELSE undo[b]
    BY Zenon, <1>2, <2>1, <2>3
  <2>5. QED
    BY Zenon, <1>2, <2>2, <2>3, <2>4
<1>6. Shape'
  <2>1. undo' \in [Blocks -> {NoHash} \cup [Popped -> Roots]]
    BY Zenon, <1>2, <1>5 DEF Inv, Shape
  <2>2. cache'.best \in [Pools -> {NoHash} \cup Roots]
    BY Zenon, <1>1, <1>4
  <2>3. QED
    BY Zenon, <1>1, <1>2, <1>3, <2>1, <2>2 DEF Inv, Shape
<1>7. UndoInv'
  <2>1. Chain(b) = {b} \cup Chain(chainTip) /\ Chain(b) \in SUBSET Blocks
    BY Zenon, <1>2, <1>3, ChainFacts
  <2>2. Chain(disk.block) \in SUBSET Blocks
    BY Zenon, ChainFacts DEF Inv, Shape
  <2>3. \A c \in Blocks \ {Genesis} : undo'[c] = NoHash \/ undo'[c] = UndoOf(c)
    BY Zenon, <1>5 DEF Inv, UndoInv
  <2>4. \A c \in Chain(b) \ {Genesis} : undo'[c] = UndoOf(c)
    BY Zenon, <1>5, <2>1 DEF Inv, UndoInv
  <2>5. \A c \in Chain(disk.block) \ {Genesis} : undo'[c] = UndoOf(c)
    BY Zenon, <1>5, <2>2 DEF Inv, UndoInv
  <2>6. QED
    BY Zenon, <1>2, <2>3, <2>4, <2>5 DEF UndoInv
<1>8. ASSUME NEW p \in Pools
      PROVE  /\ Faithful(cache'.anchors[p], disk.anchors[p])
             /\ \A r : Has(cache'.anchors[p], disk.anchors[p], r)
                         <=> (r = NewTree(p, b) \/ Has(cache.anchors[p], disk.anchors[p], r))
             /\ AllEntered(cache.anchors[p]) => AllEntered(cache'.anchors[p])
  <2> DEFINE a == cache.anchors[p]
             d == disk.anchors[p]
             e == read(p)
             c == PushAnchor(p, b)
             t == NewTree(p, b)
  <2>1. Faithful(a, d) /\ Has(a, d, Best(p))
    BY Zenon DEF Inv, PoolInv
  <2>2. /\ Faithful(e, d) /\ \A r : Has(e, d, r) <=> Has(a, d, r)
        /\ AllEntered(a) => AllEntered(e)
    BY Zenon, <2>1, ReadAnchors
  <2>3. /\ DOMAIN c = IF t = Best(p) THEN {} ELSE {t}
        /\ \A r \in DOMAIN c : c[r] = [entered |-> TRUE, tree |-> t] /\ r = t
    BY DEF PushAnchor
  <2>4. \A r \in DOMAIN c : r \in Roots /\ c[r].entered \in BOOLEAN /\ c[r].tree = r /\ c[r].entered = TRUE
    <3>1. t \in Roots
      BY Zenon, <1>4
    <3> HIDE DEF c, t
    <3>2. ASSUME NEW r \in DOMAIN c
          PROVE  r \in Roots /\ c[r].entered \in BOOLEAN /\ c[r].tree = r /\ c[r].entered = TRUE
      <4>1. c[r] = [entered |-> TRUE, tree |-> t] /\ r = t
        BY Zenon, <2>3
      <4>2. QED
        BY <4>1, <3>1
    <3>3. QED
      BY Zenon, <3>2
  <2>5. AllEntered(c)
    BY Zenon, <2>4 DEF AllEntered
  <2>6. cache'.anchors[p] = MergedAnchors(e, c)
    BY Zenon, <1>1
  <2> HIDE DEF a, d, e, c, t
  <2>7. /\ Faithful(MergedAnchors(e, c), d)
        /\ \A r : Has(MergedAnchors(e, c), d, r) <=> (IF r \in DOMAIN c THEN c[r].entered ELSE Has(e, d, r))
        /\ AllEntered(e) /\ AllEntered(c) => AllEntered(MergedAnchors(e, c))
    BY Zenon, <2>2, <2>4, MergeAnchors
  <2>8. ASSUME NEW r PROVE Has(MergedAnchors(e, c), d, r) <=> (r = t \/ Has(a, d, r))
    BY Zenon, <2>1, <2>2, <2>3, <2>4, <2>7
  <2>9. QED
    BY Zenon, <2>2, <2>5, <2>6, <2>7, <2>8 DEF a, d, t
<1>9. PoolInv'
  BY Zenon, <1>2, <1>4, <1>8 DEF Inv, PoolInv, OnDisk
<1>10. ChainInv'
  <2> SUFFICES ASSUME NEW p \in Popped
               PROVE  /\ Best(p)' = TreeAfter[b][p]
                      /\ \A r \in Roots : Has(cache'.anchors[p], disk.anchors[p], r) <=> r \in TreesOf(p, b)
    BY Zenon, <1>2 DEF ChainInv
  <2>1. p \in Pools /\ Best(p) = TreeAfter[chainTip][p]
        /\ \A r \in Roots : Has(cache.anchors[p], disk.anchors[p], r) <=> r \in TreesOf(p, chainTip)
    BY Zenon, <1>3 DEF Inv, ChainInv
  <2>2. TreeAfter[b][p] = TreeAfter[chainTip][p] \o Commitments[b][p]
    BY Zenon, <2>1, <1>2, <1>3, TreeFacts
  <2>3. NewTree(p, b) = TreeAfter[b][p]
    BY Zenon, <2>1, <2>2, <1>4
  <2>4. TreesOf(p, b) = TreesOf(p, chainTip) \cup {TreeAfter[b][p]}
    BY Zenon, <2>1, <1>2, <1>3, TreesFacts
  <2>5. QED
    BY Zenon, <2>1, <2>3, <2>4, <1>4, <1>8
<1>11. DiskInv'
  BY Zenon, <1>2 DEF Inv, DiskInv, OnDisk
<1>12. NullInv'
  <2>1. Reveals[b] \in SUBSET Nullifiers
    BY Zenon, ShieldedAssumption
  <2>2. /\ FaithfulMarks(seen, disk.nullifiers)
        /\ \A n : Holds(seen, disk.nullifiers, n) <=> Holds(cache.nullifiers, disk.nullifiers, n)
    BY Zenon, <2>1, ReadMarks DEF Inv, NullInv
  <2>3. DOMAIN new = Reveals[b] /\ \A n \in DOMAIN new : new[n] = TRUE
    BY Zenon
  <2> HIDE DEF seen, new
  <2>4. /\ FaithfulMarks(cache'.nullifiers, disk.nullifiers)
        /\ \A n : Holds(cache'.nullifiers, disk.nullifiers, n)
                    <=> (IF n \in DOMAIN new THEN new[n] ELSE Holds(seen, disk.nullifiers, n))
    <3>1. DOMAIN new \in SUBSET Nullifiers /\ \A n \in DOMAIN new : new[n] \in BOOLEAN
      BY Zenon, <2>1, <2>3
    <3>2. /\ FaithfulMarks(MergedNullifiers(seen, new), disk.nullifiers)
          /\ \A n : Holds(MergedNullifiers(seen, new), disk.nullifiers, n)
                      <=> (IF n \in DOMAIN new THEN new[n] ELSE Holds(seen, disk.nullifiers, n))
      BY Zenon, <2>2, <3>1, MergeMarks
    <3>3. QED
      BY Zenon, <1>1, <3>2
  <2>5. /\ RevealedBy(b) = RevealedBy(chainTip) \cup Reveals[b]
        /\ Disjoint(b) <=> (Disjoint(chainTip) /\ RevealedBy(chainTip) \cap Reveals[b] = {})
    BY Zenon, <1>2, <1>3, RevealedFacts
  <2>6. ASSUME NEW n \in Nullifiers
        PROVE  Holds(cache'.nullifiers, disk.nullifiers, n) <=> n \in RevealedBy(b)
    BY Zenon, <2>2, <2>3, <2>4, <2>5 DEF Inv, NullInv
  <2>7. RevealedBy(chainTip) \cap Reveals[b] = {}
    BY Zenon, <1>2, <2>1 DEF Revealed, Holds, Inv, NullInv
  <2>8. QED
    BY Zenon, <1>2, <2>4, <2>5, <2>6, <2>7 DEF Inv, NullInv
<1>13. QED
  BY Zenon, <1>6, <1>7, <1>9, <1>10, <1>11, <1>12 DEF Inv

\* DisconnectTip: the tree after the block, which no earlier block left, leaves the
\* anchors again, and so do its nullifiers, which no other block revealed.
LEMMA DisconnectStep == ASSUME Inv, DisconnectTip PROVE Inv'
<1> DEFINE b == chainTip
           prev == Parent[b]
           read(p) == AnchorsRead(p, BringBestAnchorIntoCache(p, undo[b][p]))
           old == [n \in Reveals[b] |-> FALSE]
<1>1. Popped \subseteq Pools /\ b \in Blocks \ {Genesis} /\ prev \in Blocks /\ prev # NoHash
  BY Zenon, ChainEnds, ShieldedAssumption DEF Popped, Inv, Shape, DisconnectTip
<1>2. /\ cache'.block = prev
      /\ cache'.best = [p \in Pools |-> IF p \in Popped THEN undo[b][p] ELSE NoHash]
      /\ \A p \in Popped : cache'.anchors[p] = MergedAnchors(read(p), PopAnchor(p, undo[b][p]))
      /\ \A p \in Pools \ Popped : cache'.anchors[p] = MergedAnchors(cache.anchors[p], <<>>)
      /\ cache'.nullifiers = MergedNullifiers(cache.nullifiers, old)
      /\ cache' = [block |-> cache'.block, best |-> cache'.best,
                   anchors |-> cache'.anchors, nullifiers |-> cache'.nullifiers]
  <2> DEFINE w == AfterPopping(b)
  <2>1. /\ \A p \in Popped : w.anchors[p] = read(p)
        /\ \A p \in Pools \ Popped : w.anchors[p] = cache.anchors[p]
        /\ w.nullifiers = cache.nullifiers
    <3> DEFINE an == [p \in Pools |-> IF p \in Popped THEN read(p) ELSE cache.anchors[p]]
    <3>1. w.anchors = an /\ w.nullifiers = cache.nullifiers
      BY Zenon DEF AfterPopping, Inv, Shape
    <3>2. QED
      BY Zenon, <3>1, <1>1
  <2>2. cache' = BatchWrite(w, DisconnectedView(b))
    BY Zenon DEF DisconnectTip
  <2> HIDE DEF w, read
  <2>3. QED
    BY Zenon, <2>1, <2>2, <1>1 DEF BatchWrite, DisconnectedView
<1>3. disk' = disk /\ chainTip' = prev /\ undo' = undo
  BY Zenon DEF DisconnectTip
<1>4. b \in Chain(b) /\ undo[b] = UndoOf(b)
  BY Zenon, <1>1, ChainEnds DEF Inv, UndoInv
<1>5. ASSUME NEW p \in Popped
      PROVE  undo[b][p] = TreeAfter[prev][p] /\ undo[b][p] \in Roots /\ Best(p)' = undo[b][p]
  <2>1. undo[b][p] = TreeAfter[prev][p] /\ undo[b][p] \in Roots
    BY <1>1, <1>4, TreeFacts DEF UndoOf
  <2>2. cache'.best[p] = undo[b][p] /\ undo[b][p] # NoHash
    BY Zenon, <1>1, <1>2, <2>1, ShieldedAssumption
  <2> HIDE DEF old, read, b
  <2>3. QED
    BY Zenon, <2>1, <2>2 DEF Best
<1>6. ASSUME NEW p \in Pools \ Popped PROVE Best(p)' = disk.best[p]
  <2>1. cache'.best[p] = NoHash
    BY Zenon, <1>2
  <2>2. QED
    BY Zenon, <2>1, <1>3 DEF Best
<1>7. Shape'
  <2>1. cache'.best \in [Pools -> {NoHash} \cup Roots]
    BY Zenon, <1>2, <1>5
  <2> HIDE DEF old, read
  <2>2. QED
    BY Zenon, <1>1, <1>2, <1>3, <2>1 DEF Inv, Shape
<1>8. UndoInv'
  <2>1. Chain(b) = {b} \cup Chain(prev)
    BY Zenon, <1>1, ChainFacts
  <2>2. QED
    BY Zenon, <2>1, <1>3 DEF Inv, UndoInv
<1>9. ASSUME NEW p \in Popped
      PROVE  /\ Faithful(cache'.anchors[p], disk.anchors[p])
             /\ \A r : Has(cache'.anchors[p], disk.anchors[p], r)
                         <=> (Has(cache.anchors[p], disk.anchors[p], r)
                              /\ ~ (r = Best(p) /\ Best(p) # undo[b][p]))
  <2> DEFINE a == cache.anchors[p]
             d == disk.anchors[p]
             e == read(p)
             t == Best(p)
             c == PopAnchor(p, undo[b][p])
  <2>1. Faithful(a, d)
    BY Zenon, <1>1 DEF Inv, PoolInv
  <2>2. Faithful(e, d) /\ \A r : Has(e, d, r) <=> Has(a, d, r)
    BY Zenon, <1>1, <2>1, ReadAnchors
  <2>3. t \in Roots /\ TreeAt(p, t) = t
    BY Zenon, <1>1, BestTree DEF Inv
  <2>4. /\ DOMAIN c = IF t = undo[b][p] THEN {} ELSE {t}
        /\ \A r \in DOMAIN c : c[r] = [entered |-> FALSE, tree |-> TreeAt(p, t)] /\ r = t
    <3> DEFINE u == undo[b][p]
    <3> HIDE DEF u
    <3>1. CASE t = u
      <4>1. c = <<>>
        BY Zenon, <3>1 DEF PopAnchor, u
      <4>2. QED
        BY <4>1, <3>1 DEF u
    <3>2. CASE t # u
      <4>1. c = [r \in {t} |-> [entered |-> FALSE,
                                tree |-> IF r \in {t} THEN TreeAt(p, r) ELSE Empty]]
        BY Zenon, <3>2 DEF PopAnchor, BringBestAnchorIntoCache, u
      <4> HIDE DEF c, t
      <4>2. QED
        BY Zenon, <4>1, <3>2 DEF u
    <3>3. QED
      BY Zenon, <3>1, <3>2
  <2>5. cache'.anchors[p] = MergedAnchors(e, c)
    BY Zenon, <1>2
  <2> HIDE DEF a, d, e, c, t
  <2>6. ASSUME NEW r \in DOMAIN c
        PROVE  r \in Roots /\ c[r].entered \in BOOLEAN /\ c[r].tree = r /\ c[r].entered = FALSE
    <3>1. c[r] = [entered |-> FALSE, tree |-> t] /\ r = t
      BY Zenon, <2>3, <2>4
    <3>2. QED
      BY <2>3, <3>1
  <2>7. /\ Faithful(MergedAnchors(e, c), d)
        /\ \A r : Has(MergedAnchors(e, c), d, r) <=> (IF r \in DOMAIN c THEN c[r].entered ELSE Has(e, d, r))
    BY Zenon, <2>2, <2>6, MergeAnchors
  <2>8. ASSUME NEW r
        PROVE  Has(MergedAnchors(e, c), d, r) <=> (Has(a, d, r) /\ ~ (r = t /\ t # undo[b][p]))
    BY Zenon, <2>2, <2>4, <2>6, <2>7
  <2>9. QED
    BY Zenon, <2>5, <2>7, <2>8 DEF a, d, t
<1>10. ASSUME NEW p \in Pools \ Popped
       PROVE  /\ Faithful(cache'.anchors[p], disk.anchors[p])
              /\ AllEntered(cache'.anchors[p])
  <2>1. Faithful(cache.anchors[p], disk.anchors[p]) /\ AllEntered(cache.anchors[p])
    BY Zenon DEF Inv, PoolInv
  <2>2. \A r \in DOMAIN <<>> : FALSE
    OBVIOUS
  <2>3. AllEntered(<<>>)
    BY DEF AllEntered
  <2> DEFINE e == MergedAnchors(cache.anchors[p], <<>>)
  <2>4. Faithful(e, disk.anchors[p]) /\ AllEntered(e)
    BY Zenon, <2>1, <2>2, <2>3, MergeAnchors
  <2>5. cache'.anchors[p] = e
    BY Zenon, <1>2
  <2> HIDE DEF e
  <2>6. QED
    BY Zenon, <2>4, <2>5
<1>11. ASSUME NEW p \in Popped
       PROVE  /\ Best(p)' = TreeAfter[prev][p]
              /\ \A r \in Roots : Has(cache'.anchors[p], disk.anchors[p], r) <=> r \in TreesOf(p, prev)
  <2>1. p \in Pools /\ Best(p) = TreeAfter[b][p]
        /\ \A r \in Roots : Has(cache.anchors[p], disk.anchors[p], r) <=> r \in TreesOf(p, b)
    BY Zenon, <1>1 DEF Inv, ChainInv
  <2>2. /\ TreesOf(p, b) = TreesOf(p, prev) \cup {TreeAfter[b][p]}
        /\ TreeAfter[b][p] # TreeAfter[prev][p] => TreeAfter[b][p] \notin TreesOf(p, prev)
        /\ TreeAfter[prev][p] \in TreesOf(p, prev)
    BY Zenon, <2>1, <1>1, TreesFacts
  <2>3. ASSUME NEW r \in Roots
        PROVE  Has(cache'.anchors[p], disk.anchors[p], r) <=> r \in TreesOf(p, prev)
    <3>1. Has(cache'.anchors[p], disk.anchors[p], r)
            <=> (r \in TreesOf(p, b) /\ ~ (r = TreeAfter[b][p] /\ TreeAfter[b][p] # TreeAfter[prev][p]))
      BY Zenon, <2>1, <1>5, <1>9
    <3>2. QED
      BY Zenon, <2>2, <3>1
  <2>4. QED
    BY Zenon, <2>3, <1>5
<1>12. ChainInv'
  BY Zenon, <1>3, <1>11 DEF ChainInv
<1>13. PoolInv'
  <2>1. ASSUME NEW p \in Popped PROVE Has(cache'.anchors[p], disk.anchors[p], Best(p)')
    <3>1. TreeAfter[prev][p] \in TreesOf(p, prev) /\ TreeAfter[prev][p] \in Roots
      BY Zenon, <1>1, TreesFacts, TreeFacts
    <3>2. QED
      BY Zenon, <1>11, <3>1
  <2>2. ASSUME NEW p \in Pools \ Popped PROVE Has(cache'.anchors[p], disk.anchors[p], Best(p)')
    BY Zenon, <1>6, <1>10 DEF Inv, PoolInv, OnDisk, Has, AllEntered
  <2>3. QED
    BY Zenon, <1>3, <1>9, <1>10, <2>1, <2>2 DEF Inv, PoolInv, OnDisk
<1>14. DiskInv'
  BY Zenon, <1>3 DEF Inv, DiskInv, OnDisk
<1>15. NullInv'
  <2>1. DOMAIN old \in SUBSET Nullifiers /\ DOMAIN old = Reveals[b] /\ \A n \in DOMAIN old : old[n] = FALSE
    BY Zenon, <1>1, ShieldedAssumption
  <2> HIDE DEF old
  <2>2. /\ FaithfulMarks(cache'.nullifiers, disk.nullifiers)
        /\ \A n : Holds(cache'.nullifiers, disk.nullifiers, n)
                    <=> (IF n \in DOMAIN old THEN old[n] ELSE Holds(cache.nullifiers, disk.nullifiers, n))
    <3> DEFINE e == MergedNullifiers(cache.nullifiers, old)
    <3>1. FaithfulMarks(cache.nullifiers, disk.nullifiers) /\ \A n \in DOMAIN old : old[n] \in BOOLEAN
      BY Zenon, <2>1 DEF Inv, NullInv
    <3>2. /\ FaithfulMarks(e, disk.nullifiers)
          /\ \A n : Holds(e, disk.nullifiers, n)
                      <=> (IF n \in DOMAIN old THEN old[n] ELSE Holds(cache.nullifiers, disk.nullifiers, n))
      BY Zenon, <2>1, <3>1, MergeMarks
    <3>3. QED
      BY Zenon, <1>2, <3>2
  <2>3. /\ RevealedBy(b) = RevealedBy(prev) \cup Reveals[b] /\ Disjoint(prev)
        /\ RevealedBy(prev) \cap Reveals[b] = {}
    BY Zenon, <1>1, RevealedFacts DEF Inv, NullInv
  <2>4. ASSUME NEW n \in Nullifiers
        PROVE  Holds(cache'.nullifiers, disk.nullifiers, n) <=> n \in RevealedBy(prev)
    BY Zenon, <2>1, <2>2, <2>3 DEF Inv, NullInv
  <2>5. QED
    BY Zenon, <1>3, <2>2, <2>3, <2>4 DEF Inv, NullInv
<1>16. QED
  BY Zenon, <1>7, <1>8, <1>12, <1>13, <1>14, <1>15 DEF Inv

\* Every step keeps the invariant.
LEMMA NextInv == ASSUME Inv, [Next]_vars PROVE Inv'
<1>1. CASE UNCHANGED vars
  BY Zenon, <1>1 DEF vars, Inv, Shape, UndoInv, PoolInv, ChainInv, DiskInv, NullInv, Best, OnDisk
<1>2. ASSUME NEW b \in Blocks, ConnectTip(b) PROVE Inv'
  BY Zenon, <1>2, ConnectStep
<1>3. ASSUME NEW b \in Blocks, RejectBlock(b) PROVE Inv'
  BY Zenon, <1>3, ReadStep DEF RejectBlock
<1>4. ASSUME NEW b \in Blocks, CheckForMempool(b) PROVE Inv'
  <2>1. {} \in SUBSET Pools
    BY Zenon
  <2>2. QED
    BY Zenon, <1>4, <2>1, ReadStep DEF CheckForMempool
<1>5. CASE DisconnectTip
  BY Zenon, <1>5, DisconnectStep
<1>6. CASE FlushStateToDisk
  BY Zenon, <1>6, FlushStep
<1>7. CASE CrashAndRestart
  BY Zenon, <1>7, CrashStep
<1>8. QED
  BY Zenon, <1>1, <1>2, <1>3, <1>4, <1>5, <1>6, <1>7 DEF Next

\* The inductive invariant holds in every reachable state.
THEOREM Invariant == Spec => []Inv
  BY InitInv, NextInv, PTL DEF Spec

-----------------------------------------------------------------------------
(* Theorems. *)

\* The cache answers "spent" for exactly the nullifiers of the active chain, in
\* which no nullifier is revealed twice, through connecting, disconnecting,
\* flushing and crashing.
THEOREM NullifiersFollowChain == Spec => []NullifiersMatchChain
<1>1. Inv => NullifiersMatchChain
  BY Zenon DEF Inv, NullInv, NullifiersMatchChain, Revealed, Holds, Disjoint
<1>2. QED
  BY <1>1, Invariant, PTL

\* In the pools DisconnectBlock restores, the anchors the cache answers with are
\* the trees after the blocks of the active chain, each under its own root.
THEOREM AnchorsFollowChain == Spec => []AnchorsMatchChain
<1>1. ASSUME Inv, NEW p \in Popped PROVE AnchorsOf(p)
  <2>1. p \in Pools /\ Best(p) = TreeAfter[chainTip][p]
    BY Zenon, <1>1 DEF Inv, ChainInv, Popped
  <2>2. ASSUME NEW r \in Roots PROVE HasAnchor(p, r) <=> \E a \in Chain(chainTip) : TreeAfter[a][p] = r
    <3>1. HasAnchor(p, r) <=> Has(cache.anchors[p], disk.anchors[p], r)
      BY Zenon DEF HasAnchor, Has, OnDisk
    <3>2. QED
      BY Zenon, <1>1, <3>1 DEF Inv, ChainInv, TreesOf
  <2>3. ASSUME NEW r, HasAnchor(p, r) PROVE TreeAt(p, r) = r
    BY Zenon, <1>1, <2>1, <2>3 DEF Inv, PoolInv, Faithful, HasAnchor, OnDisk, TreeAt, TreeOnDisk
  <2>4. \A b \in Blocks : TreeAfter[b][p] \in Roots
    BY Zenon, <2>1, TreeFacts
  <2>5. QED
    BY Zenon, <2>1, <2>2, <2>3, <2>4 DEF AnchorsOf
<1>2. Inv => AnchorsMatchChain
  BY Zenon, <1>1 DEF AnchorsMatchChain
<1>3. QED
  BY <1>2, Invariant, PTL

\* The database is at all times the state after its own best block, and every
\* block of the active chain has its undo data.
THEOREM DiskIsConsistent == Spec => []DiskMatchesItsBlock
<1>1. ASSUME Inv PROVE TypeOK
  <2>1. ASSUME NEW b \in Chain(chainTip) \ {Genesis} PROVE undo[b] # NoHash
    <3>1. b \in Blocks \ {Genesis} /\ undo[b] = UndoOf(b)
      BY Zenon, <1>1, ChainFacts DEF Inv, Shape, UndoInv
    <3>2. UndoOf(b) \in [Popped -> Roots]
      <4>1. Parent[b] \in Blocks
        BY Zenon, <3>1, ChainEnds
      <4>2. \A p \in Popped : TreeAfter[Parent[b]][p] \in Roots
        BY Zenon, <4>1, TreeFacts DEF Popped
      <4>3. QED
        BY Zenon, <4>2 DEF UndoOf
    <3>3. QED
      BY Zenon, <3>1, <3>2, ShieldedAssumption
  <2>2. QED
    BY Zenon, <1>1, <2>1 DEF Inv, Shape, NullInv, FaithfulMarks, TypeOK
<1>2. ASSUME Inv, NEW p \in Popped
      PROVE  /\ disk.best[p] = TreeAfter[disk.block][p]
             /\ DOMAIN disk.anchors[p] = {TreeAfter[a][p] : a \in Chain(disk.block)} \ {Empty}
             /\ \A r \in DOMAIN disk.anchors[p] : disk.anchors[p][r] = r
  <2>1. p \in Pools /\ disk.block \in Blocks
    BY Zenon, <1>2 DEF Inv, Shape, Popped
  <2>2. \A r \in DOMAIN disk.anchors[p] : r \in Roots /\ disk.anchors[p][r] = r
    BY Zenon, <1>2, <2>1 DEF Inv, PoolInv, Faithful
  <2>3. TreesOf(p, disk.block) \subseteq Roots
    BY Zenon, <2>1, TreesFacts
  <2>4. DOMAIN disk.anchors[p] = TreesOf(p, disk.block) \ {Empty}
    BY Zenon, <1>2, <2>2, <2>3 DEF Inv, DiskInv, OnDisk
  <2>5. QED
    BY Zenon, <1>2, <2>2, <2>4 DEF Inv, DiskInv, TreesOf
<1>3. Inv => DiskMatchesItsBlock
  BY Zenon, <1>1, <1>2 DEF DiskMatchesItsBlock, Inv, NullInv
<1>4. QED
  BY <1>3, Invariant, PTL
=============================================================================
