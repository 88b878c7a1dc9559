------------------------------ MODULE CoinsMap ------------------------------
(***************************************************************************)
(* What the stack of coin views promises: three plain maps from            *)
(* transactions to their unspent outputs.  Reading changes nothing,        *)
(* flushing copies a whole map down, and a crash leaves the map on disk.   *)
(***************************************************************************)
CONSTANTS Txids, Outputs

VARIABLES onDisk,    \* what CCoinsViewDB holds
          atTip,     \* what a reader of pcoinsTip sees
          inBlock,   \* what a reader of the view of the current block sees
          session    \* which handler owns that view

vars == <<onDisk, atTip, inBlock, session>>

Maps == [Txids -> SUBSET Outputs]

Init == /\ onDisk = [t \in Txids |-> {}]
        /\ atTip = onDisk /\ inBlock = onDisk
        /\ session = "none"

Open == /\ session = "none" /\ session' \in {"connect", "disconnect"}
        /\ UNCHANGED <<onDisk, atTip, inBlock>>

(* One output spent, or the outputs of a transaction that had none added.  *)
Connect(t) ==
    /\ session = "connect"
    /\ \/ \E n \in inBlock[t] : inBlock' = [inBlock EXCEPT ![t] = @ \ {n}]
       \/ /\ inBlock[t] = {}
          /\ \E outs \in SUBSET Outputs : inBlock' = [inBlock EXCEPT ![t] = outs]
    /\ UNCHANGED <<onDisk, atTip, session>>

(* The reverse: a transaction's outputs removed, or one output restored.   *)
Disconnect(t) ==
    /\ session = "disconnect"
    /\ \/ inBlock' = [inBlock EXCEPT ![t] = {}]
       \/ \E n \in Outputs \ inBlock[t] : inBlock' = [inBlock EXCEPT ![t] = @ \cup {n}]
    /\ UNCHANGED <<onDisk, atTip, session>>

Commit == /\ session # "none" /\ session' = "none" /\ atTip' = inBlock
          /\ UNCHANGED <<onDisk, inBlock>>

Abort == /\ session # "none" /\ session' = "none" /\ inBlock' = atTip
         /\ UNCHANGED <<onDisk, atTip>>

Save == /\ session = "none" /\ onDisk' = atTip
        /\ UNCHANGED <<atTip, inBlock, session>>

Crash == /\ atTip' = onDisk /\ inBlock' = onDisk /\ session' = "none"
         /\ UNCHANGED onDisk

Next == \/ Open \/ Commit \/ Abort \/ Save \/ Crash
        \/ \E t \in Txids : Connect(t) \/ Disconnect(t)

Spec == Init /\ [][Next]_vars
=============================================================================
