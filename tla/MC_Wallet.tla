------------------------------ MODULE MC_Wallet ------------------------------
(* The queue of the wallet's operations and its witness caches, which share *)
(* no state, side by side: each is explored while the other has not begun.  *)
EXTENDS AsyncRPCQueue, MC_WalletWitness, TLC

InitWallet == Init /\ InitWitness

NextWallet ==
    \/ InitWitness /\ Next /\ UNCHANGED witnessVars
    \/ Init /\ (Running \/ Restart) /\ UNCHANGED vars

SpecWallet == InitWallet /\ [][NextWallet]_<<vars, witnessVars>>

Symmetry == Permutations(Workers) \cup Permutations(Users) \cup Permutations(Ops)
=============================================================================
