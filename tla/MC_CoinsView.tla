----------------------------- MODULE MC_CoinsView -----------------------------
(* The transparent and the shielded half of the coins view, which share no  *)
(* state, side by side: each is explored while the other has not begun.     *)
EXTENDS CoinsCache, MC_ShieldedView

InitView == InitCoins /\ Init

NextView ==
    \/ Init /\ NextCoins /\ UNCHANGED vars
    \/ InitCoins /\ Next /\ UNCHANGED coinVars

SpecView == InitView /\ [][NextView]_<<coinVars, vars>>
=============================================================================
