--------------------------- MODULE MC_CheckQueue ----------------------------
(* Two workers and a master; two valid checks and one that fails. *)
EXTENDS CheckQueue

CONSTANTS w1, w2, m1, g1, g2, b1
=============================================================================
