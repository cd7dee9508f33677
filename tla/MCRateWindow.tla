----------------------------- MODULE MCRateWindow -----------------------------
(***************************************************************************)
(* Instances of RateWindow for TLC.                                        *)
(***************************************************************************)
EXTENDS RateWindow, TLC

Symmetric == Permutations(Calls)
=============================================================================
