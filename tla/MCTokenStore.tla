---------------------------- MODULE MCTokenStore ----------------------------
(* One user, two calls at a time, a clock of thirds of a second.           *)
EXTENDS TokenStore, TLC

MCSymmetry == Permutations(Calls)
==============================================================================
