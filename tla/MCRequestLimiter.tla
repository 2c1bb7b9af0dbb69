-------------------------- MODULE MCRequestLimiter --------------------------
(* Small instances of RequestLimiter. *)
EXTENDS RequestLimiter, TLC

MCSymmetry == Permutations(Keys)
=============================================================================
