--------------------------- MODULE MCLoginLimiter ---------------------------
(* Small instances of LoginLimiter. *)
EXTENDS LoginLimiter, TLC

MCSymmetry == Permutations(Sources) \cup Permutations(Logins)
=============================================================================
