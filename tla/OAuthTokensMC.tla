---------------------------- MODULE OAuthTokensMC ----------------------------
(* One code, rows enough for two grants and a chain of rotations. *)
EXTENDS OAuthTokens, TLC

CONSTANTS r1, r2, t1, t2, t3, t4
Symmetry == Permutations({r1, r2}) \cup Permutations({t1, t2, t3, t4})
=============================================================================
