----------------------------- MODULE AppInstallMC -----------------------------
(* Two processes, two sessions and up to two intents of one user. *)
EXTENDS AppInstall, TLC

CONSTANTS p1, p2, i1, i2, s1, s2
Symmetry ==
    Permutations({p1, p2}) \cup Permutations({i1, i2}) \cup Permutations({s1, s2})
=============================================================================
