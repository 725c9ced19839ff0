---------------------------- MODULE BookingStoreMC ----------------------------
(* One pending fixture and the two offered slots. *)
EXTENDS BookingStore, TLC

CONSTANTS p1, p2
Symmetry == Permutations({p1, p2})
=============================================================================
