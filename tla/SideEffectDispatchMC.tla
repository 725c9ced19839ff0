------------------------- MODULE SideEffectDispatchMC -------------------------
(***************************************************************************)
(* Rows 1 and 2 are webhooks that share subscription 1; row 3 is an email  *)
(* or calendar row.  Row 2 is also sent to subscription 2.                 *)
(***************************************************************************)
EXTENDS SideEffectDispatch, TLC

MCSubsOf == [e \in WebhookEffects |-> IF e = 2 THEN {1, 2} ELSE {1}]

CONSTANTS w1, w2
Symmetry == Permutations({w1, w2})
=============================================================================
