--------------------------- MODULE MCSubscriptions ---------------------------
(* Small instances of Subscriptions for TLC.                                *)
EXTENDS Subscriptions, TLC

Symmetry == Permutations(Req) \cup Permutations(User)
=============================================================================
