--------------------------- MODULE MCAuthSessions ---------------------------
(* Small instances of AuthSessions for TLC.                                 *)
EXTENDS AuthSessions, TLC

Symmetry == Permutations(Req) \cup Permutations(User)
=============================================================================
