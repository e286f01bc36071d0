----------------------------- MODULE MCCatalog -----------------------------
(* Catalog for TLC: the request slots are interchangeable.                  *)
EXTENDS Catalog, TLC

Symmetry == Permutations(Req)
=============================================================================
