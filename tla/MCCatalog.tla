------------------------------- MODULE MCCatalog -------------------------------
(* Small instances of Catalog for TLC. *)
EXTENDS Catalog, TLC

CONSTANTS v1, v2, v3, v4, r1, r2, k1, k2

\* one part, too large by itself; two parts, of two entries and of one; a single
\* event; three parts, one more than a reader accepts
MCContent == v1 :> <<11>> @@ v2 :> <<21, 22, 23>> @@ v3 :> <<31>> @@ v4 :> <<41, 42, 43>>
MCWeight == 11 :> 3 @@ 21 :> 1 @@ 22 :> 1 @@ 23 :> 2 @@ 31 :> 2 @@ 41 :> 2 @@ 42 :> 2 @@ 43 :> 2
MCEntry == DOMAIN MCWeight

Symmetry == Permutations({k1, k2})
=============================================================================
