------------------------------ MODULE MCRegistry ------------------------------
(* Small instances of Registry for TLC. *)
EXTENDS Registry, TLC

CONSTANTS n1, n2, r1, r2, p1, p2, p3

\* a prefix may match one ticket or both
MCId == SUBSET {n1, n2} \ {{}}

\* `mascara send` writes no expiry; the book's own operations take one
MCExpiry == {1, Never}

MCSymmetry == Permutations({n1, n2}) \cup Permutations({r1, r2}) \cup Permutations({p1, p2, p3})

MCSymmetry2 == Permutations({n1, n2}) \cup Permutations({r1, r2}) \cup Permutations({p1, p2})
=============================================================================
