------------------------------ MODULE MCListener ------------------------------
(* Small instances of Listener for TLC. *)
EXTENDS Listener, TLC

CONSTANTS n1, n2, r1, r2, p1, p2, c1, c2

\* a prefix may match one ticket or several
MCId == SUBSET Nonce \ {{}}

\* `mascara send` writes no expiry; the book's own operations take one
MCExpiry == {1, Never}

MCSymmetry == Permutations({n1, n2}) \cup Permutations({r1, r2})
              \cup Permutations({p1, p2}) \cup Permutations({c1, c2})
=============================================================================
