------------------------------ MODULE MCFilePull ------------------------------
(* Small instances of FilePull for TLC. *)
EXTENDS FilePull, TLC

CONSTANTS a, b, x, z, r1, r2, own, i1, i2, i3

\* two bytes, so that a resumed pull may mix the bytes of two versions
MCCommitted == <<a, b>>

\* the right file, one of the same size, one of them truncated
MCSource == {<<a, b>>, <<x, b>>, <<a>>}

\* empty, resumable and wrong, whole and wrong, oversized
MCLeftover == {<<>>, <<x>>, <<x, x>>, <<a, b, x>>}

MCOwnFile == <<x, a>>

MCSymmetry == Permutations({r1, r2}) \cup Permutations({i1, i2, i3})
=============================================================================
