------------------------------ MODULE MCKeystore ------------------------------
(* Keystore on a small instance, for TLC.                                   *)
EXTENDS Keystore, TLC

Symmetry == Permutations(Key) \cup Permutations(Proc) \cup Permutations(Inode)
=============================================================================
