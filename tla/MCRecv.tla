-------------------------------- MODULE MCRecv --------------------------------
(* Small instances of Recv for TLC. *)
EXTENDS Recv, TLC

CONSTANTS p1, p2, t1, t2, t3, t4, a, aPart, b, bPart, aPartPart, A, B

\* `a.part` may be the name of a file of its own
MCPartOf == a :> aPart @@ b :> bPart @@ aPart :> aPartPart

EntryA == [name |-> a, content |-> A]
EntryB == [name |-> b, content |-> B]

\* the bytes of EntryA offered under another name
EntryBA == [name |-> b, content |-> A]

MCEntry == {EntryA, EntryB, EntryBA}

Folder(entries) == [folder |-> TRUE, entries |-> entries]
Single(entry) == [folder |-> FALSE, entries |-> <<entry>>]

\* one path twice in one folder
MCTickets == {Folder(<<EntryA, EntryB>>), Folder(<<EntryBA, EntryB>>), Single(EntryBA)}

\* equal bytes under two names: a user's own file may be taken for one of them
MCFolder == {Folder(<<EntryA, EntryBA>>)}

MCSymmetry == Permutations({p1, p2}) \cup Permutations({t1, t2, t3, t4})
=============================================================================
