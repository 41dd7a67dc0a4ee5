------------------------------ MODULE Downloads ------------------------------
(***************************************************************************)
(* What a pull promises the receiver's directory: a download appears in    *)
(* one step, whole, with the content the ticket commits to, under a name   *)
(* that was free; and no file that is there is ever touched.               *)
(***************************************************************************)
EXTENDS Naturals

CONSTANTS Committed,   \* the content the ticket's sha256 stands for
          Slots,       \* 1 is the plain name, k > 1 is `name (k).ext`
          Own,         \* what files the user already has may hold
          Absent

VARIABLE saved         \* the content under each name

(* the first free name: unique_destination *)
Place(k) ==
    /\ saved[k] = Absent
    /\ \A j \in Slots : j < k => saved[j] # Absent
    /\ saved' = [saved EXCEPT ![k] = Committed]

Init == saved \in [Slots -> Own \cup {Absent}]

Next == \E k \in Slots : Place(k)

Spec == Init /\ [][Next]_saved
=============================================================================
