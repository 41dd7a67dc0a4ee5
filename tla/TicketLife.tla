------------------------------ MODULE TicketLife ------------------------------
(***************************************************************************)
(* What the issued-ticket book promises, with no files, copies or clock:   *)
(* every nonce is granted to one recipient at most, and for one stretch of *)
(* time.  A printed ticket has been granted; a reported revocation is      *)
(* final.                                                                  *)
(***************************************************************************)
CONSTANTS Nonce, Remote

VARIABLES grantee,   \* who may download under the nonce now, "fresh" or "dead"
          printed,   \* tickets handed out
          reported   \* revocations the user was told of

vars == <<grantee, printed, reported>>

Init ==
    /\ grantee = [n \in Nonce |-> "fresh"]
    /\ printed = {}
    /\ reported = {}

(* "dead" at once when the ticket is issued past its own expiry *)
Grant(n) ==
    /\ grantee[n] = "fresh"
    /\ \E to \in Remote \cup {"dead"} : grantee' = [grantee EXCEPT ![n] = to]
    /\ UNCHANGED <<printed, reported>>

(* a revocation ends one nonce, the clock any number of them *)
Lapse(ended) ==
    /\ \A n \in ended : grantee[n] \in Remote
    /\ grantee' = [n \in Nonce |-> IF n \in ended THEN "dead" ELSE grantee[n]]
    /\ UNCHANGED <<printed, reported>>

HandOut(n) ==
    /\ grantee[n] # "fresh"
    /\ printed' = printed \cup {n}
    /\ UNCHANGED <<grantee, reported>>

Report(n) ==
    /\ grantee[n] = "dead"
    /\ reported' = reported \cup {n}
    /\ UNCHANGED <<grantee, printed>>

Next ==
    \/ \E n \in Nonce : Grant(n) \/ HandOut(n) \/ Report(n)
    \/ \E ended \in SUBSET Nonce : Lapse(ended)

Spec == Init /\ [][Next]_vars
=============================================================================
