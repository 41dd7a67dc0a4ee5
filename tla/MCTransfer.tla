------------------------------ MODULE MCTransfer ------------------------------
(* Small instances of Transfer for TLC. *)
EXTENDS Transfer, TLC

CONSTANTS alice, bob, na, nb, pics, open, other, p1, p2, c1, c2

MCCovers == p1 :> {open} @@ p2 :> {}
MCKind == open :> "file" @@ other :> "missing"

Shared == [enabled |-> TRUE, follow |-> FALSE, limit |-> NoLimit, cap |-> NoLimit,
           allowed |-> {}, root |-> TRUE]

MCSaved == {[Shared EXCEPT !.follow = TRUE, !.limit = 1, !.allowed = {p1}],
            [Shared EXCEPT !.limit = 1, !.cap = 0],
            DefaultSettings}

Honest == [token |-> BuildToken(alice, na, Now), node |-> na, slug |-> pics,
           path |-> open, request |-> "fits", hash |-> "right"]

\* the second client's downloads are the odd ones
MCAsked ==
    c1 :> {Honest} @@
    c2 :> {[Honest EXCEPT !.hash = "none"],
           [Honest EXCEPT !.node = nb],
           [Honest EXCEPT !.request = "garbled"],
           [Honest EXCEPT !.request = "long"],
           [Honest EXCEPT !.path = other]}
=============================================================================
