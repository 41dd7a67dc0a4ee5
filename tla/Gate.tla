---------------------------------- MODULE Gate ----------------------------------
(***************************************************************************)
(* The decisions of hb-core's gate.rs, which transfer.rs defers to: what a  *)
(* binding token must be, who may follow, and when a download is one too    *)
(* many.  The reasons of a refusal differ in wording only and are left out. *)
(***************************************************************************)
EXTENDS Integers

CONSTANTS Npub, Node,
          NoNode,      \* the hb-node tag is missing or is no 32-byte hex
          NoLimit,     \* None
          Skew,        \* FUTURE_SKEW_SECS
          MaxAge       \* TOKEN_MAX_AGE

ASSUME GateAssumption ==
    /\ Skew \in Nat /\ MaxAge \in Nat
    /\ NoNode \notin Node
    /\ NoLimit \notin Nat

TokenV == 1

(* frame: long exceeds MAX_TOKEN_FRAME_BYTES, garbled is no event in JSON. *)
(* version: 0 stands for a missing or malformed tag too.                   *)
Token == [frame   : {"fits", "long", "garbled"},
          signed  : BOOLEAN,
          kind    : {"xfer", "other"},
          version : 0..(TokenV + 1),
          npub    : Npub,
          node    : Node \cup {NoNode},
          stamped : Int]

BuildToken(npub, node, now) ==
    [frame |-> "fits", signed |-> TRUE, kind |-> "xfer", version |-> TokenV,
     npub |-> npub, node |-> node, stamped |-> now]

VerifyEvent(event) == event.signed

TagVersion(event) == event.version

FrameReads(token) == token.frame = "fits"

\* an explicit window on each side, not the distance between the two clocks
Fresh(stamped, now) ==
    /\ stamped <= now + Skew
    /\ now <= stamped + MaxAge

VerifyBindingToken(token, now) ==
    /\ VerifyEvent(token)
    /\ token.kind = "xfer"
    /\ TagVersion(token) \in 1..TokenV
    /\ Fresh(token.stamped, now)

FollowerGate(follow, followers, npub) == follow => npub \in followers

OverLimit(current, limit) == limit # NoLimit /\ current > limit
=============================================================================
