-------------------------------- MODULE Binding --------------------------------
(***************************************************************************)
(* The presence event of hb-core's binding.rs: an npub vouches for a node    *)
(* key until a time, with the addresses to dial sealed under its browse-key. *)
(***************************************************************************)
EXTENDS Integers, Sequences

CONSTANTS Npub, Node, BrowseKey,
          NoNode,        \* a missing or malformed node tag, an address that does not parse
          NoKey,         \* no browse-key is known
          NoSeal,        \* no hb-saddr tag: nothing advertised, or a legacy event
          Skew,          \* FUTURE_SKEW_SECS
          MaxBindingTtl  \* MAX_BINDING_TTL_SECS

ASSUME BindingAssumption ==
    /\ Skew \in Nat /\ MaxBindingTtl \in Nat
    /\ NoNode \notin Node /\ NoKey \notin BrowseKey
    /\ NoSeal \notin [key : BrowseKey, addrs : Seq(Node \cup {NoNode})]

SchemaV == 1
CryptoV == 1

Refused == [is |-> "error"]

(* version and crypto: 0 stands for a missing or malformed tag too          *)
PresenceEvent == [signed : BOOLEAN, kind : {"presence", "other"}, npub : Npub,
                  version : 0..(SchemaV + 1), created : Int, expires : Int,
                  node : Node \cup {NoNode},
                  sealed : [key : BrowseKey, addrs : Seq(Node \cup {NoNode})] \cup {NoSeal},
                  crypto : 0..(CryptoV + 1)]

SealAddrs(key, addrs) == [key |-> key, addrs |-> addrs]

(* Refused: the window is longer than a verifier would take                 *)
BuildBinding(npub, node, addrs, key, now, ttl) ==
    IF ttl > MaxBindingTtl THEN Refused
    ELSE [signed |-> TRUE, kind |-> "presence", npub |-> npub, version |-> SchemaV,
          created |-> now, expires |-> now + ttl, node |-> node,
          sealed |-> IF addrs = <<>> THEN NoSeal ELSE SealAddrs(key, addrs),
          crypto |-> IF addrs = <<>> THEN 0 ELSE CryptoV]

ReadSealedAddr(event) == IF event.crypto = 0 THEN NoSeal ELSE event.sealed

Unseals(event, key) ==
    /\ ReadSealedAddr(event) # NoSeal
    /\ event.crypto \in 1..CryptoV
    /\ ReadSealedAddr(event).key = key

VerifyBinding(event, expected, now) ==
    /\ event.signed
    /\ event.kind = "presence"
    /\ event.npub = expected
    /\ event.version \in 1..SchemaV
    /\ event.created <= now + Skew
    /\ event.expires - event.created <= MaxBindingTtl
    /\ now <= event.expires
    /\ event.node \in Node

\* Mutant: the address is dialled whatever node key the binding vouches for
VouchesForAny(event, node) == node \in Node

VouchesFor(event, node) == node \in Node /\ node = event.node

(* resolve_peer_addr: the node that is dialled, or NoNode                   *)
ResolvePeerAddr(event, npub, key, now) ==
    IF /\ VerifyBinding(event, npub, now)
       /\ Unseals(event, key)
       /\ event.sealed.addrs # <<>>
       /\ VouchesFor(event, Head(event.sealed.addrs))
    THEN Head(event.sealed.addrs) ELSE NoNode

(* an hbk code carries the browse-key, a bare npub is follow-only           *)
ShareCode == [npub : Npub, key : BrowseKey \cup {NoKey}]

(* contact: the key that the saved contact of that npub holds               *)
PeerBrowseKey(code, contact) == IF code.key # NoKey THEN code.key ELSE contact

(* request_download: what is dialled after `event` has been fetched         *)
RequestDials(event, code, contact, now) ==
    IF PeerBrowseKey(code, contact) = NoKey THEN NoNode
    ELSE ResolvePeerAddr(event, code.npub, PeerBrowseKey(code, contact), now)
=============================================================================
