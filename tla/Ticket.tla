--------------------------------- MODULE Ticket ---------------------------------
(***************************************************************************)
(* What crosses the paste channel and what it commits to: cards (card.rs),   *)
(* link assertions (assertion.rs), share descriptors (share.rs), manifests   *)
(* (manifest.rs) and tickets (ticket.rs).  A key pair is the person who has  *)
(* it, a signature the record of who signed what, a sealed box the key that  *)
(* opens it and its body, a hash the bytes it is the hash of.                *)
(***************************************************************************)
EXTENDS Integers, Sequences, SequencesExt

CONSTANTS NoAssertion,   \* no link_assertion
          NotManifest,    \* bytes that do not decode
          HardCap,        \* HARD_CAP_BYTES, MAX_MANIFEST_FRAME: in entries
          MaxSize         \* u64::MAX

ASSUME TicketAssumption == HardCap \in Nat /\ MaxSize \in Nat

CardVersion == 1
ManifestVersion == 1
TicketVersion == 2

-----------------------------------------------------------------------------
(* Cards *)

Card(transport, sealing, signer) ==
    [v |-> CardVersion, transport |-> transport, sealing |-> sealing,
     sig |-> [by |-> signer, over |-> sealing]]

CardOf(p) == Card(p, p, p)

\* Mutant: the binding signature is not checked
CardParsesUnbound(card) == card.v = CardVersion

(* from_payload_bytes: the transport key vouches for the sealing key        *)
CardParses(card) ==
    /\ card.v = CardVersion
    /\ card.sig = [by |-> card.transport, over |-> card.sealing]

(* the hoard key `npub` signs the card and the nonce                        *)
AssertionVerifies(assertion, card, nonce) ==
    assertion.sig = [by |-> assertion.npub, card |-> card, nonce |-> nonce]

-----------------------------------------------------------------------------
(* Manifests.  Entry: rel_path, size, hash.                                *)

Encode(entries) == [v |-> ManifestVersion, entries |-> entries]

\* Mutant: the bytes are taken for what was committed to
CommitsToAny(hash, bytes) == TRUE

\* sha256(bytes) = hash
CommitsTo(hash, bytes) == hash = bytes

Oversized(bytes) == bytes # NotManifest /\ Len(bytes.entries) > HardCap

Decodes(bytes) == ~Oversized(bytes) /\ bytes # NotManifest /\ bytes.v = ManifestVersion

DecodeAndVerify(bytes, root) == Decodes(bytes) /\ CommitsTo(root, bytes)

Sizes(entries) == [i \in 1..Len(entries) |-> entries[i].size]

Overflow == -1

\* Mutant: the sum wraps
CheckedTotalWrapping(sizes) == FoldLeft(LAMBDA sum, size : (sum + size) % (MaxSize + 1), 0, sizes)

CheckedTotal(sizes) ==
    FoldLeft(LAMBDA sum, size : IF sum = Overflow \/ sum + size > MaxSize THEN Overflow
                                ELSE sum + size,
             0, sizes)

-----------------------------------------------------------------------------
(* Share descriptors and tickets.  The payload of a ticket is the descriptor *)
(* without what only the sender needs.  A hash is that of Content.          *)

FolderEntry(Content) == [rel : Seq(STRING), size : 0..MaxSize, hash : Content]

IsFileDescriptor(d, Content) ==
    /\ DOMAIN d = {"kind", "name", "size", "hash", "mime", "assertion"}
    /\ d.kind = "file" /\ d.name \in Seq(STRING) /\ d.size \in 0..MaxSize
    /\ d.hash \in Content /\ d.mime \in STRING

IsFolderDescriptor(d, Content) ==
    /\ DOMAIN d = {"kind", "name", "root", "entries", "assertion"}
    /\ d.kind = "folder" /\ d.name \in Seq(STRING)
    /\ d.entries \in Seq(FolderEntry(Content))

FileRef(d) == [kind |-> "file", name |-> d.name, size |-> d.size, hash |-> d.hash,
               mime |-> d.mime]

FolderRef(d) == [kind |-> "folder", name |-> d.name, root |-> d.root]

Ref(d) == IF d.kind = "file" THEN FileRef(d) ELSE FolderRef(d)

VerifyRootHash(d) == CommitsTo(d.root, Encode(d.entries))

(* into_file_ticket, into_folder_ticket                                     *)
NewTicket(d, addrs, card, nonce) ==
    [v |-> TicketVersion,
     payload |-> Ref(d),
     addrs |-> addrs, card |-> card, assertion |-> d.assertion, nonce |-> nonce]

Seal(ticket, card) == [to |-> card.sealing, body |-> ticket]

(* Ticket::open by who has the sealing key of p                             *)
Opens(text, p) ==
    /\ text.to = p
    /\ text.body.v = TicketVersion
    /\ CardParses(text.body.card)
    /\ text.body.assertion # NoAssertion =>
           AssertionVerifies(text.body.assertion, text.body.card, text.body.nonce)

(* endpoint_addr_from_ticket                                                *)
Dialable(ticket) == CardParses(ticket.card) /\ ticket.addrs # {}
=============================================================================
