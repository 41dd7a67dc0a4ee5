-------------------------------- MODULE Listing --------------------------------
(***************************************************************************)
(* A collection listing on its way to the relays and back (hb-core event    *)
(* and listing, hb-net split, discover and render): split into an index and *)
(* content parts when it is too large for one event, each part an encrypted *)
(* replaceable event of its own, and put together again from whatever was   *)
(* fetched.  Ciphertext is the key it was written under; JSON is its fields. *)
(***************************************************************************)
EXTENDS Integers, Sequences, SequencesExt

CONSTANTS Entry,            \* top-level entries of listings
          Weight,           \* the bytes of an entry
          Frame,            \* the bytes of a payload beside its entries
          MaxBytes,         \* the relay's limit on an event
          MaxListingParts,  \* MAX_LISTING_PARTS
          BrowseKey, NoBrowseKey

ASSUME ListingAssumption ==
    /\ Weight \in [Entry -> Nat]
    /\ Frame \in Nat /\ MaxBytes \in Nat /\ MaxListingParts \in Nat
    /\ NoBrowseKey \notin BrowseKey

(* d-tags: 0 is the slug itself, i + 1 the slug's `#part i` *)
IndexTag == 0

PartTag(i) == i + 1

Payload == [form    : {"plain", "index", "part"},
            entries : Seq(Entry), part : Nat, parts : Nat]

Plain(entries) == [form |-> "plain", entries |-> entries, part |-> 0, parts |-> 0]
Index(n) == [form |-> "index", entries |-> <<>>, part |-> 0, parts |-> n]
Part(entries, i, n) == [form |-> "part", entries |-> entries, part |-> i, parts |-> n]

Bytes(entries) == Frame + FoldLeft(LAMBDA sum, e : sum + Weight[e], 0, entries)

\* one more entry: in the chunk at hand, or the first of the next
AddEntry(acc, e) ==
    IF Bytes(Append(acc.current, e)) > MaxBytes /\ acc.current # <<>>
       THEN [chunks |-> Append(acc.chunks, acc.current), current |-> <<e>>]
       ELSE [acc EXCEPT !.current = Append(@, e)]

Chunks(entries) ==
    LET acc == FoldLeft(AddEntry, [chunks |-> <<>>, current |-> <<>>], entries)
    IN IF acc.current = <<>> THEN acc.chunks ELSE Append(acc.chunks, acc.current)

(* split_listing: d-tags and payloads, in the order they are published *)
SplitListing(entries) ==
    IF Bytes(entries) <= MaxBytes
       THEN <<[d |-> IndexTag, json |-> Plain(entries)]>>
       ELSE LET chunks == Chunks(entries)
                n == Len(chunks)
            IN <<[d |-> IndexTag, json |-> Index(n)]>>
               \o [i \in 1..n |-> [d |-> PartTag(i - 1), json |-> Part(chunks[i], i - 1, n)]]

-----------------------------------------------------------------------------
SchemaV == 1
CryptoV == 1

CheckSchema(v) == v \in 1..SchemaV
CheckCrypto(v) == v \in 1..CryptoV

(* at: created_at, id: what the hash of the event compares like; schema and *)
(* crypto: the signed version tags, 0 where missing or malformed            *)
ListingEvent(d, key, json, at, id) ==
    [d |-> d, key |-> key, json |-> json, at |-> at, id |-> id,
     schema |-> SchemaV, crypto |-> CryptoV]

\* Mutant: whoever holds a key reads everything
DecryptsAny(event, key) == CheckCrypto(event.crypto)

Decrypts(event, key) == CheckCrypto(event.crypto) /\ event.key = key

ParseListingEvent(event, key) == CheckSchema(event.schema) /\ Decrypts(event, key)

Newer(a, b) == a.at > b.at \/ (a.at = b.at /\ a.id >= b.id)

\* Mutant: of two versions of an address the older is read
SelectOldest(events) == CHOOSE e \in events : \A other \in events : Newer(other, e)

SelectNewest(events) == CHOOSE e \in events : \A other \in events : Newer(e, other)

-----------------------------------------------------------------------------
Failed == [ok |-> FALSE, entries |-> <<>>, total |-> 0, missing |-> {}]

Rendered(entries, total, missing) ==
    [ok |-> TRUE, entries |-> entries, total |-> total, missing |-> missing]

Concat(seqs) == FoldLeft(LAMBDA all, s : all \o s, <<>>, seqs)

\* Mutant: a part that counts the parts differently is put in its place too
FitsAnyIndex(part, n) == part.part < n

(* what the index named; anything else was put there by somebody *)
FitsIndex(part, n) == part.parts = n /\ part.part < n

(* render_listing on one payload per d-tag; a missing part is reported, a   *)
(* foreign or a duplicate one refuses the set                               *)
RenderListing(found) ==
    LET Of(form) == {d \in DOMAIN found : found[d].form = form}
        whole == CHOOSE d \in Of("plain") : TRUE
        n == found[CHOOSE d \in Of("index") : TRUE].parts
        refused == \/ n > MaxListingParts
                   \/ \E d \in Of("part") : ~FitsIndex(found[d], n)
                   \/ \E d, e \in Of("part") : d # e /\ found[d].part = found[e].part
        Slot(i) == {d \in Of("part") : found[d].part = i}
        Chunk(i) == IF Slot(i) = {} THEN <<>> ELSE found[CHOOSE d \in Slot(i) : TRUE].entries
    IN CASE Of("plain") # {} /\ DOMAIN found = {whole} -> Rendered(found[whole].entries, 1, {})
         [] Of("plain") # {} /\ DOMAIN found # {whole} -> Failed
         [] Of("plain") = {} /\ Of("index") = {} -> Failed
         [] Of("plain") = {} /\ Of("index") # {} ->
                IF refused THEN Failed
                ELSE Rendered(Concat([i \in 1..n |-> Chunk(i - 1)]), n,
                              {i \in 0..(n - 1) : Slot(i) = {}})
=============================================================================
