-------------------------------- MODULE Catalog --------------------------------
(***************************************************************************)
(* Publishing a collection's listing to relays and browsing it (hb-net      *)
(* browse, client, nip65).  The parts of a listing are published one after  *)
(* the other, each to every relay; a browse asks the relays it can reach    *)
(* meanwhile.  A relay that follows NIP-01 keeps the newest event of a      *)
(* d-tag, another may keep them all.                                        *)
(***************************************************************************)
EXTENDS Listing, FiniteSets

CONSTANTS Relay,
          Hoarders,     \* relays that keep superseded events
          Configured,   \* the seed and own relays a reader connects to
          Outbox,       \* the write relays of the peer's kind-10002 list
          ListedOn,     \* the relays that list is found on
          Version, Content,   \* what the owner may publish
          EventId,
          MaxPublications, MaxTime,
          MaxRejections \* events refused by a relay, fetches left unanswered

ASSUME CatalogAssumption ==
    /\ Hoarders \cup Configured \cup Outbox \cup ListedOn \subseteq Relay
    /\ Configured # {}
    /\ Content \in [Version -> Seq(Entry)]
    /\ EventId \subseteq Nat
    /\ MaxPublications \in Nat /\ MaxTime \in Nat /\ MaxRejections \in Nat

VARIABLES now,
          store,       \* the events each relay holds
          log,         \* history: the publications, the last one first
          todo,        \* what publish_listing has still to publish
          reader,      \* the browse
          shown,       \* BrowseResult::listing
          rejections

catalogVars == <<now, store, log, todo, reader, shown, rejections>>

Time == 0..MaxTime

(* sound: every part was accepted by every relay.  events: those built.     *)
Publication(version, key, id) ==
    [version |-> version, key |-> key, id |-> id, events |-> {}, sound |-> TRUE]

NotReading == [phase |-> "idle", key |-> NoBrowseKey, ask |-> {}, got |-> {},
               seen |-> 0, whole |-> TRUE]

CatalogInit ==
    /\ now = 0
    /\ store = [r \in Relay |-> {}]
    /\ log = <<>> /\ todo = <<>>
    /\ reader = NotReading /\ shown = Failed
    /\ rejections = 0

(* A browse changes nothing that anybody else sees, so behaviours are       *)
(* followed up to the end of one.                                           *)
Followed == reader.phase # "done"

Tick ==
    /\ Followed
    /\ now < MaxTime
    /\ now' = now + 1
    /\ UNCHANGED <<store, log, todo, reader, shown, rejections>>

-----------------------------------------------------------------------------
(* publish_listing *)

StartPublish(version, key, id) ==
    /\ Followed
    /\ todo = <<>>
    /\ Len(log) < MaxPublications
    /\ \A i \in 1..Len(log) : log[i].id # id
    /\ log' = <<Publication(version, key, id)>> \o log
    /\ todo' = SplitListing(Content[version])
    /\ reader' = [reader EXCEPT !.whole = FALSE]
    /\ UNCHANGED <<now, store, shown, rejections>>

\* NIP-01: the newest event of an address stays, of two as old the lower id
Replace(events, e) ==
    LET same == {f \in events : f.d = e.d}
        kept == {f \in same : f.at > e.at \/ (f.at = e.at /\ f.id < e.id)}
    IN IF kept = {} THEN (events \ same) \cup {e} ELSE events

Receive(r, e) == IF r \in Hoarders THEN store[r] \cup {e} ELSE Replace(store[r], e)

(* RelayClient::publish: an event no relay accepts ends the publication,    *)
(* with the parts before it out already                                     *)
PublishNext(accepted) ==
    LET part == Head(todo)
        last == Head(log)
        event == ListingEvent(part.d, last.key, part.json, now, last.id)
    IN /\ Followed /\ todo # <<>>
       /\ \/ accepted = Relay /\ UNCHANGED rejections
          \/ accepted # Relay /\ rejections < MaxRejections /\ rejections' = rejections + 1
       /\ store' = [r \in Relay |-> IF r \in accepted THEN Receive(r, event) ELSE store[r]]
       /\ todo' = IF accepted = {} THEN <<>> ELSE Tail(todo)
       /\ log' = <<[last EXCEPT !.events = @ \cup {event}, !.sound = @ /\ accepted = Relay]>>
                 \o Tail(log)
       /\ UNCHANGED <<now, reader, shown>>

-----------------------------------------------------------------------------
(* browse_share_code *)

StartBrowse(key) ==
    /\ reader.phase = "idle"
    /\ reader' = [phase |-> "resolve", key |-> key, ask |-> Configured, got |-> {},
                  seen |-> Len(log), whole |-> todo = <<>>]
    /\ UNCHANGED <<now, store, log, todo, shown, rejections>>

(* resolve_peer_relays and ensure_relays: the relays the peer writes to, if *)
(* its list is found and they can be reached, beside those configured       *)
BootstrapOrder(found) == Configured \cup (IF found THEN Outbox ELSE {})

ResolveRelays(reached) ==
    /\ reader.phase = "resolve"
    /\ \E found \in BOOLEAN :
          /\ found => Configured \cap ListedOn # {}
          /\ Configured \subseteq reached /\ reached \subseteq BootstrapOrder(found)
    /\ reader' = [reader EXCEPT !.phase = "teaser", !.ask = reached]
    /\ UNCHANGED <<now, store, log, todo, shown, rejections>>

(* the teaser is public; failing to ask for it fails the browse *)
FetchTeaser(fails) ==
    /\ reader.phase = "teaser"
    /\ reader' = [reader EXCEPT !.phase = IF fails THEN "done" ELSE "fetch",
                                 !.whole = @ /\ ~fails]
    /\ UNCHANGED <<now, store, log, todo, shown, rejections>>

(* one relay's answer; events of one id are one event *)
FetchFrom(r) ==
    /\ reader.phase = "fetch" /\ r \in reader.ask
    /\ reader' = [reader EXCEPT !.ask = @ \ {r}, !.got = @ \cup store[r]]
    /\ UNCHANGED <<now, store, log, todo, shown, rejections>>

(* no answer within the timeout *)
FetchTimesOut(r) ==
    /\ reader.phase = "fetch" /\ r \in reader.ask
    /\ rejections < MaxRejections
    /\ rejections' = rejections + 1
    /\ reader' = [reader EXCEPT !.ask = @ \ {r}, !.whole = FALSE]
    /\ UNCHANGED <<now, store, log, todo, shown>>

(* fetch_listing: one event a d-tag, the newest; if one of them cannot be   *)
(* read there is no listing                                                 *)
FetchListing(events, key) ==
    LET newest == [d \in {e.d : e \in events} |-> SelectNewest({e \in events : e.d = d})]
    IN IF \/ events = {}
          \/ key = NoBrowseKey
          \/ \E d \in DOMAIN newest : ~ParseListingEvent(newest[d], key)
          THEN Failed
          ELSE RenderListing([d \in DOMAIN newest |-> newest[d].json])

FinishBrowse ==
    /\ reader.phase = "fetch" /\ reader.ask = {}
    /\ shown' = FetchListing(reader.got, reader.key)
    /\ reader' = [reader EXCEPT !.phase = "done", !.got = {}]
    /\ UNCHANGED <<now, store, log, todo, rejections>>

Browse ==
    \/ \E reached \in SUBSET Relay : ResolveRelays(reached)
    \/ \E fails \in BOOLEAN : FetchTeaser(fails)
    \/ \E r \in Relay : FetchFrom(r) \/ FetchTimesOut(r)
    \/ FinishBrowse

CatalogNext ==
    \/ Tick
    \/ \E version \in Version, key \in BrowseKey, id \in EventId : StartPublish(version, key, id)
    \/ \E accepted \in SUBSET Relay : PublishNext(accepted)
    \/ \E key \in BrowseKey \cup {NoBrowseKey} : StartBrowse(key)
    \/ Browse

CatalogSpec == CatalogInit /\ [][CatalogNext]_catalogVars

-----------------------------------------------------------------------------
(* What must hold. *)

Latest == Head(log)

PartsOf(version) == Len(SplitListing(Content[version]))

(* split_listing makes as many parts as it takes, a reader accepts only      *)
(* MAX_LISTING_PARTS of them (render.rs:103)                                *)
Acceptable(version) == PartsOf(version) - 1 <= MaxListingParts

(* the browse ended, no answer is missing, and nothing was published while  *)
(* it went on, whose last publication every relay accepted                  *)
Undisturbed ==
    /\ reader.phase = "done" /\ reader.whole
    /\ log # <<>> /\ reader.seen = Len(log) /\ Latest.sound

EarlierEvents == UNION {log[i].events : i \in 2..Len(log)}

NewerThanEarlier == \A e \in EarlierEvents : \A f \in Latest.events : f.at > e.at

(* the last publication has an event for every d-tag published before it    *)
CoversEarlier == \A e \in EarlierEvents : \E f \in Latest.events : f.d = e.d

(* browse.rs:46 "re-publishing the same slug supersedes the prior listing": *)
(* who browses undisturbed, with its key, sees all of the last publication  *)
(* and nothing else, whatever was published before it.  This holds where    *)
(* the split has not shrunk: the surplus parts of an earlier one, under     *)
(* d-tags of their own, stay on the relays and are shown with it.  And a    *)
(* listing of more parts than a reader accepts is published all the same.   *)
SupersedesOutright ==
    Undisturbed /\ NewerThanEarlier /\ CoversEarlier
    /\ Acceptable(Latest.version) /\ reader.key = Latest.key
        => shown.ok /\ shown.entries = Content[Latest.version] /\ shown.missing = {}

Shown == {shown.entries[i] : i \in 1..Len(shown.entries)}

Has(publication, e) ==
    \E i \in 1..Len(Content[publication.version]) : Content[publication.version][i] = e

(* render_listing: however publications and fetches interleave, with parts  *)
(* refused or left unanswered, an entry is shown only among as many parts   *)
(* as the publication it belongs to was split into.                         *)
NoForeignPart ==
    \A e \in Shown : \E i \in 1..Len(log) :
        /\ Has(log[i], e)
        /\ \/ shown.total = PartsOf(log[i].version) - 1
           \/ shown.total = 1 /\ PartsOf(log[i].version) = 1

(* parse_listing_event: a reader sees entries only of publications under    *)
(* the key it holds, though a family mixes old and new keys after a re-key. *)
RekeyLocks == \A e \in Shown : \E i \in 1..Len(log) : Has(log[i], e) /\ log[i].key = reader.key
=============================================================================
