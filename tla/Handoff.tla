-------------------------------- MODULE Handoff --------------------------------
(***************************************************************************)
(* From a share descriptor to a file on another disk: send mints and seals a *)
(* ticket, somebody pastes it into recv, which asks, dials, asks again for a *)
(* folder and pulls what serve gives it (main.rs, endpoint.rs, dialer.rs,    *)
(* engine.rs, listener.rs).  The steps of one pull, of the ticket book and   *)
(* of the listener are those of FilePull, Registry and Listener, and one     *)
(* step here.  One recv runs at a time, in a directory where only recv       *)
(* itself changes the links.                                                *)
(***************************************************************************)
EXTENDS Ticket, Landing

CONSTANTS Person, Sender,
          Nonce,
          NoOffer, NoContent,
          Content, SizeOf, Sniffed,  \* files by their bytes, their size and signature
          TypeOfName,                \* the type that the extension of a segment claims
          Descriptor,                \* what Hoardbook may hand over
          PastedCard,                \* what may stand after --to
          SourcePlace, Shared,       \* the sender's places of interest, and what is there
          SenderLinks, ReceiverLinks,
          Bytes,                     \* what a stored manifest may turn into
          MaxDrifts, MaxRecvs

(* IssuedRecord and OfferRecord of a nonce, and what is to be remembered     *)
Recipient == {card.transport : card \in PastedCard}

Stored(d) == IF d.kind = "file" THEN NotManifest ELSE Encode(d.entries)

OfferRecord ==
    [recipient : Recipient, ref : {Ref(d) : d \in Descriptor}, file : SourcePlace \cup {<<>>},
     stored : {Stored(d) : d \in Descriptor} \cup Bytes]

SentRecord == [to : Recipient, descriptor : Descriptor]

(* the directory of the manifest copies below a destination                 *)
CopyDir == <<"manifests">>

(* the binding signatures that exist are those of Identity::card, of each    *)
(* over its own sealing key                                                 *)
ASSUME HandoffAssumption ==
    /\ \A card \in PastedCard : card.sig.by = card.sig.over
    /\ Sender \in Person /\ Outside \in SourcePlace
    /\ Shared \in [SourcePlace -> Content \cup {NoContent}] /\ NoContent \notin Content
    /\ \A d \in Descriptor : IsFileDescriptor(d, Content) \/ IsFolderDescriptor(d, Content)
    /\ NoOffer \notin OfferRecord \cup SentRecord
    /\ CopyDir \in Seq(STRING)
    /\ \A l \in SenderLinks \cup ReceiverLinks : \A at \in DOMAIN l : l[at] \in Place
    /\ SizeOf \in [Content -> Nat] /\ Sniffed \in [Content -> STRING]
    /\ MaxDrifts \in Nat /\ MaxRecvs \in Nat

VARIABLES offers,   \* of each nonce: its recipient in the book, its source and its manifest
          printed,  \* the tickets on stdout
          sent,     \* history: whom each nonce was sent to, with which descriptor
          source,   \* the sender's disk
          links,    \* the links below the shared folder and below the destination
          recv,     \* the recv command
          landed,   \* what has been received, and where it is
          served,   \* history: the places that serve has read
          written,  \* history: the places that recv has written files to
          drifts, recvs

senderVars == <<offers, printed, sent>>
vars == <<senderVars, source, links, recv, landed, served, written, drifts, recvs>>

NoRecv == [phase |-> "idle"]

Init ==
    /\ offers = [n \in Nonce |-> NoOffer]
    /\ printed = {}
    /\ sent = [n \in Nonce |-> NoOffer]
    /\ source = Shared
    /\ links \in [sender : SenderLinks, receiver : ReceiverLinks]
    /\ recv = NoRecv /\ landed = {} /\ served = {} /\ written = {}
    /\ drifts = 0 /\ recvs = 0

-----------------------------------------------------------------------------
(* The sender *)

(* IssuedRecord, record_file, record_folder: `--file` is what is shared      *)
Offer(d, card, file) ==
    [recipient |-> card.transport, ref |-> Ref(d), file |-> file, stored |-> Stored(d)]

(* the `--file` of a folder is the root of its places                       *)
SharedAs(d) == IF d.kind = "file" THEN SourcePlace \ {Outside} ELSE {<<>>}

(* local_endpoint_addrs: it gives up after a while without an address        *)
GatheredAddrs == {{}, {Sender}}

(* cmd_send.  A refused card, total or root hash leaves everything as it is. *)
(* The nonce is minted when the descriptor is already there.                *)
Send(d, card, n, file) ==
    /\ CardParses(card)
    /\ d.kind = "folder" => CheckedTotal(Sizes(d.entries)) # Overflow /\ VerifyRootHash(d)
    /\ offers[n] = NoOffer
    /\ d.assertion # NoAssertion => d.assertion.sig.nonce # n
    /\ offers' = [offers EXCEPT ![n] = Offer(d, card, file)]
    /\ sent' = [sent EXCEPT ![n] = [to |-> card.transport, descriptor |-> d]]
    /\ \E addrs \in GatheredAddrs :
           printed' = printed \cup {Seal(NewTicket(d, addrs, CardOf(Sender), n), card)}
    /\ UNCHANGED <<source, links, recv, landed, served, written, drifts, recvs>>

(* the sender's disk changes: a shared file, or a stored manifest           *)
Drift ==
    /\ drifts < MaxDrifts
    /\ drifts' = drifts + 1
    /\ \/ /\ \E place \in SourcePlace : \E c \in Content \cup {NoContent} :
                 source' = [source EXCEPT ![place] = c]
          /\ UNCHANGED offers
       \/ /\ \E n \in Nonce : \E bytes \in Bytes :
                 /\ offers[n] # NoOffer /\ offers[n].ref.kind = "folder"
                 /\ offers' = [offers EXCEPT ![n].stored = bytes]
          /\ UNCHANGED source
    /\ UNCHANGED <<printed, sent, links, recv, landed, served, written, recvs>>

(* serve, judging a request of p: what Registry and Listener detail         *)
Authorized(n, p) == offers[n] # NoOffer /\ offers[n].recipient = p

(* check_source                                                             *)
SourceOk(place, size) ==
    place \in SourcePlace /\ source[place] # NoContent /\ SizeOf[source[place]] = size

EntriesOf(n) == offers[n].stored.entries

(* manifest_entry_for: the first entry with that path                       *)
EntryFor(entries, rel) == SelectInSeq(entries, LAMBDA e : e.rel = rel)

(* serve_manifest_op                                                        *)
ServesManifest(n) ==
    /\ offers[n].ref.kind = "folder"
    /\ ~Oversized(offers[n].stored)
    /\ CommitsTo(offers[n].ref.root, offers[n].stored)

(* serve_file_op, serve_folder_file_op: the request is answered with what is *)
(* at the place                                                             *)
ServesFile(n, place) ==
    offers[n].ref.kind = "file" /\ place = offers[n].file /\ SourceOk(place, offers[n].ref.size)

ServesEntry(n, rel, place) ==
    /\ offers[n].ref.kind = "folder"
    /\ DecodeAndVerify(offers[n].stored, offers[n].ref.root)
    /\ EntryFor(EntriesOf(n), rel) # 0
    /\ ResolvesWithin(links.sender, rel)
    /\ place = PlaceOf(links.sender, rel)
    /\ SourceOk(place, EntriesOf(n)[EntryFor(EntriesOf(n), rel)].size)

-----------------------------------------------------------------------------
(* The receiver: cmd_recv *)

At(phase) == recv.phase = phase

IsFolder == recv.ticket.payload.kind = "folder"

Unsaid == -1

(* the ticket opens; consent_prompt prints the notice whatever `--yes` says  *)
StartRecv(p, text, yes) ==
    /\ recv.phase \in {"idle", "done"} /\ recvs < MaxRecvs
    /\ Opens(text, p)
    /\ recv' = [phase |-> "ask", who |-> p, yes |-> yes, ticket |-> text.body,
                notice |-> TRUE, reminder |-> FALSE, total |-> Unsaid, agreed |-> 0,
                manifest |-> <<>>, queue |-> <<>>, got |-> {}, warned |-> {}, unread |-> {}]
    /\ recvs' = recvs + 1
    /\ UNCHANGED <<senderVars, source, links, landed, served, written, drifts>>

(* of both prompts: `--yes` folds the question                              *)
Answer ==
    /\ recv.phase \in {"ask", "start"}
    /\ \/ recv' = [recv EXCEPT !.agreed = @ + 1,
                               !.phase = IF At("start") THEN "entries"
                                         ELSE IF IsFolder THEN "manifest" ELSE "file"]
       \/ ~recv.yes /\ recv' = NoRecv
    /\ UNCHANGED <<senderVars, source, links, landed, served, written, drifts, recvs>>

(* what a folder pull has landed is still reported                          *)
Stopped == IF At("entries") THEN [recv EXCEPT !.phase = "sniff"] ELSE NoRecv

(* a dial or a stream fails, serve refuses, or a guard does                 *)
Fail ==
    /\ recv.phase \in {"file", "manifest", "entries"}
    /\ recv' = Stopped
    /\ UNCHANGED <<senderVars, source, links, landed, served, written, drifts, recvs>>

(* killed, or Ctrl-C *)
Kill ==
    /\ recv.phase \notin {"idle", "done"}
    /\ recv' = NoRecv
    /\ UNCHANGED <<senderVars, source, links, landed, served, written, drifts, recvs>>

Got(name, mime, hash, at, content) ==
    [who |-> recv.who, nonce |-> recv.ticket.nonce, name |-> name, mime |-> mime,
     hash |-> hash, at |-> at, content |-> content]

(* what is written, and whether through a link that stands in its own place, *)
(* not on the way to it                                                     *)
Wrote(rel) ==
    [place |-> WritesAt(links.receiver, rel), linked |-> PartLinked(links.receiver, rel)]

Write(rel, place, after) ==
    /\ served' = served \cup {place}
    /\ written' = written \cup {Wrote(rel)}
    /\ \E l \in after : links' = [links EXCEPT !.receiver = l]
    /\ UNCHANGED <<senderVars, source, drifts, recvs>>

Land(got, place) ==
    /\ landed' = landed \cup {got}
    /\ Write(got.name, place, Renamed(links.receiver, got.name))

(* dialer::pull, until bytes arrive                                         *)
PullsFile(place) ==
    /\ At("file") /\ Dialable(recv.ticket)
    /\ SafeFilename(recv.ticket.payload.name)
    /\ Authorized(recv.ticket.nonce, recv.who) /\ ServesFile(recv.ticket.nonce, place)

(* ... and the file's completion, which may fail to be recorded             *)
PullFile(place) ==
    LET ref == recv.ticket.payload
        got == Got(ref.name, ref.mime, ref.hash, WritesAt(links.receiver, ref.name), source[place])
    IN /\ PullsFile(place)
       /\ CommitsTo(ref.hash, source[place])
       /\ \/ recv' = [recv EXCEPT !.phase = "sniff", !.got = {got}]
          \/ recv' = NoRecv
       /\ Land(got, place)

(* dialer::fetch_manifest.  A copy goes below the destination's `manifests`, *)
(* a directory or a link to one, unless writing it fails.                   *)
ManifestCopy ==
    [place |-> PlaceOf(links.receiver, CopyDir), linked |-> CopyDir \in DOMAIN links.receiver]

FetchManifest ==
    LET n == recv.ticket.nonce
    IN /\ At("manifest") /\ Dialable(recv.ticket)
       /\ Authorized(n, recv.who) /\ ServesManifest(n)
       /\ DecodeAndVerify(offers[n].stored, recv.ticket.payload.root)
       /\ written' = written \cup {ManifestCopy}
       /\ recv' \in {[recv EXCEPT !.phase = "survey", !.manifest = EntriesOf(n)], NoRecv}
       /\ UNCHANGED <<senderVars, source, links, landed, served, drifts, recvs>>

(* is_held, of a history that is not purged                                 *)
Held(e) ==
    /\ \E got \in landed : got.who = recv.who /\ got.hash = e.hash
    /\ \E got \in landed : got.who = recv.who /\ got.at = PlaceOf(links.receiver, e.rel)

NotHeld(entries) ==
    FoldLeft(LAMBDA queue, e : IF Held(e) THEN queue ELSE Append(queue, e), <<>>, entries)

(* the list and the totals are printed, and the reminder with the question; *)
(* both totals are checked first                                            *)
Survey ==
    LET queue == NotHeld(recv.manifest)
        sum == CheckedTotal(Sizes(queue))
    IN /\ At("survey")
       /\ recv' = IF Overflow \in {CheckedTotal(Sizes(recv.manifest)), sum} \/ queue = <<>>
                  THEN NoRecv
                  ELSE [recv EXCEPT !.phase = "start", !.queue = queue,
                                    !.total = sum, !.reminder = TRUE]
       /\ UNCHANGED <<senderVars, source, links, landed, served, written, drifts, recvs>>

(* one turn of pull_folder, until bytes arrive *)
PullsEntry(place) ==
    LET e == Head(recv.queue)
    IN /\ At("entries") /\ recv.queue # <<>> /\ Dialable(recv.ticket)
       /\ SafeRelPath(e.rel) /\ PreparesEntry(links.receiver, e.rel)
       /\ Authorized(recv.ticket.nonce, recv.who) /\ ServesEntry(recv.ticket.nonce, e.rel, place)

PullEntry(place) ==
    LET e == Head(recv.queue)
        got == Got(e.rel, None, e.hash, WritesAt(links.receiver, e.rel), source[place])
    IN /\ PullsEntry(place)
       /\ CommitsTo(e.hash, source[place])
       /\ recv' = [recv EXCEPT !.queue = Tail(@), !.got = @ \cup {got}]
       /\ Land(got, place)

(* a pull that breaks, or whose bytes are not the ones: the `.part` stays or *)
(* is removed (the retention of pull_file_inner)                            *)
Break(place) ==
    LET rel == IF At("file") THEN recv.ticket.payload.name ELSE Head(recv.queue).rel
    IN /\ PullsFile(place) \/ PullsEntry(place)
       /\ Write(rel, place, {links.receiver, Unlinked(links.receiver, rel)})
       /\ recv' = Stopped
       /\ UNCHANGED landed

EntriesDone ==
    /\ At("entries") /\ recv.queue = <<>>
    /\ recv' = [recv EXCEPT !.phase = "sniff"]
    /\ UNCHANGED <<senderVars, source, links, landed, served, written, drifts, recvs>>

VerdictOf(got) == Verdict(TypeOfName[Last(got.name)], got.mime, Sniffed[got.content])

(* sniff_report of everything that has landed; it says nothing of a file     *)
(* that it cannot open or read                                              *)
Sniff ==
    /\ At("sniff")
    /\ \E unread \in SUBSET recv.got :
           recv' = [recv EXCEPT !.phase = "done", !.unread = unread,
                                !.warned = {got \in recv.got \ unread : VerdictOf(got) = "mismatch"}]
    /\ UNCHANGED <<senderVars, source, links, landed, served, written, drifts, recvs>>

Next ==
    \/ \E d \in Descriptor, card \in PastedCard, n \in Nonce :
           \E file \in SharedAs(d) : Send(d, card, n, file)
    \/ Drift
    \/ \E p \in Person, text \in printed, yes \in BOOLEAN : StartRecv(p, text, yes)
    \/ Answer \/ Fail \/ Kill
    \/ \E place \in SourcePlace : PullFile(place) \/ PullEntry(place) \/ Break(place)
    \/ FetchManifest \/ Survey \/ EntriesDone \/ Sniff

Spec == Init /\ [][Next]_vars

-----------------------------------------------------------------------------
(* What lands was listed in a descriptor that was sent to its receiver under *)
(* that ticket, with that path and those bytes, whatever the sender's files  *)
(* and its stored manifest have turned into since (verify_root_hash,         *)
(* decode_and_verify, the hash gate).                                       *)
Lists(d, got) ==
    IF d.kind = "file" THEN got.name = d.name /\ got.content = d.hash
    ELSE \E i \in 1..Len(d.entries) :
             d.entries[i].rel = got.name /\ d.entries[i].hash = got.content

OnlyWhatWasOffered ==
    \A got \in landed : /\ sent[got.nonce] # NoOffer
                        /\ sent[got.nonce].to = got.who
                        /\ Lists(sent[got.nonce].descriptor, got)

(* Nothing is read outside the shared directory, and recv writes no file     *)
(* outside the chosen one through a path or the links on it.  What it does    *)
(* follow, wherever it leads, is a link that stands where the `.part` or the *)
(* directory of the manifest copies is to be (safe_rel_path,                 *)
(* prepare_entry_dest, resolve_within_root, receive_into_part).             *)
Confined ==
    /\ Outside \notin served
    /\ \A w \in written : w.place = Outside => w.linked

(* Nothing is dialled before the notice has been shown and agreed to; no     *)
(* bytes of a folder move before the reminder, and an answer given with the  *)
(* true total of what is to be pulled in view (consent_prompt, start_prompt, *)
(* checked_total).                                                          *)
SumOf(entries) == FoldLeft(LAMBDA sum, size : sum + size, 0, Sizes(entries))

StartedKnowingly ==
    /\ recv.phase \in {"file", "manifest", "survey"} => recv.notice /\ recv.agreed = 1
    /\ At("start") => recv.total = SumOf(recv.queue)
    /\ At("entries") => recv.notice /\ recv.reminder /\ recv.agreed = 2 /\ recv.total # Unsaid

(* A ticket on stdout opens for the person who is recorded as its recipient, *)
(* unless it carries an assertion, and for nobody else: whose card was       *)
(* pasted with another's sealing key gets no ticket (Card::parse, seal,      *)
(* open).  The assertion of a descriptor cannot sign the nonce of its ticket.*)
OpensForRecipient ==
    \A text \in printed : \A p \in Person :
        Opens(text, p) <=> /\ p = sent[text.body.nonce].to
                           /\ text.body.assertion = NoAssertion

(* When recv has ended by itself, every file it landed whose signature       *)
(* contradicts the name or the type it was offered under has been warned of, *)
(* also when a later file of the folder failed, but for one that could not   *)
(* be opened or read again (sniff_report).  A recv that is killed, or cannot *)
(* write its history, is not one that ends by itself.                       *)
MislabelsAreReported ==
    At("done") => \A got \in recv.got :
        LET sniffed == Sniffed[got.content]
        IN /\ sniffed # None
           /\ TypeOfName[Last(got.name)] \notin {None, sniffed} \/ got.mime \notin {None, sniffed}
           => got \in recv.warned \cup recv.unread
=============================================================================
