-------------------------------- MODULE Transfer --------------------------------
(***************************************************************************)
(* `/hoardbook/xfer/1` (mascara-transfer): an accept loop of bounded width, *)
(* the binding gate, the download slots of DownloadRegistry, and the client *)
(* that downloads one file per connection and may be cancelled.  A response *)
(* is followed by drain_connection, which holds the connection until the    *)
(* client has closed it, or five seconds.                                   *)
(***************************************************************************)
EXTENDS Gate, FiniteSets

CONSTANTS Conn,            \* downloads, each with a connection of its own
          Patient,         \* those whose client goes on to the end
          Slug, Path, Pattern,
          Covers,          \* the paths a pattern of allowed_paths matches
          Kind,            \* what a path is below the shared root
          Size,            \* a file's length, in chunks
          MaxConnections,  \* MAX_CONCURRENT_CONNECTIONS
          Now,             \* unix_now() when a token is verified
          Asked,           \* what may be requested on each connection
          NoAsk,           \* not requested yet
          Saved,           \* the settings the user may save
          MaxChanges       \* edits, cancels, and faults beneath the protocol

ShareSettings == [enabled : BOOLEAN, follow : BOOLEAN,
                  limit   : Nat \cup {NoLimit},   \* download_limit
                  cap     : Nat \cup {NoLimit},   \* speed_cap_kbps
                  allowed : SUBSET Pattern, root : BOOLEAN]

\* a collection without saved settings is not shared
DefaultSettings == [enabled |-> FALSE, follow |-> FALSE, limit |-> NoLimit,
                    cap |-> NoLimit, allowed |-> {}, root |-> FALSE]

(* node: conn.remote_id().  request: long exceeds the cap, garbled is no    *)
(* JSON, badslug fails is_valid_slug.  hash: expected_sha256.               *)
Ask == [token : Token, node : Node, slug : Slug, path : Path,
        request : {"fits", "long", "garbled", "badslug"},
        hash : {"none", "right", "wrong"}]

ASSUME TransferAssumption ==
    /\ IsFiniteSet(Conn) /\ Patient \subseteq Conn
    /\ Covers \in [Pattern -> SUBSET Path]
    /\ Kind \in [Path -> {"file", "missing", "outside", "invalid"}]
    /\ Size \in Nat /\ Now \in Nat
    /\ MaxConnections \in Nat \ {0}
    /\ Asked \in [Conn -> SUBSET Ask] /\ NoAsk \notin Ask
    /\ Saved \subseteq ShareSettings
    /\ MaxChanges \in Nat

VARIABLES settings,   \* load_share_settings
          contacts,   \* follower_npubs
          active,     \* DownloadRegistry::active_downloads
          srv,        \* the server's task of each connection
          wire,       \* what has been written to each connection
          ask,        \* the arguments of request_download
          cli,        \* the client's task of each download
          cancels,    \* DownloadRegistry::cancels
          signalled,  \* downloads whose oneshot has been sent
          stalled,    \* permits held by others, who connected and never say a word
          changes     \* edits, cancels and faults so far

server == <<settings, contacts, active>>
client == <<ask, cli, cancels, signalled>>
vars == <<server, srv, wire, client, stalled, changes>>

ServerPhase == {"none", "queued", "token", "request", "load", "gate", "acquire",
                "count", "path", "stream", "return", "drain", "gone"}

Server == [phase    : ServerPhase,
           settings : ShareSettings,   \* the copy the request is judged by
           current  : Nat,             \* what acquire_slot returned
           guard    : BOOLEAN]         \* _slot_guard is Some

NoServer == [phase |-> "none", settings |-> DefaultSettings, current |-> 0, guard |-> FALSE]

Wire == [written : {"nothing", "token", "request"},
         status  : {"none", "ok", "error"},
         sent    : 0..Size, fin : BOOLEAN,
         lost    : BOOLEAN,    \* the connection is gone
         by      : {"none", "cut", "timeout"}]   \* history: what took it from the client

Silent == [written |-> "nothing", status |-> "none", sent |-> 0,
           fin |-> FALSE, lost |-> FALSE, by |-> "none"]

(* failed: `?` on a lost connection or an ended stream; stopped: `?` on     *)
(* writing to a server that has answered and reads no more                  *)
Ended == {"done", "refused", "mismatch", "cancelled", "failed", "stopped"}

ClientPhase == Ended \cup {"idle", "asked", "connect", "token", "request",
                           "status", "body", "read", "check"}

Client == [phase : ClientPhase, got : 0..Size, file : BOOLEAN,
           event : {"none", "active", "done", "cancelled", "error"}]

Idle == [phase |-> "idle", got |-> 0, file |-> FALSE, event |-> "none"]

TransferTypeOK ==
    /\ settings \in [Slug -> ShareSettings]
    /\ contacts \subseteq Npub
    /\ active \in Nat
    /\ srv \in [Conn -> Server]
    /\ wire \in [Conn -> Wire]
    /\ ask \in [Conn -> Ask \cup {NoAsk}]
    /\ cli \in [Conn -> Client]
    /\ cancels \subseteq Conn /\ signalled \subseteq Conn
    /\ stalled \in 0..MaxConnections
    /\ changes \in 0..MaxChanges

TransferInit ==
    /\ settings \in [Slug -> Saved]
    /\ contacts = Npub
    /\ active = 0
    /\ srv = [c \in Conn |-> NoServer]
    /\ wire = [c \in Conn |-> Silent]
    /\ ask = [c \in Conn |-> NoAsk]
    /\ cli = [c \in Conn |-> Idle]
    /\ cancels = {} /\ signalled = {}
    /\ stalled \in 0..(MaxConnections - 1)
    /\ changes = 0

-----------------------------------------------------------------------------
Change == changes < MaxChanges /\ changes' = changes + 1

(* The user: save_share_settings, and the contacts followers are read from. *)

SaveShareSettings(slug, new) ==
    /\ Change
    /\ settings' = [settings EXCEPT ![slug] = new]
    /\ UNCHANGED <<contacts, active, srv, wire, client, stalled>>

SaveContacts(new) ==
    /\ Change
    /\ contacts' = new
    /\ UNCHANGED <<settings, active, srv, wire, client, stalled>>

-----------------------------------------------------------------------------
(* The server. *)

Gone(c) == wire[c].lost \/ cli[c].phase \in Ended

ServerGoto(c, phase) == srv' = [srv EXCEPT ![c].phase = phase]

\* send_error, after which handle_xfer_stream returns
Refuse(c) ==
    /\ wire' = [wire EXCEPT ![c].status = "error", ![c].fin = TRUE]
    /\ ServerGoto(c, "return")

\* an early return through `?`: nothing is written, the dropped stream ends
EndSilently(c) ==
    /\ wire' = [wire EXCEPT ![c].fin = TRUE]
    /\ ServerGoto(c, "return")

ServerOnly == UNCHANGED <<settings, contacts, client, stalled>>

Permits == Cardinality({c \in Conn : srv[c].phase \notin {"none", "queued", "gone"}})

(* run_accept_loop: the permit is taken before the connection is accepted *)
Accept(c) ==
    /\ srv[c].phase = "queued"
    /\ Permits + stalled < MaxConnections
    /\ ServerGoto(c, IF Gone(c) THEN "gone" ELSE "token")
    /\ UNCHANGED <<active, wire, changes>> /\ ServerOnly

\* Mutant: any verified token will do, whichever node it was minted for
TokenAdmitsAnyNode(c) ==
    /\ FrameReads(ask[c].token)
    /\ VerifyBindingToken(ask[c].token, Now)

TokenAdmits(c) ==
    /\ FrameReads(ask[c].token)
    /\ VerifyBindingToken(ask[c].token, Now)
    /\ ask[c].token.node = ask[c].node

ReadToken(c) ==
    /\ srv[c].phase = "token"
    /\ wire[c].written # "nothing"
    /\ \/ TokenAdmits(c) /\ ServerGoto(c, "request") /\ UNCHANGED wire
       \/ ~TokenAdmits(c) /\ Refuse(c)
    /\ UNCHANGED <<active, changes>> /\ ServerOnly

ReadRequest(c) ==
    /\ srv[c].phase = "request"
    /\ wire[c].written = "request"
    /\ \/ ask[c].request = "fits" /\ ServerGoto(c, "load") /\ UNCHANGED wire
       \/ ask[c].request \in {"long", "badslug"} /\ Refuse(c)
       \/ ask[c].request = "garbled" /\ EndSilently(c)
    /\ UNCHANGED <<active, changes>> /\ ServerOnly

LoadSettings(c) ==
    /\ srv[c].phase = "load"
    /\ LET copy == settings[ask[c].slug]
       IN \/ /\ copy.enabled
             /\ srv' = [srv EXCEPT ![c].phase = "gate", ![c].settings = copy]
             /\ UNCHANGED wire
          \/ ~copy.enabled /\ Refuse(c)
    /\ UNCHANGED <<active, changes>> /\ ServerOnly

\* only a limited collection is counted
Limited(c) == srv[c].settings.limit # NoLimit

CheckFollower(c) ==
    /\ srv[c].phase = "gate"
    /\ LET admitted == FollowerGate(srv[c].settings.follow, contacts, ask[c].token.npub)
       IN \/ /\ admitted
             /\ ServerGoto(c, IF Limited(c) THEN "acquire" ELSE "path")
             /\ UNCHANGED wire
          \/ ~admitted /\ Refuse(c)
    /\ UNCHANGED <<active, changes>> /\ ServerOnly

\* Mutant: the count from before the acquisition is judged
AcquireSlotEarly(c) ==
    /\ srv[c].phase = "acquire"
    /\ active' = active + 1
    /\ srv' = [srv EXCEPT ![c].phase = "count", ![c].current = active]
    /\ UNCHANGED <<wire, changes>> /\ ServerOnly

AcquireSlot(c) ==
    /\ srv[c].phase = "acquire"
    /\ active' = active + 1
    /\ srv' = [srv EXCEPT ![c].phase = "count", ![c].current = active + 1]
    /\ UNCHANGED <<wire, changes>> /\ ServerOnly

\* Mutant: a refused request keeps its slot
CheckLimitLeaking(c) ==
    /\ srv[c].phase = "count"
    /\ LET over == OverLimit(srv[c].current, srv[c].settings.limit)
       IN \/ over /\ Refuse(c)
          \/ ~over /\ srv' = [srv EXCEPT ![c].phase = "path", ![c].guard = TRUE] /\ UNCHANGED wire
    /\ UNCHANGED <<active, changes>> /\ ServerOnly

(* check_download_limit on the count acquire_slot returned, then the guard *)
CheckLimit(c) ==
    /\ srv[c].phase = "count"
    /\ LET over == OverLimit(srv[c].current, srv[c].settings.limit)
       IN \/ over /\ active' = active - 1 /\ Refuse(c)
          \/ /\ ~over
             /\ srv' = [srv EXCEPT ![c].phase = "path", ![c].guard = TRUE]
             /\ UNCHANGED <<active, wire>>
    /\ UNCHANGED changes /\ ServerOnly

(* is_allowed_path: no pattern allows every path, a blank one allows none *)
IsAllowedPath(path, allowed) == allowed = {} \/ \E p \in allowed : path \in Covers[p]

CheckPath(c) ==
    /\ srv[c].phase = "path"
    /\ LET copy == srv[c].settings
           found == /\ IsAllowedPath(ask[c].path, copy.allowed)
                    /\ copy.root
                    /\ Kind[ask[c].path] = "file"
       IN \/ /\ found
             /\ wire' = [wire EXCEPT ![c].status = "ok"]
             /\ ServerGoto(c, "stream")
          \/ ~found /\ Refuse(c)
    /\ UNCHANGED <<active, changes>> /\ ServerOnly

\* throttled_copy divides by the cap: none, or a rate it can sleep for
Paced(c) == srv[c].settings.cap # 0

SendChunk(c) ==
    /\ srv[c].phase = "stream"
    /\ wire[c].sent < Size
    /\ Paced(c) \/ wire[c].sent = 0
    /\ wire' = [wire EXCEPT ![c].sent = @ + 1]
    /\ UNCHANGED <<active, srv, changes>> /\ ServerOnly

(* The copy and the shutdown; where the file has become shorter since its   *)
(* length was announced, or cannot be read on, the stream ends early.       *)
EndStream(c) ==
    /\ srv[c].phase = "stream"
    /\ Paced(c) \/ wire[c].sent = 0
    /\ \/ wire[c].sent = Size /\ UNCHANGED changes
       \/ wire[c].sent < Size /\ Change
    /\ wire' = [wire EXCEPT ![c].fin = TRUE]
    /\ ServerGoto(c, "return")
    /\ UNCHANGED active /\ ServerOnly

(* the settings do not load, or the root or the file is gone: no response *)
Fail(c) ==
    /\ srv[c].phase \in {"load", "path"}
    /\ Change
    /\ EndSilently(c)
    /\ UNCHANGED active /\ ServerOnly

Release(c) == active' = IF srv[c].guard THEN active - 1 ELSE active

(* A cap of zero: the first pause is infinite and the task panics.  What it *)
(* held is dropped, the connection with it, and nothing is drained.         *)
Panic(c) ==
    /\ srv[c].phase = "stream"
    /\ ~Paced(c) /\ wire[c].sent > 0
    /\ Release(c)
    /\ srv' = [srv EXCEPT ![c].phase = "gone", ![c].guard = FALSE]
    /\ wire' = [wire EXCEPT ![c].lost = TRUE]
    /\ UNCHANGED changes /\ ServerOnly

(* the client is gone: the next read or write fails and `?` returns *)
Abandon(c) ==
    /\ srv[c].phase \in {"token", "request", "stream"}
    /\ Gone(c)
    /\ ServerGoto(c, "return")
    /\ UNCHANGED <<active, wire, changes>> /\ ServerOnly

(* handle_xfer_stream returns, which drops _slot_guard *)
Return(c) ==
    /\ srv[c].phase = "return"
    /\ Release(c)
    /\ srv' = [srv EXCEPT ![c].phase = "drain", ![c].guard = FALSE]
    /\ UNCHANGED <<wire, changes>> /\ ServerOnly

\* Mutant: the connection is dropped as soon as the response is written
DrainNothing(c) ==
    /\ srv[c].phase = "drain"
    /\ wire' = [wire EXCEPT ![c].lost = TRUE]
    /\ ServerGoto(c, "gone")
    /\ UNCHANGED <<active, changes>> /\ ServerOnly

(* drain_connection: the connection and the permit are kept until the client *)
(* has closed, or has gone ...                                               *)
Drain(c) ==
    /\ srv[c].phase = "drain" /\ Gone(c)
    /\ wire' = [wire EXCEPT ![c].lost = TRUE]
    /\ ServerGoto(c, "gone")
    /\ UNCHANGED <<active, changes>> /\ ServerOnly


(* ... or for five seconds                                                  *)
TimeOut(c) ==
    /\ srv[c].phase = "drain" /\ ~Gone(c)
    /\ wire' = [wire EXCEPT ![c].lost = TRUE, ![c].by = "timeout"]
    /\ ServerGoto(c, "gone")
    /\ UNCHANGED <<active, changes>> /\ ServerOnly

ServerStep(c) ==
    \/ Accept(c) \/ ReadToken(c) \/ ReadRequest(c) \/ LoadSettings(c) \/ CheckFollower(c)
    \/ AcquireSlot(c) \/ CheckLimit(c) \/ CheckPath(c) \/ SendChunk(c) \/ EndStream(c)
    \/ Panic(c) \/ Abandon(c) \/ Return(c) \/ Drain(c) \/ TimeOut(c)

-----------------------------------------------------------------------------
(* The client. *)

ClientOnly == UNCHANGED <<server, ask, stalled>>

ClientGoto(c, phase) == cli' = [cli EXCEPT ![c].phase = phase]

\* an end that emits its event and removes the download from the registry
Finish(c, phase, event) ==
    /\ cli' = [cli EXCEPT ![c].phase = phase, ![c].event = event,
                          ![c].file = @ /\ phase = "done"]
    /\ cancels' = cancels \ {c}
    /\ UNCHANGED <<srv, wire, signalled>>

RequestDownload(c, a) ==
    /\ cli[c].phase = "idle"
    /\ ask' = [ask EXCEPT ![c] = a]
    /\ ClientGoto(c, "asked")
    /\ UNCHANGED <<server, srv, wire, cancels, signalled, stalled, changes>>

(* the spawned task registers the id its caller already has, and dials *)
Register(c) ==
    /\ cli[c].phase = "asked"
    /\ cancels' = cancels \cup {c}
    /\ cli' = [cli EXCEPT ![c].phase = "connect", ![c].event = "active"]
    /\ ServerGoto(c, "queued")
    /\ UNCHANGED <<wire, signalled, changes>> /\ ClientOnly

Connected(c) ==
    /\ cli[c].phase = "connect"
    /\ srv[c].phase # "queued" /\ ~wire[c].lost
    /\ ClientGoto(c, "token")
    /\ UNCHANGED <<srv, wire, cancels, signalled, changes>> /\ ClientOnly

\* once handle_xfer_stream has returned, its receive stream is dropped
Deaf(c) == srv[c].phase \in {"drain", "gone"}

WriteFrame(c, phase, next) ==
    /\ cli[c].phase = phase
    /\ \/ /\ wire' = [wire EXCEPT ![c].written = phase]
          /\ ClientGoto(c, next)
       \/ Deaf(c) /\ ClientGoto(c, "stopped") /\ UNCHANGED wire
    /\ UNCHANGED <<srv, cancels, signalled, changes>> /\ ClientOnly

WriteToken(c) == WriteFrame(c, "token", "request")
WriteRequest(c) == WriteFrame(c, "request", "status")

ReadStatus(c) ==
    /\ cli[c].phase = "status"
    /\ \/ /\ wire[c].status = "error"
          /\ Finish(c, "refused", "error")
       \/ /\ wire[c].status = "ok"
          /\ cli' = [cli EXCEPT ![c].phase = "body", ![c].file = TRUE]
          /\ UNCHANGED <<srv, wire, cancels, signalled>>
       \/ /\ wire[c].status = "none" /\ wire[c].fin
          /\ ClientGoto(c, "failed")
          /\ UNCHANGED <<srv, wire, cancels, signalled>>
    /\ UNCHANGED changes /\ ClientOnly

\* Mutant: the length is looked at before the cancel
LoopTopLate(c) ==
    /\ cli[c].phase = "body"
    /\ \/ cli[c].got < Size /\ c \in signalled /\ Finish(c, "cancelled", "cancelled")
       \/ /\ cli[c].got = Size \/ c \notin signalled
          /\ ClientGoto(c, IF cli[c].got = Size THEN "check" ELSE "read")
          /\ UNCHANGED <<srv, wire, cancels, signalled>>
    /\ UNCHANGED changes /\ ClientOnly

(* cancel_rx.try_recv, then what is left to read *)
LoopTop(c) ==
    /\ cli[c].phase = "body"
    /\ \/ c \in signalled /\ Finish(c, "cancelled", "cancelled")
       \/ /\ c \notin signalled
          /\ ClientGoto(c, IF cli[c].got = Size THEN "check" ELSE "read")
          /\ UNCHANGED <<srv, wire, cancels, signalled>>
    /\ UNCHANGED changes /\ ClientOnly

ReadChunk(c) ==
    /\ cli[c].phase = "read"
    /\ \/ /\ wire[c].sent > cli[c].got
          /\ cli' = [cli EXCEPT ![c].phase = "body", ![c].got = @ + 1]
       \/ /\ wire[c].sent = cli[c].got /\ wire[c].fin
          /\ ClientGoto(c, "check")
    /\ UNCHANGED <<srv, wire, cancels, signalled, changes>> /\ ClientOnly

\* Mutant: a short stream passes for the file
VerifyNothing(hash, got) == hash # "wrong"

VerifyHash(hash, got) == hash = "none" \/ (hash = "right" /\ got = Size)

CheckFile(c) ==
    /\ cli[c].phase = "check"
    /\ IF VerifyHash(ask[c].hash, cli[c].got)
          THEN Finish(c, "done", "done")
          ELSE Finish(c, "mismatch", "error")
    /\ UNCHANGED changes /\ ClientOnly

(* `?` on the lost connection: no event, and the registry and a file that   *)
(* has been begun are left as they are                                      *)
ClientFails(c) ==
    /\ cli[c].phase \in {"connect", "token", "request", "status", "read"}
    /\ wire[c].lost
    /\ ClientGoto(c, "failed")
    /\ UNCHANGED <<srv, wire, cancels, signalled, changes>> /\ ClientOnly

ClientStep(c) ==
    \/ Register(c) \/ Connected(c) \/ WriteToken(c) \/ WriteRequest(c)
    \/ ReadStatus(c) \/ LoopTop(c) \/ ReadChunk(c) \/ CheckFile(c) \/ ClientFails(c)

(* cancel_download; an id that is not registered is left alone *)
CancelDownload(c) ==
    /\ c \in cancels
    /\ Change
    /\ cancels' = cancels \ {c}
    /\ signalled' = IF cli[c].phase \in Ended THEN signalled ELSE signalled \cup {c}
    /\ UNCHANGED <<srv, wire, cli>> /\ ClientOnly

LoseConnection(c) ==
    /\ Change
    /\ srv[c].phase \notin {"none", "gone"} /\ ~wire[c].lost
    /\ wire' = [wire EXCEPT ![c].lost = TRUE, ![c].by = "cut"]
    /\ UNCHANGED <<server, srv, client, stalled>>

TransferNext ==
    \/ \E slug \in Slug, new \in Saved : SaveShareSettings(slug, new)
    \/ \E new \in SUBSET Npub : SaveContacts(new)
    \/ \E c \in Conn : \E a \in Asked[c] : RequestDownload(c, a)
    \/ \E c \in Conn : ServerStep(c) \/ ClientStep(c)
    \/ \E c \in Conn : Fail(c) \/ CancelDownload(c) \/ LoseConnection(c)

TransferSpec == TransferInit /\ [][TransferNext]_vars

(* The runtime polls every task that can go on, drain_connection's timer    *)
(* included; a client that is not patient may stop anywhere.                *)
FairTransferSpec ==
    /\ TransferSpec
    /\ \A c \in Conn : WF_vars(ServerStep(c))
    /\ \A c \in Patient : WF_vars(ClientStep(c))

-----------------------------------------------------------------------------
(* What must hold. *)

Counted(c) == srv[c].guard \/ srv[c].phase = "count"

(* DownloadRegistry::active_downloads is the number of requests between     *)
(* acquire_slot and the release that belongs to it, whichever way they end: *)
(* refused, served, abandoned by the client, failed or panicked.            *)
SlotsAreHeld == active = Cardinality({c \in Conn : Counted(c)})

Admitted(limit) == {c \in Conn : srv[c].guard /\ srv[c].settings.limit # NoLimit
                                              /\ srv[c].settings.limit <= limit}

(* check_download_limit: however requests overtake each other between       *)
(* acquire_slot and the check, and whatever the owner saves meanwhile, no   *)
(* more than `limit` requests are ever in progress that were admitted under *)
(* that limit or a lower one.                                               *)
LimitHolds ==
    \A c \in Conn : srv[c].settings.limit # NoLimit =>
        Cardinality(Admitted(srv[c].settings.limit)) <= srv[c].settings.limit

(* handle_xfer_stream: bytes of a file go only to the node the token was    *)
(* minted for, for a path the copy of the settings allows, and a collection *)
(* that is not enabled is never served.                                     *)
OnlyAdmittedAreServed ==
    \A c \in Conn : wire[c].status = "ok" =>
        /\ ask[c].token.node = ask[c].node
        /\ VerifyBindingToken(ask[c].token, Now)
        /\ srv[c].settings.enabled
        /\ srv[c].settings.allowed # {} =>
              \E p \in srv[c].settings.allowed : ask[c].path \in Covers[p]

(* drain_connection: a client that waits for a response which the server has *)
(* written to its end gets it, unless the connection was cut or the five      *)
(* seconds ran out.  Not a request the server cannot parse, a file that it    *)
(* cannot read on or a cap of zero: those have no such response; and not a    *)
(* client that was still writing (stopped).                                   *)
Answered(c) ==
    /\ wire[c].fin
    /\ wire[c].status = "error" \/ (wire[c].status = "ok" /\ wire[c].sent = Size)

ResponseIsHeard ==
    \A c \in Conn : Answered(c) /\ cli[c].phase = "failed" => wire[c].by # "none"

(* download_file_inner: a finished download is the whole file, except where *)
(* no hash was expected and the sender's stream ended early.                *)
DoneIsWhole ==
    \A c \in Conn : cli[c].phase = "done" =>
        \/ cli[c].got = Size
        \/ ask[c].hash = "none" /\ wire[c].fin /\ cli[c].got = wire[c].sent

BeforeTheEnd == {"connect", "token", "request", "status", "body"}

(* cancel_download: a cancel that was taken before the last look at it does *)
(* not end in a saved file.                                                 *)
CancelIsHeeded ==
    \A c \in Conn : [](c \in signalled /\ cli[c].phase \in BeforeTheEnd
                        => [](cli[c].phase # "done"))

(* Every permit is held for a client that says no more, in a phase that      *)
(* waits for it without a timeout.                                           *)
Starved ==
    LET waits == {c \in Conn \ Patient : srv[c].phase \in {"token", "request"}}
    IN Cardinality(waits) + stalled = MaxConnections

=============================================================================
