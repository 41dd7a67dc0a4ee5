------------------------------- MODULE Listener -------------------------------
(***************************************************************************)
(* The accept loop of `mascara serve` (listener.rs run and handle_request) *)
(* over the home directory that Registry's processes change meanwhile.     *)
(* Each connection has a task of its own: it is screened once, then its    *)
(* streams are served one after the other, each against a copy of the book *)
(* loaded after the stream was accepted and before its request is read.    *)
(***************************************************************************)
EXTENDS Registry

CONSTANTS Conn,          \* connections a client may have open
          Diligent,      \* those whose client sends what it began to send
          NoNonce,       \* no request is being handled
          MaxAttempts    \* UnknownRemoteLimiter::max_per_window

ASSUME ListenerAssumption ==
    /\ Diligent \subseteq Conn
    /\ NoNonce \notin Nonce
    /\ MaxAttempts \in Nat

VARIABLES conn,       \* the task of each connection
          attempts    \* UnknownRemoteLimiter::seen, within the current window

listening == <<conn, attempts>>

(* accepted: handshake done; unknown: the book, as loaded, does not have the *)
(* endpoint; limited: the limiter refused it; ready: in accept_bi; opened: a *)
(* stream is there, the book not loaded yet; reading: waiting for the        *)
(* request; lookup: it is authorised; source: the offer is known; streaming: *)
(* bytes are going out.                                                      *)
Phase == {"none", "accepted", "unknown", "limited", "ready", "opened", "reading",
          "lookup", "source", "streaming"}

Connection == [phase  : Phase,
               remote : Remote \cup {NoKey},  \* conn.remote_id(), authenticated by QUIC
               book   : Book,          \* fresh_tickets
               time   : Time,          \* the `now` given to handle_request
               nonce  : Nonce \cup {NoNonce},
               told   : SUBSET Nonce,  \* history: reported when the book was loaded
               held   : SUBSET Nonce]  \* history: good for the remote when it connected

Ready(remote) == [phase |-> "ready", remote |-> remote, book |-> EmptyBook,
                  time |-> 0, nonce |-> NoNonce, told |-> {}, held |-> {}]

Closed == [Ready(NoKey) EXCEPT !.phase = "none"]

AllClosed == [c \in Conn |-> Closed]

ListenerInit ==
    /\ conn = AllClosed
    /\ attempts = [r \in Remote |-> 0]

Serving == \E p \in Proc : cmd[p].step = "serving"

(* the nonces that a request of the remote would be granted now *)
Held(remote) == {n \in Nonce : Authorize(issued, n, remote, now) = "ok"}

(* ep.accept, then the QUIC handshake *)
Accept(c, remote) ==
    /\ Serving
    /\ conn[c].phase = "none"
    /\ conn' = [conn EXCEPT ![c] = [Ready(remote) EXCEPT !.phase = "accepted",
                                                        !.held = Held(remote)]]
    /\ UNCHANGED attempts

\* Mutant: every endpoint meets the limiter, recipients included
KnownToNobody(remote) == FALSE

Known(remote) == \E n \in Issued(issued) : issued[n].key = remote

(* UnknownRemoteLimiter::allow; restart: whether the remote's window has    *)
(* run out.  The count saturates one past the cap, where every further      *)
(* attempt in the window is refused alike.                                  *)
Charge(count, restart) ==
    CASE restart                          -> 1
      [] ~restart /\ count > MaxAttempts  -> count
      [] ~restart /\ count <= MaxAttempts -> count + 1

(* The pre-filter's load of the book: `known` holds every recipient in it,  *)
(* those of expired records that no serve has compacted yet included.       *)
Screen(c) ==
    /\ conn[c].phase = "accepted"
    /\ conn' = [conn EXCEPT ![c] = IF Known(@.remote)
                                   THEN Ready(@.remote)
                                   ELSE [@ EXCEPT !.phase = "unknown"]]
    /\ UNCHANGED attempts

(* limiter.allow, of a remote outside the book as it was loaded *)
Limit(c) ==
    /\ conn[c].phase = "unknown"
    /\ LET remote == conn[c].remote IN
       \E restart \in BOOLEAN :
          LET count == Charge(attempts[remote], restart) IN
             /\ attempts' = [attempts EXCEPT ![remote] = count]
             /\ conn' = [conn EXCEPT ![c] = IF count <= MaxAttempts
                                            THEN Ready(remote)
                                            ELSE [@ EXCEPT !.phase = "limited"]]

(* conn.close(1, "rate limited"), and the task returns *)
TurnAway(c) ==
    /\ conn[c].phase = "limited"
    /\ conn' = [conn EXCEPT ![c] = Closed]
    /\ UNCHANGED attempts

(* accept_bi returns: the client has opened a stream *)
OpenStream(c) ==
    /\ conn[c].phase = "ready"
    /\ conn' = [conn EXCEPT ![c].phase = "opened"]
    /\ UNCHANGED attempts

\* Mutant: one stream at a time, whichever connection it is on
LoadSnapshotAlone(c) ==
    /\ conn[c].phase = "opened"
    /\ \A d \in Conn : conn[d].phase # "reading"
    /\ conn' = [conn EXCEPT ![c] = [@ EXCEPT !.phase = "reading", !.book = issued,
                                             !.time = now, !.told = reported]]
    /\ UNCHANGED attempts

(* FileStore::load and Utc::now(), the arguments of handle_request *)
LoadSnapshot(c) ==
    /\ conn[c].phase = "opened"
    /\ conn' = [conn EXCEPT ![c] = [@ EXCEPT !.phase = "reading", !.book = issued,
                                             !.time = now, !.told = reported]]
    /\ UNCHANGED attempts

\* Mutant: the copy loaded for this stream serves the connection's next one
EndStreamKeepsCopy(c) ==
    conn' = [conn EXCEPT ![c] = [@ EXCEPT !.phase = "reading", !.nonce = NoNonce,
                                          !.told = reported]]

(* back to accept_bi; whatever the stream ended with is not looked at *)
EndStream(c) == conn' = [conn EXCEPT ![c] = Ready(@.remote)]

(* The request has been read whole, and is judged on the loaded copy.  The  *)
(* client may name any nonce, its own or one it overheard.                  *)
ReadRequest(c, n) ==
    /\ conn[c].phase = "reading"
    /\ IF Authorize(conn[c].book, n, conn[c].remote, conn[c].time) = "ok"
       THEN conn' = [conn EXCEPT ![c].phase = "lookup", ![c].nonce = n]
       ELSE EndStream(c)
    /\ UNCHANGED attempts

(* oversized or malformed frame, unknown version, or the stream broke *)
RejectFrame(c) ==
    /\ conn[c].phase = "reading"
    /\ EndStream(c)
    /\ UNCHANGED attempts

(* lookup_offer reads offers.json now, not when the book was loaded *)
LookupOffer(c) ==
    /\ conn[c].phase = "lookup"
    /\ IF conn[c].nonce \in offers
       THEN conn' = [conn EXCEPT ![c].phase = "source"]
       ELSE EndStream(c)
    /\ UNCHANGED attempts

(* the path, the kind of ticket, the offset and the source on disk are right *)
StartStreaming(c) ==
    /\ conn[c].phase = "source"
    /\ conn' = [conn EXCEPT ![c].phase = "streaming"]
    /\ UNCHANGED attempts

(* ... or one of them is not, and the answer is a refusal *)
RefuseSource(c) ==
    /\ conn[c].phase = "source"
    /\ EndStream(c)
    /\ UNCHANGED attempts

FinishStreaming(c) ==
    /\ conn[c].phase = "streaming"
    /\ EndStream(c)
    /\ UNCHANGED attempts

PeerCloses(c) ==
    /\ conn[c].phase # "none"
    /\ conn' = [conn EXCEPT ![c] = Closed]
    /\ UNCHANGED attempts

Server(c) ==
    \/ Screen(c) \/ Limit(c) \/ TurnAway(c) \/ LoadSnapshot(c) \/ LookupOffer(c)
    \/ StartStreaming(c) \/ RefuseSource(c) \/ FinishStreaming(c)

Request(c) == RejectFrame(c) \/ \E n \in Nonce : ReadRequest(c, n)

Client(c) ==
    \/ \E r \in Remote : Accept(c, r)
    \/ OpenStream(c) \/ Request(c) \/ PeerCloses(c)

(* a serve that stops takes its connections and its limiter with it *)
HomeStep ==
    /\ Next
    /\ conn' = IF Serving' THEN conn ELSE AllClosed
    /\ attempts' = IF Serving' THEN attempts ELSE [r \in Remote |-> 0]

ListenerNext ==
    \/ HomeStep
    \/ \E c \in Conn : (Server(c) \/ Client(c)) /\ UNCHANGED vars

allVars == <<vars, listening>>

ListenerSpec == Init /\ ListenerInit /\ [][ListenerNext]_allVars

SerialListenerSpec == Init /\ ListenerInit /\ [][ListenerNext /\ Solo']_allVars

(***************************************************************************)
(* Safety                                                                  *)
(***************************************************************************)

Authorised(c) == conn[c].phase \in {"lookup", "source", "streaming"}

(* Whatever the commands on the home directory do to each other, bytes go   *)
(* out only to the endpoint the ticket was sealed to, and only on a request *)
(* judged before the ticket's expiry (listener.rs authorize, run).          *)
BytesOnlyUnderTicket == \A c \in Conn : Authorised(c) =>
    LET terms == sealed[conn[c].nonce] IN
    /\ terms # NotMinted
    /\ conn[c].remote = terms.key
    /\ terms.expires = Never \/ conn[c].time < terms.expires

(* listener.rs:699-700, "a revocation mid-serve still takes effect on the   *)
(* very next op": a stream whose copy of the book was loaded after a        *)
(* revocation was reported is not served under that nonce.                  *)
RevocationBindsNextStream ==
    \A c \in Conn : Authorised(c) => conn[c].nonce \notin conn[c].told

(* The limiter turns no recipient away (listener.rs:683-694): an endpoint   *)
(* that held a live ticket when it connected, and holds it still, is never  *)
(* refused, however often it was counted before the ticket was issued and   *)
(* whatever commands change the book between the load and the limiter.  A   *)
(* ticket issued after the load does not help the connection in progress.   *)
RecipientNotThrottled == \A c \in Conn : conn[c].phase = "limited" =>
    \A n \in conn[c].held : Authorize(issued, n, conn[c].remote, now) # "ok"

(***************************************************************************)
(* Liveness.  A connection is a task of its own under tokio, so its server *)
(* steps are weakly fair; so are the client's where the client is diligent.*)
(* The others may send half a request and nothing more, for ever: there is *)
(* no read timeout.                                                        *)
(***************************************************************************)
FairSerialListenerSpec ==
    /\ SerialListenerSpec
    /\ \A c \in Diligent : WF_allVars(Server(c) /\ UNCHANGED vars)
                         /\ WF_allVars(Request(c) /\ UNCHANGED vars)

(* A stream of a diligent client is answered, or its connection ends, even  *)
(* while every other client stalls.                                         *)
DiligentIsAnswered ==
    \A c \in Diligent : conn[c].phase = "opened" ~> conn[c].phase \in {"ready", "none"}
=============================================================================
