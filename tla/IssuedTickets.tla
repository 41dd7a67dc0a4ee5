---------------------------- MODULE IssuedTickets ----------------------------
(***************************************************************************)
(* The issued-ticket book of mascara-core's registry.rs: the pure state    *)
(* machine over what issued.json holds, and the listener's authorisation   *)
(* predicate over one copy of it.  A book maps every nonce to its record   *)
(* or to NotIssued: the Vec of the code never holds two records of one     *)
(* nonce, because issue() refuses a nonce that is already there.           *)
(* The label (name) and the stamp (issued_at) are display only and left    *)
(* out.                                                                    *)
(***************************************************************************)
EXTENDS Naturals

CONSTANTS Nonce,      \* the 128-bit ticket ids that can be minted
          Remote,     \* transport public keys: who a ticket can be sealed to
          NoKey,      \* recipient_transport_pk = None
          NotIssued,  \* the book has no record of the nonce
          Never       \* expires_at = None

ASSUME BookAssumption ==
    /\ NoKey \notin Remote
    /\ Never \notin Nat

Time == Nat

Record == [revoked : BOOLEAN, expires : Time \cup {Never}, key : Remote \cup {NoKey}]

ASSUME NotIssuedAssumption == NotIssued \notin Record

Book == [Nonce -> Record \cup {NotIssued}]

EmptyBook == [n \in Nonce |-> NotIssued]

NewRecord(key, expires) == [revoked |-> FALSE, expires |-> expires, key |-> key]

Issued(book) == {n \in Nonce : book[n] # NotIssued}

(* IssuedRecord::is_valid *)
RecordValid(record, now) ==
    /\ ~record.revoked
    /\ record.expires = Never \/ now < record.expires

(* IssuedTickets::is_valid: an unknown nonce is not valid *)
IsValid(book, n, now) == n \in Issued(book) /\ RecordValid(book[n], now)

(* IssuedTickets::issue, after its duplicate check *)
Issue(book, n, record) == [book EXCEPT ![n] = record]

(* IssuedTickets::revoke of a known nonce: also drops the recipient (MR-8) *)
RevokeRecord(record) == [record EXCEPT !.revoked = TRUE, !.key = NoKey]

Revoke(book, n) == [book EXCEPT ![n] = RevokeRecord(book[n])]

\* Mutants: whatever carries an expiry is compacted; the record is rebuilt; it is deleted
CompactEarly(book, now) ==
    [n \in Nonce |-> IF n \in Issued(book) /\ (book[n].revoked \/ book[n].expires # Never)
                     THEN [book[n] EXCEPT !.key = NoKey]
                     ELSE book[n]]

CompactRebuilds(book, now) ==
    [n \in Nonce |-> IF n \in Issued(book) /\ ~RecordValid(book[n], now)
                     THEN NewRecord(NoKey, Never)
                     ELSE book[n]]

CompactPurges(book, now) ==
    [n \in Nonce |-> IF n \in Issued(book) /\ ~RecordValid(book[n], now)
                     THEN NotIssued
                     ELSE book[n]]

(* IssuedTickets::compact: drops the recipient of every invalid record *)
Compact(book, now) ==
    [n \in Nonce |-> IF n \in Issued(book) /\ ~RecordValid(book[n], now)
                     THEN [book[n] EXCEPT !.key = NoKey]
                     ELSE book[n]]

(* IssuedTickets::resolve_prefix.  An id is the set of nonces whose hex     *)
(* starts with what was typed; it resolves when it matches one record,      *)
(* live or revoked.  The empty prefix, refused outright, has no id.         *)
Matching(book, id) == id \cap Issued(book)

Resolves(book, id, n) == Matching(book, id) = {n}

Verdict == {"ok", "invalid ticket", "wrong remote"}

\* Mutant: any authenticated endpoint may use a live nonce
AuthorizeAnyRemote(book, n, remote, now) ==
    IF IsValid(book, n, now) THEN "ok" ELSE "invalid ticket"

(* listener.rs authorize: validity is judged before identity *)
Authorize(book, n, remote, now) ==
    CASE ~IsValid(book, n, now)                        -> "invalid ticket"
      [] IsValid(book, n, now) /\ book[n].key # remote -> "wrong remote"
      [] OTHER                                         -> "ok"
=============================================================================
