------------------------------- MODULE Registry -------------------------------
(***************************************************************************)
(* The Mascara home directory as the processes of one device share it:     *)
(* `mascara send` issues a ticket, `mascara tickets --revoke` revokes one, *)
(* `mascara serve` compacts the book when it starts and then listens.      *)
(* issued.json and offers.json are each replaced whole (temp file, rename) *)
(* but nothing locks them: a command reads the file, changes its own copy, *)
(* and writes the copy back, and two commands may overlap.                 *)
(***************************************************************************)
EXTENDS IssuedTickets, FiniteSets

CONSTANTS Proc,       \* concurrent `mascara` invocations
          Id,         \* what a user may type after --revoke (sets of nonces)
          Expiry,     \* expiry instants a ticket may carry
          NotMinted,  \* no ticket has been sealed for the nonce
          Free,       \* no process holds the transfer port
          MaxTime     \* bound: the clock stops here

ASSUME RegistryAssumption ==
    /\ Id \subseteq SUBSET Nonce
    /\ Expiry \subseteq Time \cup {Never}
    /\ MaxTime \in Nat
    /\ NotMinted \notin [key : Remote, expires : Time \cup {Never}]
    /\ Free \notin Proc
    /\ {"fresh", "dead"} \cap Remote = {}

VARIABLES issued,     \* <home>/tickets/issued.json
          offers,     \* <home>/tickets/offers.json: nonces with a local source
          now,        \* the wall clock, never set back
          port,       \* who holds UDP port 41000
          cmd,        \* what each process is doing
          sealed,     \* what the sealed ticket of a nonce says
          printed,    \* nonces whose ticket string reached stdout
          reported    \* nonces whose revocation was reported to the user

vars == <<issued, offers, now, port, cmd, sealed, printed, reported>>

Terms == [key : Remote, expires : Time \cup {Never}]

(* load: about to read issued.json; store: about to write the changed copy; *)
(* offer load, offer store: the same for offers.json; say: about to print.  *)
Step == {"idle", "load", "store", "offer load", "offer store", "say", "serving"}

Command == [op     : {"none", "send", "revoke", "serve"},
            step   : Step,
            about  : SUBSET Nonce,  \* the nonce sent, or those the id matches
            time   : Time,          \* Utc::now() as an argument
            book   : Book,          \* this process's copy of issued.json
            offers : SUBSET Nonce]  \* this process's copy of offers.json

Idle == [op |-> "none", step |-> "idle", about |-> {}, time |-> 0,
         book |-> EmptyBook, offers |-> {}]

TypeOK ==
    /\ issued \in Book
    /\ offers \in SUBSET Nonce
    /\ now \in Time
    /\ port \in Proc \cup {Free}
    /\ cmd \in [Proc -> Command]
    /\ sealed \in [Nonce -> Terms \cup {NotMinted}]
    /\ printed \in SUBSET Nonce
    /\ reported \in SUBSET Nonce

Init ==
    /\ issued = EmptyBook
    /\ offers = {}
    /\ now = 0
    /\ port = Free
    /\ cmd = [p \in Proc |-> Idle]
    /\ sealed = [n \in Nonce |-> NotMinted]
    /\ printed = {}
    /\ reported = {}

At(p, op, step) == cmd[p].op = op /\ cmd[p].step = step

Become(p, command) == cmd' = [cmd EXCEPT ![p] = command]

Begin(op, about, time) == [op |-> op, step |-> "load", about |-> about, time |-> time,
                           book |-> EmptyBook, offers |-> {}]

(* the copies are locals of the round trip and go when it returns *)
Goto(p, step) ==
    Become(p, [cmd[p] EXCEPT !.step = step, !.book = EmptyBook, !.offers = {}])

Finish(p) == Become(p, Idle)

(***************************************************************************)
(* Starting a command.  A send needs the port only to gather addresses and *)
(* gives it back before it mints; a serve keeps it for its whole life.     *)
(***************************************************************************)
StartSend(p, n, key, expires) ==
    /\ At(p, "none", "idle")
    /\ port = Free
    /\ sealed[n] = NotMinted    \* Nonce::mint: 128 random bits, never repeated
    /\ sealed' = [sealed EXCEPT ![n] = [key |-> key, expires |-> expires]]
    /\ Become(p, Begin("send", {n}, 0))
    /\ UNCHANGED <<issued, offers, now, port, printed, reported>>

StartRevoke(p, id) ==
    /\ At(p, "none", "idle")
    /\ Become(p, Begin("revoke", id, 0))
    /\ UNCHANGED <<issued, offers, now, port, sealed, printed, reported>>

StartServe(p) ==
    /\ At(p, "none", "idle")
    /\ port = Free
    /\ port' = p
    /\ Become(p, Begin("serve", {}, now))
    /\ UNCHANGED <<issued, offers, now, sealed, printed, reported>>

(* Registry::{issue, revoke_by_prefix, compact}: the load *)
Load(p) ==
    /\ cmd[p].step = "load"
    /\ Become(p, [cmd[p] EXCEPT !.step = "store", !.book = issued])
    /\ UNCHANGED <<issued, offers, now, port, sealed, printed, reported>>

(***************************************************************************)
(* The mutation of the copy and the store of it.                           *)
(***************************************************************************)
\* Mutant: the record is written without the ticket's expiry
StoreIssueNoExpiry(p, n) ==
    /\ At(p, "send", "store")
    /\ n \in cmd[p].about
    /\ n \notin Issued(cmd[p].book)
    /\ issued' = Issue(cmd[p].book, n, NewRecord(sealed[n].key, Never))
    /\ Goto(p, "offer load")
    /\ UNCHANGED <<offers, now, port, sealed, printed, reported>>

\* Mutant: the ticket is printed before its local source is recorded
StoreIssueThenSay(p, n) ==
    /\ At(p, "send", "store")
    /\ n \in cmd[p].about
    /\ n \notin Issued(cmd[p].book)
    /\ issued' = Issue(cmd[p].book, n, NewRecord(sealed[n].key, sealed[n].expires))
    /\ Goto(p, "say")
    /\ UNCHANGED <<offers, now, port, sealed, printed, reported>>

StoreIssue(p, n) ==
    /\ At(p, "send", "store")
    /\ n \in cmd[p].about
    /\ n \notin Issued(cmd[p].book)
    /\ issued' = Issue(cmd[p].book, n, NewRecord(sealed[n].key, sealed[n].expires))
    /\ Goto(p, "offer load")
    /\ UNCHANGED <<offers, now, port, sealed, printed, reported>>

\* Mutant: the changed copy is never written back
StoreRevokeUnsaved(p, n) ==
    /\ At(p, "revoke", "store")
    /\ Resolves(cmd[p].book, cmd[p].about, n)
    /\ Become(p, [cmd[p] EXCEPT !.step = "say", !.about = {n}, !.book = EmptyBook])
    /\ UNCHANGED <<issued, offers, now, port, sealed, printed, reported>>

StoreRevoke(p, n) ==
    /\ At(p, "revoke", "store")
    /\ Resolves(cmd[p].book, cmd[p].about, n)
    /\ issued' = Revoke(cmd[p].book, n)
    /\ Become(p, [cmd[p] EXCEPT !.step = "say", !.about = {n}, !.book = EmptyBook])
    /\ UNCHANGED <<offers, now, port, sealed, printed, reported>>

(* no record, or several, match the id: an error, and nothing is written *)
RefuseRevoke(p) ==
    /\ At(p, "revoke", "store")
    /\ \A n \in Nonce : ~Resolves(cmd[p].book, cmd[p].about, n)
    /\ Finish(p)
    /\ UNCHANGED <<issued, offers, now, port, sealed, printed, reported>>

StoreCompact(p) ==
    /\ At(p, "serve", "store")
    /\ issued' = Compact(cmd[p].book, cmd[p].time)
    /\ Goto(p, "serving")
    /\ UNCHANGED <<offers, now, port, sealed, printed, reported>>

(* OfferStore::record: the same unlocked round trip on offers.json *)
LoadOffers(p) ==
    /\ cmd[p].step = "offer load"
    /\ Become(p, [cmd[p] EXCEPT !.step = "offer store", !.offers = offers])
    /\ UNCHANGED <<issued, offers, now, port, sealed, printed, reported>>

StoreOffer(p) ==
    /\ cmd[p].step = "offer store"
    /\ offers' = cmd[p].offers \cup cmd[p].about
    /\ Goto(p, "say")
    /\ UNCHANGED <<issued, now, port, sealed, printed, reported>>

(* the last line of cmd_send, and of cmd_tickets --revoke *)
PrintTicket(p) ==
    /\ At(p, "send", "say")
    /\ printed' = printed \cup cmd[p].about
    /\ Finish(p)
    /\ UNCHANGED <<issued, offers, now, port, sealed, reported>>

ReportRevoked(p) ==
    /\ At(p, "revoke", "say")
    /\ reported' = reported \cup cmd[p].about
    /\ Finish(p)
    /\ UNCHANGED <<issued, offers, now, port, sealed, printed>>

(* Ctrl-C, a kill, or an I/O error propagated with `?`, at any point *)
Stop(p) ==
    /\ cmd[p].step # "idle"
    /\ port' = IF port = p THEN Free ELSE port
    /\ Finish(p)
    /\ UNCHANGED <<issued, offers, now, sealed, printed, reported>>

Tick ==
    /\ now < MaxTime
    /\ now' = now + 1
    /\ UNCHANGED <<issued, offers, port, cmd, sealed, printed, reported>>

Store(p) ==
    \/ \E n \in Nonce : StoreIssue(p, n) \/ StoreRevoke(p, n)
    \/ StoreCompact(p)

Process(p) ==
    \/ \E n \in Nonce, key \in Remote, expires \in Expiry : StartSend(p, n, key, expires)
    \/ \E id \in Id : StartRevoke(p, id)
    \/ StartServe(p)
    \/ Load(p)
    \/ Store(p)
    \/ RefuseRevoke(p)
    \/ LoadOffers(p)
    \/ StoreOffer(p)
    \/ PrintTicket(p)
    \/ ReportRevoked(p)
    \/ Stop(p)

Next == Tick \/ \E p \in Proc : Process(p)

Spec == Init /\ [][Next]_vars

(***************************************************************************)
(* What no overlap of commands can break.                                  *)
(***************************************************************************)

(* The record of a nonce, in the file and in every process's copy, says     *)
(* what its sealed ticket says: the same expiry, and either the recipient   *)
(* it was sealed to or none.  A lost update may lose a record; it never     *)
(* re-keys one or lengthens its life (registry.rs issue, revoke, compact).  *)
KeepsTerms(record, terms) ==
    /\ terms # NotMinted
    /\ record.expires = terms.expires
    /\ record.key \in {terms.key, NoKey}

BookKeepsTerms(book, seals) == \A n \in Issued(book) : KeepsTerms(book[n], seals[n])

TermsKept ==
    /\ BookKeepsTerms(issued, sealed)
    /\ \A p \in Proc : BookKeepsTerms(cmd[p].book, sealed)

(* What listener.rs:90-92 relies on: a live record has its recipient, which *)
(* no process drops however old its copy of the book is; and what MR-8,     *)
(* registry.rs:38-42, says of revocation: a revoked one has none.  An       *)
(* expired record has one still until a serve starts and compacts.          *)
RecipientKept(record, t) ==
    /\ record.revoked => record.key = NoKey
    /\ record.key = NoKey => ~RecordValid(record, t)

BookRecipients(book, t) == \A n \in Issued(book) : RecipientKept(book[n], t)

RecipientWhileLive ==
    /\ BookRecipients(issued, now)
    /\ \A p \in Proc : BookRecipients(cmd[p].book, now)

(* What makes them inductive: a send is about nonces already sealed, and    *)
(* the instant a compaction was given is past.                              *)
SendsMinted == \A p \in Proc :
    cmd[p].op = "send" => \A n \in cmd[p].about : sealed[n] # NotMinted

StampsPast == \A p \in Proc : cmd[p].time <= now

RegistryInv == TypeOK /\ SendsMinted /\ StampsPast /\ TermsKept /\ RecipientWhileLive

(***************************************************************************)
(* What holds while commands that write the same file do not overlap.      *)
(* Nothing in the code enforces that discipline: it is the user who runs   *)
(* one command at a time.                                                  *)
(***************************************************************************)
Solo == \A p, q \in Proc :
    (cmd[p].step = cmd[q].step /\ cmd[p].step \in {"store", "offer store"}) => p = q

SerialSpec == Init /\ [][Next /\ Solo']_vars

(* main.rs:138, "Record the nonce BEFORE emitting the ticket, so nothing we *)
(* hand out is unrecorded/unrevokable": a ticket on stdout has its record   *)
(* and its local source on disk, wherever a command was killed.             *)
PrintedIsRecorded == printed \subseteq Issued(issued) \cap offers

(* main.rs:213, "Revoked ticket ... the listener will refuse its nonce":    *)
(* once a revocation is reported the book authorises nobody for the nonce.  *)
ReportedIsRefused ==
    \A n \in reported, r \in Remote : Authorize(issued, n, r, now) # "ok"

(* No step of any command, crash included, turns a nonce that authorised    *)
(* nobody after being issued back into a live one.                          *)
DeadStaysDead ==
    [][\A n \in Issued(issued) : ~IsValid(issued, n, now) => ~IsValid(issued', n, now')]_vars

(* The book, read through its clock, is the life of a ticket: see TicketLife *)
Status(book, n, t) ==
    IF n \notin Issued(book) THEN "fresh"
    ELSE IF IsValid(book, n, t) THEN book[n].key ELSE "dead"

Grantee == [n \in Nonce |-> Status(issued, n, now)]

Life == INSTANCE TicketLife WITH grantee <- Grantee

LifeSpec == Life!Spec
=============================================================================
