---------------------------- MODULE ListenerProofs ----------------------------
(* Theorems about Registry, for every set of nonces, endpoints and processes: *)
(* first whatever overlaps, then while commands that write one file do not.   *)
(* After them those about Listener, which extends it, for every number of     *)
(* connections as well.                                                       *)
EXTENDS Listener, TLAPS

(***************************************************************************)
(* The operators of IssuedTickets.                                         *)
(***************************************************************************)

LEMMA NewRecordType ==
    ASSUME NEW terms \in Terms
    PROVE  NewRecord(terms.key, terms.expires) \in Record
BY DEF NewRecord, Record, Terms

LEMMA EmptyBookType == EmptyBook \in Book
BY DEF EmptyBook, Book

LEMMA IssuedRecordType ==
    ASSUME NEW book \in Book, NEW n \in Issued(book)
    PROVE  book[n] \in Record
BY DEF Book, Issued

LEMMA IssueType ==
    ASSUME NEW book \in Book, NEW n \in Nonce, NEW record \in Record
    PROVE  /\ Issue(book, n, record) \in Book
           /\ Issued(Issue(book, n, record)) = Issued(book) \cup {n}
BY NotIssuedAssumption DEF Issue, Book, Issued

LEMMA RevokeRecordType ==
    ASSUME NEW record \in Record
    PROVE  /\ RevokeRecord(record) \in Record
           /\ RevokeRecord(record).revoked
           /\ RevokeRecord(record).key = NoKey
           /\ RevokeRecord(record).expires = record.expires
BY DEF RevokeRecord, Record

LEMMA RevokeType ==
    ASSUME NEW book \in Book, NEW n \in Issued(book)
    PROVE  /\ Revoke(book, n) \in Book
           /\ Issued(Revoke(book, n)) = Issued(book)
<1>1. RevokeRecord(book[n]) \in Record
    BY IssuedRecordType, RevokeRecordType
<1>2. QED
    BY <1>1, NotIssuedAssumption DEF Revoke, Book, Issued

LEMMA CompactRecordType ==
    ASSUME NEW record \in Record
    PROVE  /\ [record EXCEPT !.key = NoKey] \in Record
           /\ [record EXCEPT !.key = NoKey].key = NoKey
           /\ [record EXCEPT !.key = NoKey].revoked = record.revoked
           /\ [record EXCEPT !.key = NoKey].expires = record.expires
BY DEF Record

LEMMA CompactType ==
    ASSUME NEW book \in Book, NEW t \in Time
    PROVE  /\ Compact(book, t) \in Book
           /\ Issued(Compact(book, t)) = Issued(book)
<1>1. ASSUME NEW n \in Issued(book)
      PROVE  [book[n] EXCEPT !.key = NoKey] \in Record
    BY <1>1, IssuedRecordType, CompactRecordType
<1>2. QED
    BY <1>1, NotIssuedAssumption DEF Compact, Book, Issued

(* listener.rs: a compaction at time t changes no authorisation from t on,  *)
(* so a listener may use the book of before or after.                       *)
THEOREM CompactionIsInvisible ==
    ASSUME NEW book \in Book, NEW t \in Time, NEW later \in Time, t <= later,
           NEW n \in Nonce, NEW r \in Remote
    PROVE  Authorize(Compact(book, t), n, r, later) = Authorize(book, n, r, later)
<1>1. CASE n \in Issued(book) /\ ~RecordValid(book[n], t)
    <2>1. book[n] \in Record
        BY <1>1, IssuedRecordType
    <2>2. Compact(book, t)[n] = [book[n] EXCEPT !.key = NoKey]
        BY <1>1 DEF Compact
    <2>3. ~RecordValid(book[n], later)
        BY <1>1, <2>1, BookAssumption DEF RecordValid, Record, Time
    <2>4. ~RecordValid(Compact(book, t)[n], later)
        BY <2>1, <2>2, <2>3, CompactRecordType DEF RecordValid
    <2>5. QED
        BY <2>3, <2>4 DEF Authorize, IsValid
<1>2. CASE ~(n \in Issued(book) /\ ~RecordValid(book[n], t))
    <2>1. Compact(book, t)[n] = book[n]
        BY <1>2 DEF Compact
    <2>2. n \in Issued(Compact(book, t)) <=> n \in Issued(book)
        BY <2>1 DEF Issued
    <2>3. QED
        BY <2>1, <2>2 DEF Authorize, IsValid
<1>3. QED
    BY <1>1, <1>2

(***************************************************************************)
(* Types.                                                                  *)
(***************************************************************************)

LEMMA IdleType == Idle \in Command
BY EmptyBookType DEF Idle, Command, Step, Time

LEMMA BeginType ==
    ASSUME NEW op \in {"send", "revoke", "serve"}, NEW about \in SUBSET Nonce, NEW t \in Time
    PROVE  Begin(op, about, t) \in Command
BY EmptyBookType DEF Begin, Command, Step

LEMMA GotoType ==
    ASSUME NEW c \in Command, NEW step \in Step
    PROVE  [c EXCEPT !.step = step, !.book = EmptyBook, !.offers = {}] \in Command
BY EmptyBookType DEF Command

LEMMA TypeInit == Init => TypeOK
BY IdleType, EmptyBookType DEF Init, TypeOK, Time

LEMMA TypeStep == TypeOK /\ SendsMinted /\ [Next]_vars => TypeOK'
<1> SUFFICES ASSUME TypeOK, SendsMinted, [Next]_vars PROVE TypeOK'
    OBVIOUS
<1>0. ASSUME NEW p \in Proc, NEW c \in Command, Become(p, c)
      PROVE  cmd' \in [Proc -> Command]
    BY <1>0 DEF Become, TypeOK
<1> USE DEF TypeOK
<1>1. ASSUME NEW p \in Proc, NEW n \in Nonce, NEW key \in Remote, NEW expires \in Expiry,
             StartSend(p, n, key, expires)
      PROVE  TypeOK'
    <2>1. [key |-> key, expires |-> expires] \in Terms
        BY RegistryAssumption DEF Terms
    <2>2. Begin("send", {n}, 0) \in Command
        BY BeginType DEF Time
    <2>3. cmd' \in [Proc -> Command]
        BY <1>0, <1>1, <2>2 DEF StartSend
    <2>4. QED
        BY <1>1, <2>1, <2>3 DEF StartSend
<1>2. ASSUME NEW p \in Proc, NEW id \in Id, StartRevoke(p, id)
      PROVE  TypeOK'
    <2>1. Begin("revoke", id, 0) \in Command
        BY BeginType, RegistryAssumption DEF Time
    <2>2. cmd' \in [Proc -> Command]
        BY <1>0, <1>2, <2>1 DEF StartRevoke
    <2>3. QED
        BY <1>2, <2>2 DEF StartRevoke
<1>3. ASSUME NEW p \in Proc, StartServe(p)
      PROVE  TypeOK'
    <2>1. Begin("serve", {}, now) \in Command
        BY BeginType
    <2>2. cmd' \in [Proc -> Command]
        BY <1>0, <1>3, <2>1 DEF StartServe
    <2>3. QED
        BY <1>3, <2>2 DEF StartServe
<1>4. ASSUME NEW p \in Proc, Load(p)
      PROVE  TypeOK'
    <2>1. [cmd[p] EXCEPT !.step = "store", !.book = issued] \in Command
        BY DEF Command, Step
    <2>2. cmd' \in [Proc -> Command]
        BY <1>0, <1>4, <2>1 DEF Load
    <2>3. QED
        BY <1>4, <2>2 DEF Load
<1>5. ASSUME NEW p \in Proc, NEW n \in Nonce, StoreIssue(p, n)
      PROVE  TypeOK'
    <2>1. cmd[p] \in Command /\ cmd[p].book \in Book
        BY DEF Command
    <2>2. sealed[n] \in Terms
        BY <1>5 DEF StoreIssue, SendsMinted, At
    <2>3. issued' \in Book
        BY <1>5, <2>1, <2>2, NewRecordType, IssueType DEF StoreIssue
    <2>4. [cmd[p] EXCEPT !.step = "offer load", !.book = EmptyBook, !.offers = {}] \in Command
        BY <2>1, GotoType DEF Step
    <2>5. cmd' \in [Proc -> Command]
        BY <1>0, <1>5, <2>4 DEF StoreIssue, Goto
    <2>6. QED
        BY <1>5, <2>3, <2>5 DEF StoreIssue
<1>6. ASSUME NEW p \in Proc, NEW n \in Nonce, StoreRevoke(p, n)
      PROVE  TypeOK'
    <2>1. cmd[p] \in Command /\ cmd[p].book \in Book
        BY DEF Command
    <2>2. n \in Issued(cmd[p].book)
        BY <1>6 DEF StoreRevoke, Resolves, Matching
    <2>3. issued' \in Book
        BY <1>6, <2>1, <2>2, RevokeType DEF StoreRevoke
    <2>4. [cmd[p] EXCEPT !.step = "say", !.about = {n}, !.book = EmptyBook] \in Command
        BY <2>1, EmptyBookType DEF Command, Step
    <2>5. cmd' \in [Proc -> Command]
        BY <1>0, <1>6, <2>4 DEF StoreRevoke
    <2>6. QED
        BY <1>6, <2>3, <2>5 DEF StoreRevoke
<1>7. ASSUME NEW p \in Proc, StoreCompact(p)
      PROVE  TypeOK'
    <2>1. cmd[p] \in Command /\ cmd[p].book \in Book /\ cmd[p].time \in Time
        BY DEF Command
    <2>2. issued' \in Book
        BY <1>7, <2>1, CompactType DEF StoreCompact
    <2>3. [cmd[p] EXCEPT !.step = "serving", !.book = EmptyBook, !.offers = {}] \in Command
        BY <2>1, GotoType DEF Step
    <2>4. cmd' \in [Proc -> Command]
        BY <1>0, <1>7, <2>3 DEF StoreCompact, Goto
    <2>5. QED
        BY <1>7, <2>2, <2>4 DEF StoreCompact
<1>8. ASSUME NEW p \in Proc, LoadOffers(p)
      PROVE  TypeOK'
    <2>1. [cmd[p] EXCEPT !.step = "offer store", !.offers = offers] \in Command
        BY DEF Command, Step
    <2>2. cmd' \in [Proc -> Command]
        BY <1>0, <1>8, <2>1 DEF LoadOffers
    <2>3. QED
        BY <1>8, <2>2 DEF LoadOffers
<1>9. ASSUME NEW p \in Proc, StoreOffer(p)
      PROVE  TypeOK'
    <2>1. cmd[p] \in Command /\ cmd[p].offers \in SUBSET Nonce /\ cmd[p].about \in SUBSET Nonce
        BY DEF Command
    <2>2. [cmd[p] EXCEPT !.step = "say", !.book = EmptyBook, !.offers = {}] \in Command
        BY <2>1, GotoType DEF Step
    <2>3. cmd' \in [Proc -> Command]
        BY <1>0, <1>9, <2>2 DEF StoreOffer, Goto
    <2>4. QED
        BY <1>9, <2>1, <2>3 DEF StoreOffer
<1>10. ASSUME NEW p \in Proc, RefuseRevoke(p) \/ PrintTicket(p) \/ ReportRevoked(p) \/ Stop(p)
      PROVE  TypeOK'
    <2>1. cmd' \in [Proc -> Command]
        BY <1>0, <1>10, IdleType DEF RefuseRevoke, PrintTicket, ReportRevoked, Stop, Finish
    <2>2. cmd[p].about \in SUBSET Nonce
        BY DEF Command
    <2>3. QED
        BY <1>10, <2>1, <2>2 DEF RefuseRevoke, PrintTicket, ReportRevoked, Stop
<1>11. CASE Tick
    BY <1>11 DEF Tick, Time
<1>12. CASE UNCHANGED vars
    BY <1>12 DEF vars
<1>13. QED
    BY <1>1, <1>2, <1>3, <1>4, <1>5, <1>6, <1>7, <1>8, <1>9, <1>10, <1>11, <1>12
    DEF Next, Process, Store
(***************************************************************************)
(* What each operation on a book does to its terms and endpoints.          *)
(***************************************************************************)

Sound(book, seals, t) == BookKeepsTerms(book, seals) /\ BookRecipients(book, t)

LEMMA EmptyBookSound ==
    ASSUME NEW seals, NEW t PROVE Sound(EmptyBook, seals, t)
BY DEF Sound, BookKeepsTerms, BookRecipients, Issued, EmptyBook

(* sealing a ticket under a fresh nonce disturbs no record *)
LEMMA SealSound ==
    ASSUME NEW book \in Book, NEW seals \in [Nonce -> Terms \cup {NotMinted}], NEW t,
           NEW n \in Nonce, NEW terms, seals[n] = NotMinted, Sound(book, seals, t)
    PROVE  Sound(book, [seals EXCEPT ![n] = terms], t)
BY DEF Sound, BookKeepsTerms, KeepsTerms, Issued

LEMMA ClockSound ==
    ASSUME NEW book \in Book, NEW seals, NEW t \in Time, NEW later \in Time, t <= later,
           Sound(book, seals, t)
    PROVE  Sound(book, seals, later)
<1> SUFFICES ASSUME NEW n \in Issued(book), book[n].key = NoKey
             PROVE  ~RecordValid(book[n], later)
    BY DEF Sound, BookRecipients, RecipientKept
<1>1. book[n] \in Record
    BY IssuedRecordType
<1>2. ~RecordValid(book[n], t)
    BY DEF Sound, BookRecipients, RecipientKept
<1>3. QED
    BY <1>1, <1>2, BookAssumption DEF RecordValid, Record, Time

LEMMA IssueSound ==
    ASSUME NEW book \in Book, NEW seals \in [Nonce -> Terms \cup {NotMinted}], NEW t \in Time,
           NEW n \in Nonce, seals[n] # NotMinted, Sound(book, seals, t)
    PROVE  Sound(Issue(book, n, NewRecord(seals[n].key, seals[n].expires)), seals, t)
<1> DEFINE record == NewRecord(seals[n].key, seals[n].expires)
           after  == Issue(book, n, record)
<1>1. seals[n] \in Terms
    OBVIOUS
<1>2. record \in Record /\ record.key = seals[n].key /\ record.key \in Remote
      /\ record.expires = seals[n].expires /\ ~record.revoked
    BY <1>1, NewRecordType DEF NewRecord, Terms
<1>3. Issued(after) = Issued(book) \cup {n}
    BY <1>2, IssueType
<1>4. after[n] = record /\ \A m \in Nonce \ {n} : after[m] = book[m]
    BY DEF Issue, Book
<1>5. KeepsTerms(record, seals[n]) /\ RecipientKept(record, t)
    BY <1>2, BookAssumption DEF KeepsTerms, RecipientKept
<1>6. QED
    BY <1>3, <1>4, <1>5 DEF Sound, BookKeepsTerms, BookRecipients, Issued

LEMMA RevokeSound ==
    ASSUME NEW book \in Book, NEW seals, NEW t \in Time, NEW n \in Issued(book),
           Sound(book, seals, t)
    PROVE  Sound(Revoke(book, n), seals, t)
<1> DEFINE record == RevokeRecord(book[n])
<1>1. record.revoked /\ record.key = NoKey /\ record.expires = book[n].expires
    BY IssuedRecordType, RevokeRecordType
<1>2. /\ Revoke(book, n)[n] = record
      /\ \A m \in Nonce \ {n} : Revoke(book, n)[m] = book[m]
    BY DEF Revoke, Book, Issued
<1>3. KeepsTerms(record, seals[n]) /\ RecipientKept(record, t)
    BY <1>1 DEF Sound, BookKeepsTerms, KeepsTerms, RecipientKept, RecordValid
<1>4. QED
    BY <1>2, <1>3, RevokeType DEF Sound, BookKeepsTerms, BookRecipients, Issued

LEMMA CompactSound ==
    ASSUME NEW book \in Book, NEW seals, NEW s \in Time, NEW t \in Time, s <= t,
           Sound(book, seals, t)
    PROVE  Sound(Compact(book, s), seals, t)
<1> SUFFICES ASSUME NEW n \in Issued(book)
             PROVE  /\ KeepsTerms(Compact(book, s)[n], seals[n])
                    /\ RecipientKept(Compact(book, s)[n], t)
    BY CompactType DEF Sound, BookKeepsTerms, BookRecipients
<1>0. book[n] \in Record /\ KeepsTerms(book[n], seals[n]) /\ RecipientKept(book[n], t)
    BY IssuedRecordType DEF Sound, BookKeepsTerms, BookRecipients
<1>1. CASE RecordValid(book[n], s)
    <2>1. Compact(book, s)[n] = book[n]
        BY <1>1 DEF Compact, Issued
    <2>2. QED
        BY <1>0, <2>1
<1>2. CASE ~RecordValid(book[n], s)
    <2>1. Compact(book, s)[n] = [book[n] EXCEPT !.key = NoKey]
        BY <1>2 DEF Compact, Issued
    <2>2. ~RecordValid(book[n], t)
        BY <1>0, <1>2, BookAssumption DEF RecordValid, Record, Time
    <2>3. QED
        BY <1>0, <2>1, <2>2, CompactRecordType
        DEF KeepsTerms, RecipientKept, RecordValid
<1>3. QED
    BY <1>1, <1>2
(***************************************************************************)
(* The inductive invariant.                                                *)
(***************************************************************************)

HomeSound ==
    /\ Sound(issued, sealed, now)
    /\ \A p \in Proc : Sound(cmd[p].book, sealed, now)

LEMMA InvIsSound == RegistryInv <=> TypeOK /\ SendsMinted /\ StampsPast /\ HomeSound
BY DEF RegistryInv, TermsKept, RecipientWhileLive, HomeSound, Sound

LEMMA InvInit == Init => RegistryInv
<1> SUFFICES ASSUME Init PROVE TypeOK /\ SendsMinted /\ StampsPast /\ HomeSound
    BY InvIsSound
<1>1. \A p \in Proc : cmd[p] = Idle
    BY DEF Init
<1>2. SendsMinted /\ StampsPast
    BY <1>1 DEF Init, SendsMinted, StampsPast, Idle
<1>3. HomeSound
    BY <1>1, EmptyBookSound DEF Init, HomeSound, Idle
<1>4. QED
    BY <1>2, <1>3, TypeInit

(* A step of p that leaves sealed and now alone: what is left to show is    *)
(* about issued and about p.                                                *)
LEMMA ProcessFrame ==
    ASSUME RegistryInv, NEW p \in Proc, NEW c \in Command, Become(p, c),
           sealed' = sealed, now' = now,
           Sound(issued', sealed, now), Sound(c.book, sealed, now), c.time <= now,
           c.op = "send" => \A n \in c.about : sealed[n] # NotMinted
    PROVE  SendsMinted' /\ StampsPast' /\ HomeSound'
<1>1. \A q \in Proc : cmd'[q] = IF q = p THEN c ELSE cmd[q]
    BY DEF Become, RegistryInv, TypeOK
<1>2. SendsMinted /\ StampsPast /\ HomeSound
    BY InvIsSound
<1>3. SendsMinted'
    BY <1>1, <1>2 DEF SendsMinted
<1>4. StampsPast'
    BY <1>1, <1>2 DEF StampsPast
<1>5. HomeSound'
    BY <1>1, <1>2 DEF HomeSound
<1>6. QED
    BY <1>3, <1>4, <1>5

LEMMA InvStep == RegistryInv /\ [Next]_vars => RegistryInv'
<1> SUFFICES ASSUME RegistryInv, [Next]_vars
             PROVE  RegistryInv'
    OBVIOUS
<1>t. TypeOK'
    BY InvIsSound, TypeStep
<1> SUFFICES SendsMinted' /\ StampsPast' /\ HomeSound'
    BY <1>t DEF RegistryInv, TermsKept, RecipientWhileLive, HomeSound, Sound
<1>0. TypeOK /\ SendsMinted /\ StampsPast /\ HomeSound
    BY InvIsSound
<1>1. /\ issued \in Book /\ now \in Time /\ sealed \in [Nonce -> Terms \cup {NotMinted}]
      /\ Sound(issued, sealed, now)
    BY <1>0 DEF TypeOK, HomeSound
<1>2. ASSUME NEW p \in Proc
      PROVE  /\ cmd[p] \in Command /\ cmd[p].book \in Book /\ cmd[p].time \in Time
             /\ cmd[p].time <= now /\ Sound(cmd[p].book, sealed, now)
             /\ cmd[p].op = "send" => \A n \in cmd[p].about : sealed[n] # NotMinted
    BY <1>0 DEF TypeOK, HomeSound, StampsPast, SendsMinted, Command
<1>3. Idle \in Command /\ Idle.op = "none" /\ Idle.time <= now /\ Idle.book = EmptyBook
    BY <1>1, IdleType DEF Idle, Time
<1>4. ASSUME NEW p \in Proc, NEW n \in Nonce, NEW key \in Remote, NEW expires \in Expiry,
             StartSend(p, n, key, expires)
      PROVE  SendsMinted' /\ StampsPast' /\ HomeSound'
    <2> DEFINE terms == [key |-> key, expires |-> expires]
    <2>1. /\ sealed[n] = NotMinted /\ sealed' = [sealed EXCEPT ![n] = terms]
          /\ issued' = issued /\ now' = now
          /\ cmd' = [cmd EXCEPT ![p] = Begin("send", {n}, 0)]
        BY <1>4 DEF StartSend, Become
    <2>2. \A q \in Proc : cmd'[q] = IF q = p THEN Begin("send", {n}, 0) ELSE cmd[q]
        BY <2>1, <1>0 DEF TypeOK
    <2>3. terms # NotMinted
        BY RegistryAssumption DEF Terms
    <2>4. SendsMinted'
        BY <2>1, <2>2, <2>3, <1>0, <1>1 DEF SendsMinted, Begin
    <2>5. StampsPast'
        BY <2>1, <2>2, <1>0, <1>1 DEF StampsPast, Begin, Time
    <2>6. HomeSound'
        <3>1. Sound(issued', sealed', now')
            BY <2>1, <1>1, SealSound
        <3>2. \A q \in Proc : Sound(cmd[q].book, sealed', now')
            BY <2>1, <1>1, <1>2, SealSound
        <3>3. Sound(Begin("send", {n}, 0).book, sealed', now')
            BY EmptyBookSound DEF Begin
        <3>4. QED
            BY <2>2, <3>1, <3>2, <3>3 DEF HomeSound
    <2>7. QED
        BY <2>4, <2>5, <2>6
<1>5. ASSUME NEW p \in Proc, NEW id \in Id, StartRevoke(p, id)
      PROVE  SendsMinted' /\ StampsPast' /\ HomeSound'
    <2> DEFINE c == Begin("revoke", id, 0)
    <2>1. c \in Command /\ c.op = "revoke" /\ c.time = 0 /\ c.book = EmptyBook
        BY BeginType, RegistryAssumption DEF Begin, Time
    <2>2. QED
        BY <1>1, <1>5, <2>1, EmptyBookSound, ProcessFrame DEF StartRevoke, Time
<1>6. ASSUME NEW p \in Proc, StartServe(p)
      PROVE  SendsMinted' /\ StampsPast' /\ HomeSound'
    <2> DEFINE c == Begin("serve", {}, now)
    <2>1. c \in Command /\ c.op = "serve" /\ c.time = now /\ c.book = EmptyBook
        BY BeginType, <1>1 DEF Begin, Time
    <2>2. QED
        BY <1>1, <1>6, <2>1, EmptyBookSound, ProcessFrame DEF StartServe, Time
<1>7. ASSUME NEW p \in Proc, Load(p)
      PROVE  SendsMinted' /\ StampsPast' /\ HomeSound'
    <2> DEFINE c == [cmd[p] EXCEPT !.step = "store", !.book = issued]
    <2>1. /\ c \in Command /\ c.op = cmd[p].op /\ c.time = cmd[p].time
          /\ c.about = cmd[p].about /\ c.book = issued
        BY <1>1, <1>2 DEF Command, Step
    <2>2. QED
        BY <1>1, <1>2, <1>7, <2>1, ProcessFrame DEF Load
<1>8. ASSUME NEW p \in Proc, NEW n \in Nonce, StoreIssue(p, n)
      PROVE  SendsMinted' /\ StampsPast' /\ HomeSound'
    <2> DEFINE c == [cmd[p] EXCEPT !.step = "offer load", !.book = EmptyBook, !.offers = {}]
    <2>1. /\ c \in Command /\ c.op = cmd[p].op /\ c.time = cmd[p].time
          /\ c.about = cmd[p].about /\ c.book = EmptyBook
        BY <1>2, EmptyBookType DEF Command, Step
    <2>2. sealed[n] # NotMinted
        BY <1>2, <1>8 DEF StoreIssue, At
    <2>3. Sound(issued', sealed, now)
        BY <1>1, <1>2, <1>8, <2>2, IssueSound DEF StoreIssue
    <2>4. Become(p, c) /\ sealed' = sealed /\ now' = now
        BY <1>8 DEF StoreIssue, Goto
    <2>5. Sound(c.book, sealed, now)
        BY <2>1, EmptyBookSound
    <2> HIDE DEF c
    <2>6. QED
        BY <1>1, <1>2, <2>1, <2>3, <2>4, <2>5, ProcessFrame
<1>9. ASSUME NEW p \in Proc, NEW n \in Nonce, StoreRevoke(p, n)
      PROVE  SendsMinted' /\ StampsPast' /\ HomeSound'
    <2> DEFINE c == [cmd[p] EXCEPT !.step = "say", !.about = {n}, !.book = EmptyBook]
    <2>1. /\ c \in Command /\ c.op = "revoke" /\ c.time = cmd[p].time /\ c.book = EmptyBook
        BY <1>2, <1>9, EmptyBookType DEF Command, Step, StoreRevoke, At
    <2>2. n \in Issued(cmd[p].book)
        BY <1>9 DEF StoreRevoke, Resolves, Matching
    <2>3. Sound(issued', sealed, now)
        BY <1>1, <1>2, <1>9, <2>2, RevokeSound DEF StoreRevoke
    <2>4. Become(p, c) /\ sealed' = sealed /\ now' = now
        BY <1>9 DEF StoreRevoke
    <2>5. Sound(c.book, sealed, now)
        BY <2>1, EmptyBookSound
    <2> HIDE DEF c
    <2>6. QED
        BY <1>1, <1>2, <2>1, <2>3, <2>4, <2>5, ProcessFrame
<1>10. ASSUME NEW p \in Proc, StoreCompact(p)
      PROVE  SendsMinted' /\ StampsPast' /\ HomeSound'
    <2> DEFINE c == [cmd[p] EXCEPT !.step = "serving", !.book = EmptyBook, !.offers = {}]
    <2>1. /\ c \in Command /\ c.op = cmd[p].op /\ c.time = cmd[p].time
          /\ c.about = cmd[p].about /\ c.book = EmptyBook
        BY <1>2, EmptyBookType DEF Command, Step
    <2>2. Sound(issued', sealed, now)
        BY <1>1, <1>2, <1>10, CompactSound DEF StoreCompact
    <2>3. Become(p, c) /\ sealed' = sealed /\ now' = now
        BY <1>10 DEF StoreCompact, Goto
    <2>4. Sound(c.book, sealed, now)
        BY <2>1, EmptyBookSound
    <2> HIDE DEF c
    <2>5. QED
        BY <1>1, <1>2, <2>1, <2>2, <2>3, <2>4, ProcessFrame
<1>11. ASSUME NEW p \in Proc, LoadOffers(p)
      PROVE  SendsMinted' /\ StampsPast' /\ HomeSound'
    <2> DEFINE c == [cmd[p] EXCEPT !.step = "offer store", !.offers = offers]
    <2>1. /\ c \in Command /\ c.op = cmd[p].op /\ c.time = cmd[p].time
          /\ c.about = cmd[p].about /\ c.book = cmd[p].book
        BY <1>0, <1>2 DEF Command, Step, TypeOK
    <2>2. QED
        BY <1>1, <1>2, <1>11, <2>1, ProcessFrame DEF LoadOffers
<1>12. ASSUME NEW p \in Proc, StoreOffer(p)
      PROVE  SendsMinted' /\ StampsPast' /\ HomeSound'
    <2> DEFINE c == [cmd[p] EXCEPT !.step = "say", !.book = EmptyBook, !.offers = {}]
    <2>1. /\ c \in Command /\ c.op = cmd[p].op /\ c.time = cmd[p].time
          /\ c.about = cmd[p].about /\ c.book = EmptyBook
        BY <1>2, EmptyBookType DEF Command, Step
    <2>2. Become(p, c) /\ sealed' = sealed /\ now' = now /\ issued' = issued
        BY <1>12 DEF StoreOffer, Goto
    <2>3. Sound(c.book, sealed, now)
        BY <2>1, EmptyBookSound
    <2> HIDE DEF c
    <2>4. QED
        BY <1>1, <1>2, <2>1, <2>2, <2>3, ProcessFrame
<1>13. ASSUME NEW p \in Proc, RefuseRevoke(p) \/ PrintTicket(p) \/ ReportRevoked(p) \/ Stop(p)
      PROVE  SendsMinted' /\ StampsPast' /\ HomeSound'
    <2>1. Become(p, Idle) /\ issued' = issued /\ sealed' = sealed /\ now' = now
        BY <1>13 DEF RefuseRevoke, PrintTicket, ReportRevoked, Stop, Finish
    <2>2. QED
        BY <1>1, <1>3, <2>1, EmptyBookSound, ProcessFrame
<1>14. CASE Tick
    <2>1. issued' = issued /\ sealed' = sealed /\ cmd' = cmd /\ now' = now + 1
        BY <1>14 DEF Tick
    <2>2. now <= now' /\ now' \in Time
        BY <1>1, <2>1 DEF Time
    <2>3. SendsMinted'
        BY <1>0, <2>1 DEF SendsMinted
    <2>4. StampsPast'
        BY <1>1, <1>2, <2>1 DEF StampsPast, Time
    <2>5. HomeSound'
        BY <1>1, <1>2, <2>1, <2>2, ClockSound DEF HomeSound
    <2>6. QED
        BY <2>3, <2>4, <2>5
<1>15. CASE UNCHANGED vars
    BY <1>0, <1>15 DEF vars, SendsMinted, StampsPast, HomeSound
<1>16. QED
    BY <1>4, <1>5, <1>6, <1>7, <1>8, <1>9, <1>10, <1>11, <1>12, <1>13, <1>14, <1>15
    DEF Next, Process, Store

(* The inductive invariant of the home directory, under every overlap of    *)
(* its commands and a stop of any of them at any point.                     *)
THEOREM RegistryInvariant == Spec => []RegistryInv
BY InvInit, InvStep, PTL DEF Spec

(* registry.rs, main.rs: every value the files and the processes hold has   *)
(* its type.                                                                *)
THEOREM TypeCorrect == Spec => []TypeOK
<1>1. RegistryInv => TypeOK
    BY DEF RegistryInv
<1>2. QED
    BY <1>1, RegistryInvariant, PTL

(* registry.rs:200-248: no overlap of load-mutate-store round trips re-keys *)
(* a record or moves its expiry.                                            *)
THEOREM TermsAreKept == Spec => []TermsKept
<1>1. RegistryInv => TermsKept
    BY DEF RegistryInv
<1>2. QED
    BY <1>1, RegistryInvariant, PTL

(* MR-8, registry.rs:38-42 and 97-122: a revoked record holds no endpoint   *)
(* and a record without one authorises nobody.                              *)
THEOREM RecipientsAreKept == Spec => []RecipientWhileLive
<1>1. RegistryInv => RecipientWhileLive
    BY DEF RegistryInv
<1>2. QED
    BY <1>1, RegistryInvariant, PTL

-----------------------------------------------------------------------------
(***************************************************************************)
(* The inductive invariant of SerialSpec.  A copy about to be written back *)
(* is the file as it is; what a command has yet to say, and what was said, *)
(* is on disk.                                                             *)
(***************************************************************************)
Expected(c) ==
    /\ c.op = "send" \/ (c.op = "revoke" /\ c.step = "say") =>
          \E n \in Nonce : c.about = {n}
    /\ c.step \in {"offer load", "offer store"} => c.op = "send"

Current(c, book, sources) ==
    /\ c.step = "store" => c.book = book
    /\ c.step = "offer store" => c.offers = sources

IsRevoked(book, n) == n \in Issued(book) /\ book[n].revoked

OnDisk(c, book, sources) ==
    /\ c.op = "send" /\ c.step \in {"offer load", "offer store", "say"} =>
          c.about \subseteq Issued(book)
    /\ c.op = "send" /\ c.step = "say" => c.about \subseteq sources
    /\ c.op = "revoke" /\ c.step = "say" => \A n \in c.about : IsRevoked(book, n)

InOrder(c, book, sources) ==
    Expected(c) /\ Current(c, book, sources) /\ OnDisk(c, book, sources)

SaidIsTrue ==
    /\ printed \subseteq Issued(issued) \cap offers
    /\ \A n \in reported : IsRevoked(issued, n)

SerialInv ==
    /\ RegistryInv
    /\ Solo
    /\ \A p \in Proc : InOrder(cmd[p], issued, offers)
    /\ SaidIsTrue

(***************************************************************************)
(* How a book may change: records are added, never removed; a revocation   *)
(* and an expiry are final; an endpoint may only be dropped.               *)
(***************************************************************************)
Evolves(before, after) == \A n \in Issued(before) :
    /\ n \in Issued(after)
    /\ before[n].revoked => after[n].revoked
    /\ after[n].expires = before[n].expires
    /\ after[n].key \in {before[n].key, NoKey}

LEMMA IssueEvolves ==
    ASSUME NEW book \in Book, NEW n \in Nonce, n \notin Issued(book), NEW record \in Record
    PROVE  Evolves(book, Issue(book, n, record))
<1>1. \A m \in Issued(book) : Issue(book, n, record)[m] = book[m]
    BY DEF Issue, Book, Issued
<1>2. QED
    BY <1>1, IssueType DEF Evolves

LEMMA RevokeEvolves ==
    ASSUME NEW book \in Book, NEW n \in Issued(book)
    PROVE  Evolves(book, Revoke(book, n)) /\ IsRevoked(Revoke(book, n), n)
<1>1. /\ Revoke(book, n)[n] = RevokeRecord(book[n])
      /\ \A m \in Nonce \ {n} : Revoke(book, n)[m] = book[m]
    BY DEF Revoke, Book, Issued
<1>2. /\ RevokeRecord(book[n]).revoked /\ RevokeRecord(book[n]).key = NoKey
      /\ RevokeRecord(book[n]).expires = book[n].expires
    BY IssuedRecordType, RevokeRecordType
<1>3. Issued(Revoke(book, n)) = Issued(book) /\ Issued(book) \subseteq Nonce
    BY RevokeType DEF Issued
<1>4. IsRevoked(Revoke(book, n), n)
    BY <1>1, <1>2, <1>3 DEF IsRevoked
<1>5. ASSUME NEW m \in Issued(book)
      PROVE  /\ m \in Issued(Revoke(book, n))
             /\ book[m].revoked => Revoke(book, n)[m].revoked
             /\ Revoke(book, n)[m].expires = book[m].expires
             /\ Revoke(book, n)[m].key \in {book[m].key, NoKey}
    <2>1. CASE m = n
        BY <1>1, <1>2, <1>3, <2>1
    <2>2. CASE m # n
        BY <1>1, <1>3, <2>2
    <2>3. QED
        BY <2>1, <2>2
<1>6. QED
    BY <1>4, <1>5 DEF Evolves

LEMMA CompactEvolves ==
    ASSUME NEW book \in Book, NEW t \in Time
    PROVE  Evolves(book, Compact(book, t))
<1> SUFFICES ASSUME NEW n \in Issued(book)
             PROVE  /\ book[n].revoked => Compact(book, t)[n].revoked
                    /\ Compact(book, t)[n].expires = book[n].expires
                    /\ Compact(book, t)[n].key \in {book[n].key, NoKey}
    BY CompactType DEF Evolves
<1>1. CASE RecordValid(book[n], t)
    BY <1>1 DEF Compact, Issued
<1>2. CASE ~RecordValid(book[n], t)
    <2>1. Compact(book, t)[n] = [book[n] EXCEPT !.key = NoKey]
        BY <1>2 DEF Compact, Issued
    <2>2. QED
        BY <2>1, IssuedRecordType, CompactRecordType
<1>3. QED
    BY <1>1, <1>2

(* a record that authorises nobody stays so *)
LEMMA EvolvesKeepsDead ==
    ASSUME NEW before \in Book, NEW after \in Book, Evolves(before, after),
           NEW t \in Time, NEW later \in Time, t <= later,
           NEW n \in Issued(before), ~IsValid(before, n, t)
    PROVE  ~IsValid(after, n, later)
<1>1. before[n] \in Record /\ n \in Issued(after) /\ after[n] \in Record
    BY IssuedRecordType DEF Evolves
<1>2. (before[n].revoked => after[n].revoked) /\ after[n].expires = before[n].expires
    BY DEF Evolves
<1>3. ~RecordValid(before[n], t)
    BY DEF IsValid
<1>4. ~RecordValid(after[n], later)
    BY <1>1, <1>2, <1>3, BookAssumption DEF RecordValid, Record, Time
<1>5. QED
    BY <1>4 DEF IsValid

LEMMA OnDiskKept ==
    ASSUME NEW c, NEW before, NEW after, NEW sources, NEW more,
           Evolves(before, after), sources \subseteq more, OnDisk(c, before, sources)
    PROVE  OnDisk(c, after, more)
<1>1. Issued(before) \subseteq Issued(after)
    BY DEF Evolves
<1>2. \A n \in Nonce : IsRevoked(before, n) => IsRevoked(after, n)
    BY DEF Evolves, IsRevoked
<1>3. \A n : IsRevoked(before, n) => n \in Nonce
    BY DEF IsRevoked, Issued
<1>4. QED
    BY <1>1, <1>2, <1>3 DEF OnDisk

(* a command that is about to write nothing and to say nothing *)
LEMMA QuietInOrder ==
    ASSUME NEW c, NEW book, NEW sources, Expected(c),
           c.step \in {"idle", "load", "serving"}
    PROVE  InOrder(c, book, sources)
BY DEF InOrder, Current, OnDisk

(***************************************************************************)
(* The invariant holds.                                                    *)
(***************************************************************************)
LEMMA SerialInit == Init => SerialInv
<1> SUFFICES ASSUME Init PROVE SerialInv
    OBVIOUS
<1>1. \A p \in Proc : cmd[p] = Idle
    BY DEF Init
<1>2. Solo
    <2>1. \A p \in Proc : cmd[p].step = "idle"
        BY <1>1 DEF Idle
    <2>2. QED
        BY <2>1 DEF Solo
<1>3. \A p \in Proc : InOrder(cmd[p], issued, offers)
    BY <1>1, QuietInOrder DEF Expected, Idle
<1>4. SaidIsTrue
    BY DEF Init, SaidIsTrue
<1>5. QED
    BY <1>2, <1>3, <1>4, InvInit DEF SerialInv

(* A step of p alone.  The file it writes, if it writes one, is the one its *)
(* Solo step entitles it to; nobody else's copy of that file is pending.    *)
LEMMA SerialFrame ==
    ASSUME SerialInv, RegistryInv', Solo', SaidIsTrue',
           NEW p \in Proc, NEW c, Become(p, c), InOrder(c, issued', offers'),
           Evolves(issued, issued'), offers \subseteq offers',
           issued' = issued \/ cmd[p].step = "store",
           offers' = offers \/ cmd[p].step = "offer store"
    PROVE  SerialInv'
<1>1. cmd \in [Proc -> Command] /\ cmd' = [cmd EXCEPT ![p] = c]
    BY DEF SerialInv, RegistryInv, TypeOK, Become
<1>2. ASSUME NEW q \in Proc
      PROVE  InOrder(cmd'[q], issued', offers')
    <2>1. CASE q = p
        BY <1>1, <2>1
    <2>2. CASE q # p
        <3>1. cmd'[q] = cmd[q]
            BY <1>1, <2>2
        <3>2. InOrder(cmd[q], issued, offers)
            BY DEF SerialInv
        <3>3. OnDisk(cmd[q], issued', offers')
            BY <3>2, OnDiskKept DEF InOrder
        <3>4. Current(cmd[q], issued', offers')
            BY <2>2, <3>2 DEF InOrder, Current, SerialInv, Solo
        <3>5. QED
            BY <3>1, <3>2, <3>3, <3>4 DEF InOrder
    <2>3. QED
        BY <2>1, <2>2
<1>3. QED
    BY <1>2 DEF SerialInv

LEMMA SaidKept ==
    ASSUME SaidIsTrue, Evolves(issued, issued'), offers \subseteq offers',
           printed' = printed, reported' = reported
    PROVE  SaidIsTrue'
<1>1. \A n \in Issued(issued) : n \in Issued(issued')
    BY DEF Evolves
<1>2. \A n : IsRevoked(issued, n) => IsRevoked(issued', n)
    BY DEF Evolves, IsRevoked
<1>3. QED
    BY <1>1, <1>2 DEF SaidIsTrue

LEMMA EvolvesSame ==
    ASSUME NEW book PROVE Evolves(book, book)
BY DEF Evolves

LEMMA InvTypes ==
    ASSUME SerialInv, NEW p \in Proc
    PROVE  /\ issued \in Book /\ now \in Time /\ offers \in SUBSET Nonce
           /\ cmd \in [Proc -> Command] /\ sealed \in [Nonce -> Terms \cup {NotMinted}]
           /\ cmd[p] \in Command /\ cmd[p].book \in Book /\ cmd[p].time \in Time
           /\ cmd[p].about \in SUBSET Nonce
           /\ InOrder(cmd[p], issued, offers) /\ SaidIsTrue /\ RegistryInv
BY DEF SerialInv, RegistryInv, TypeOK, Command

(* what a write of the book does to it *)
LEMMA StoreEvolves ==
    ASSUME SerialInv, NEW p \in Proc, Store(p)
    PROVE  Evolves(issued, issued') /\ cmd[p].step = "store"
<1>1. cmd[p].step = "store"
    BY DEF Store, StoreIssue, StoreRevoke, StoreCompact, At
<1>2. cmd[p].book = issued
    BY <1>1, InvTypes DEF InOrder, Current
<1>3. ASSUME NEW n \in Nonce, StoreIssue(p, n)
      PROVE  Evolves(issued, issued')
    <2>1. sealed[n] \in Terms
        BY <1>3, InvTypes DEF RegistryInv, SendsMinted, StoreIssue, At
    <2>2. QED
        BY <1>2, <1>3, <2>1, InvTypes, NewRecordType, IssueEvolves DEF StoreIssue
<1>4. ASSUME NEW n \in Nonce, StoreRevoke(p, n)
      PROVE  Evolves(issued, issued')
    <2>1. n \in Issued(issued)
        BY <1>2, <1>4 DEF StoreRevoke, Resolves, Matching
    <2>2. QED
        BY <1>2, <1>4, <2>1, InvTypes, RevokeEvolves DEF StoreRevoke
<1>5. ASSUME StoreCompact(p)
      PROVE  Evolves(issued, issued')
    BY <1>2, <1>5, InvTypes, CompactEvolves DEF StoreCompact
<1>6. QED
    BY <1>1, <1>3, <1>4, <1>5 DEF Store

LEMMA SerialStep == SerialInv /\ [Next /\ Solo']_vars => SerialInv'
<1> SUFFICES ASSUME SerialInv, [Next /\ Solo']_vars
             PROVE  SerialInv'
    OBVIOUS
<1>0. RegistryInv'
    BY InvStep DEF SerialInv
<1>s. Solo'
    <2>1. CASE UNCHANGED vars
        BY <2>1 DEF SerialInv, Solo, vars
    <2>2. QED
        BY <2>1
<1>1. ASSUME NEW p \in Proc, NEW c, Become(p, c), Expected(c),
             c.step \in {"idle", "load", "serving"},
             UNCHANGED <<issued, offers, printed, reported>>
      PROVE  SerialInv'
    <2>1. InOrder(c, issued', offers')
        BY <1>1, QuietInOrder
    <2>2. Evolves(issued, issued') /\ offers \subseteq offers'
        BY <1>1, EvolvesSame
    <2>3. SaidIsTrue'
        BY <1>1, <2>2, InvTypes, SaidKept
    <2>4. QED
        BY <1>0, <1>s, <1>1, <2>1, <2>2, <2>3, SerialFrame
<1>2. ASSUME NEW p \in Proc, NEW n \in Nonce, NEW key \in Remote, NEW expires \in Expiry,
             StartSend(p, n, key, expires)
      PROVE  SerialInv'
    <2>1. /\ Begin("send", {n}, 0).step = "load" /\ Expected(Begin("send", {n}, 0))
        BY DEF Begin, Expected
    <2>2. QED
        BY <1>1, <1>2, <2>1 DEF StartSend
<1>3. ASSUME NEW p \in Proc, NEW id \in Id, StartRevoke(p, id)
      PROVE  SerialInv'
    <2>1. Begin("revoke", id, 0).step = "load" /\ Expected(Begin("revoke", id, 0))
        BY DEF Begin, Expected
    <2>2. QED
        BY <1>1, <1>3, <2>1 DEF StartRevoke
<1>4. ASSUME NEW p \in Proc, StartServe(p)
      PROVE  SerialInv'
    <2>1. Begin("serve", {}, now).step = "load" /\ Expected(Begin("serve", {}, now))
        BY DEF Begin, Expected
    <2>2. QED
        BY <1>1, <1>4, <2>1 DEF StartServe
<1>5. ASSUME NEW p \in Proc, Load(p)
      PROVE  SerialInv'
    <2> DEFINE c == [cmd[p] EXCEPT !.step = "store", !.book = issued]
    <2>1. c.op = cmd[p].op /\ c.step = "store" /\ c.about = cmd[p].about /\ c.book = issued
        BY InvTypes DEF Command
    <2>2. Become(p, c) /\ UNCHANGED <<issued, offers, printed, reported>>
        BY <1>5 DEF Load
    <2> HIDE DEF c
    <2>3. InOrder(c, issued', offers')
        BY <2>1, <2>2, InvTypes DEF InOrder, Expected, Current, OnDisk
    <2>4. Evolves(issued, issued') /\ offers \subseteq offers'
        BY <2>2, EvolvesSame
    <2>5. SaidIsTrue'
        BY <2>2, <2>4, InvTypes, SaidKept
    <2>6. QED
        BY <1>0, <1>s, <2>2, <2>3, <2>4, <2>5, SerialFrame
<1>6. ASSUME NEW p \in Proc, NEW n \in Nonce, StoreIssue(p, n)
      PROVE  SerialInv'
    <2> DEFINE c == [cmd[p] EXCEPT !.step = "offer load", !.book = EmptyBook, !.offers = {}]
    <2>1. c.op = "send" /\ c.step = "offer load" /\ c.about = cmd[p].about
        BY <1>6, InvTypes DEF Command, StoreIssue, At
    <2>2. Become(p, c) /\ UNCHANGED <<offers, printed, reported>>
        BY <1>6 DEF StoreIssue, Goto
    <2> HIDE DEF c
    <2>3. Evolves(issued, issued') /\ cmd[p].step = "store"
        BY <1>6, StoreEvolves DEF Store
    <2>4. n \in Issued(issued')
        <3>1. sealed[n] \in Terms
            BY <1>6, InvTypes DEF RegistryInv, SendsMinted, StoreIssue, At
        <3>2. PICK r \in Record : r = NewRecord(sealed[n].key, sealed[n].expires)
            BY <3>1, NewRecordType
        <3>3. PICK b \in Book : b = cmd[p].book
            BY InvTypes
        <3>4. issued' = Issue(b, n, r)
            BY <1>6, <3>2, <3>3 DEF StoreIssue
        <3>5. n \in Issued(Issue(b, n, r))
            BY IssueType
        <3>6. QED
            BY <3>4, <3>5
    <2>5. cmd[p].about = {n}
        BY <1>6, InvTypes DEF InOrder, Expected, StoreIssue, At
    <2>6. InOrder(c, issued', offers')
        BY <2>1, <2>4, <2>5 DEF InOrder, Expected, Current, OnDisk
    <2>7. SaidIsTrue'
        BY <2>2, <2>3, InvTypes, SaidKept
    <2>8. QED
        BY <1>0, <1>s, <2>2, <2>3, <2>6, <2>7, SerialFrame
<1>7. ASSUME NEW p \in Proc, NEW n \in Nonce, StoreRevoke(p, n)
      PROVE  SerialInv'
    <2> DEFINE c == [cmd[p] EXCEPT !.step = "say", !.about = {n}, !.book = EmptyBook]
    <2>1. c.op = "revoke" /\ c.step = "say" /\ c.about = {n}
        BY <1>7, InvTypes DEF Command, StoreRevoke, At
    <2>2. Become(p, c) /\ UNCHANGED <<offers, printed, reported>>
        BY <1>7 DEF StoreRevoke
    <2> HIDE DEF c
    <2>3. Evolves(issued, issued') /\ cmd[p].step = "store"
        BY <1>7, StoreEvolves DEF Store
    <2>4. IsRevoked(issued', n)
        <3>1. n \in Issued(cmd[p].book)
            BY <1>7 DEF StoreRevoke, Resolves, Matching
        <3>2. QED
            BY <1>7, <3>1, InvTypes, RevokeEvolves DEF StoreRevoke
    <2>5. InOrder(c, issued', offers')
        BY <2>1, <2>4 DEF InOrder, Expected, Current, OnDisk
    <2>6. SaidIsTrue'
        BY <2>2, <2>3, InvTypes, SaidKept
    <2>7. QED
        BY <1>0, <1>s, <2>2, <2>3, <2>5, <2>6, SerialFrame
<1>8. ASSUME NEW p \in Proc, StoreCompact(p)
      PROVE  SerialInv'
    <2> DEFINE c == [cmd[p] EXCEPT !.step = "serving", !.book = EmptyBook, !.offers = {}]
    <2>1. c.op = "serve" /\ c.step = "serving"
        BY <1>8, InvTypes DEF Command, StoreCompact, At
    <2>2. Become(p, c) /\ UNCHANGED <<offers, printed, reported>>
        BY <1>8 DEF StoreCompact, Goto
    <2> HIDE DEF c
    <2>3. Evolves(issued, issued') /\ cmd[p].step = "store"
        BY <1>8, StoreEvolves DEF Store
    <2>4. InOrder(c, issued', offers')
        BY <2>1, QuietInOrder DEF Expected
    <2>5. SaidIsTrue'
        BY <2>2, <2>3, InvTypes, SaidKept
    <2>6. QED
        BY <1>0, <1>s, <2>2, <2>3, <2>4, <2>5, SerialFrame
<1>9. ASSUME NEW p \in Proc, LoadOffers(p)
      PROVE  SerialInv'
    <2> DEFINE c == [cmd[p] EXCEPT !.step = "offer store", !.offers = offers]
    <2>1. /\ c.op = cmd[p].op /\ c.step = "offer store" /\ c.about = cmd[p].about
          /\ c.offers = offers
        BY InvTypes DEF Command
    <2>2. Become(p, c) /\ UNCHANGED <<issued, offers, printed, reported>>
          /\ cmd[p].step = "offer load"
        BY <1>9 DEF LoadOffers
    <2> HIDE DEF c
    <2>3. InOrder(c, issued', offers')
        BY <2>1, <2>2, InvTypes DEF InOrder, Expected, Current, OnDisk
    <2>4. Evolves(issued, issued') /\ offers \subseteq offers'
        BY <2>2, EvolvesSame
    <2>5. SaidIsTrue'
        BY <2>2, <2>4, InvTypes, SaidKept
    <2>6. QED
        BY <1>0, <1>s, <2>2, <2>3, <2>4, <2>5, SerialFrame
<1>10. ASSUME NEW p \in Proc, StoreOffer(p)
      PROVE  SerialInv'
    <2> DEFINE c == [cmd[p] EXCEPT !.step = "say", !.book = EmptyBook, !.offers = {}]
    <2>1. c.op = "send" /\ c.step = "say" /\ c.about = cmd[p].about
        BY <1>10, InvTypes DEF Command, StoreOffer, InOrder, Expected
    <2>2. Become(p, c) /\ UNCHANGED <<issued, printed, reported>>
          /\ cmd[p].step = "offer store" /\ cmd[p].op = "send"
        BY <1>10, InvTypes DEF StoreOffer, Goto, InOrder, Expected
    <2>3. offers' = offers \cup cmd[p].about
        BY <1>10, <2>2, InvTypes DEF StoreOffer, InOrder, Current
    <2> HIDE DEF c
    <2>4. InOrder(c, issued', offers')
        BY <2>1, <2>2, <2>3, InvTypes DEF InOrder, Expected, Current, OnDisk
    <2>5. Evolves(issued, issued') /\ offers \subseteq offers'
        BY <2>2, <2>3, EvolvesSame
    <2>6. SaidIsTrue'
        BY <2>2, <2>5, InvTypes, SaidKept
    <2>7. QED
        BY <1>0, <1>s, <2>2, <2>4, <2>5, <2>6, SerialFrame
<1>11. ASSUME NEW p \in Proc, PrintTicket(p) \/ ReportRevoked(p)
      PROVE  SerialInv'
    <2>1. Become(p, Idle) /\ UNCHANGED <<issued, offers>>
        BY <1>11 DEF PrintTicket, ReportRevoked, Finish
    <2>2. InOrder(Idle, issued', offers')
        BY QuietInOrder DEF Expected, Idle
    <2>3. Evolves(issued, issued') /\ offers \subseteq offers'
        BY <2>1, EvolvesSame
    <2>4. SaidIsTrue'
        BY <1>11, InvTypes
        DEF PrintTicket, ReportRevoked, At, SaidIsTrue, InOrder, OnDisk, IsRevoked
    <2> HIDE DEF Idle
    <2>5. QED
        BY <1>0, <1>s, <2>1, <2>2, <2>3, <2>4, SerialFrame
<1>12. ASSUME NEW p \in Proc, RefuseRevoke(p) \/ Stop(p)
      PROVE  SerialInv'
    <2>1. Become(p, Idle) /\ UNCHANGED <<issued, offers, printed, reported>>
        BY <1>12 DEF RefuseRevoke, Stop, Finish
    <2>2. Idle.step = "idle" /\ Expected(Idle)
        BY DEF Idle, Expected
    <2>3. QED
        BY <1>1, <2>1, <2>2
<1>13. CASE Tick \/ UNCHANGED vars
    <2>1. UNCHANGED <<issued, offers, cmd, printed, reported>>
        BY <1>13 DEF Tick, vars
    <2>2. QED
        BY <1>0, <1>s, <2>1 DEF SerialInv, SaidIsTrue
<1>14. QED
    BY <1>2, <1>3, <1>4, <1>5, <1>6, <1>7, <1>8, <1>9, <1>10, <1>11, <1>12, <1>13
    DEF Next, Process, Store

(* registry.rs, offers.rs, main.rs: the inductive invariant of the home     *)
(* directory while the commands that write one file do not overlap.         *)
THEOREM SerialInvariant == SerialSpec => []SerialInv
BY SerialInit, SerialStep, PTL DEF SerialSpec

(* main.rs:138: whatever stopped a command, a ticket on stdout has its      *)
(* record and its local source on disk.                                     *)
THEOREM PrintedTicketsAreRecorded == SerialSpec => []PrintedIsRecorded
<1>1. SerialInv => PrintedIsRecorded
    BY DEF SerialInv, SaidIsTrue, PrintedIsRecorded
<1>2. QED
    BY <1>1, SerialInvariant, PTL

(* main.rs:213: after a reported revocation no endpoint is authorised.      *)
THEOREM ReportedNoncesAreRefused == SerialSpec => []ReportedIsRefused
<1>1. SerialInv => ReportedIsRefused
    BY DEF SerialInv, SaidIsTrue, IsRevoked, ReportedIsRefused, Authorize, IsValid, RecordValid
<1>2. QED
    BY <1>1, SerialInvariant, PTL

(***************************************************************************)
(* The steps, seen from the book alone.                                    *)
(***************************************************************************)
LEMMA BookEvolves ==
    SerialInv /\ [Next]_vars =>
        /\ Evolves(issued, issued')
        /\ now \in Time /\ now' \in Time /\ now <= now'
<1> SUFFICES ASSUME SerialInv, [Next]_vars
             PROVE  /\ Evolves(issued, issued')
                    /\ now \in Time /\ now' \in Time /\ now <= now'
    OBVIOUS
<1>0. now \in Time
    BY DEF SerialInv, RegistryInv, TypeOK
<1>1. ASSUME NEW p \in Proc, Store(p)
      PROVE  Evolves(issued, issued') /\ now' = now
    BY <1>1, StoreEvolves DEF Store, StoreIssue, StoreRevoke, StoreCompact
<1>2. ASSUME NEW p \in Proc, Process(p), ~Store(p)
      PROVE  issued' = issued /\ now' = now
    BY <1>2 DEF Process, StartSend, StartRevoke, StartServe, Load, RefuseRevoke,
                LoadOffers, StoreOffer, PrintTicket, ReportRevoked, Stop
<1>3. CASE Tick
    BY <1>0, <1>3, EvolvesSame DEF Tick, Time
<1>4. CASE UNCHANGED vars
    BY <1>0, <1>4, EvolvesSame DEF vars, Time
<1>5. QED
    BY <1>0, <1>1, <1>2, <1>3, <1>4, EvolvesSame DEF Next, Time

(* No command, compaction or crash turns an issued nonce that authorises    *)
(* nobody back into a live one (registry.rs issue, revoke, compact).        *)
THEOREM DeadNoncesStayDead == SerialSpec => DeadStaysDead
<1>1. SerialInv /\ SerialInv' /\ [Next /\ Solo']_vars =>
          [\A n \in Issued(issued) :
               ~IsValid(issued, n, now) => ~IsValid(issued', n, now')]_vars
    <2> SUFFICES ASSUME SerialInv, SerialInv', [Next]_vars,
                        NEW n \in Issued(issued), ~IsValid(issued, n, now)
                 PROVE  ~IsValid(issued', n, now')
        OBVIOUS
    <2>1. issued \in Book /\ issued' \in Book
        BY DEF SerialInv, RegistryInv, TypeOK
    <2>2. QED
        BY <2>1, BookEvolves, EvolvesKeepsDead
<1>2. QED
    BY <1>1, SerialInvariant, PTL DEF SerialSpec, DeadStaysDead

(***************************************************************************)
(* The life of a ticket.                                                   *)
(***************************************************************************)
LEMMA StatusType ==
    ASSUME NEW book \in Book, NEW t, BookRecipients(book, t), NEW n \in Nonce
    PROVE  /\ n \notin Issued(book) => Status(book, n, t) = "fresh"
           /\ n \in Issued(book) /\ IsValid(book, n, t) =>
                 Status(book, n, t) = book[n].key /\ book[n].key \in Remote
           /\ n \in Issued(book) /\ ~IsValid(book, n, t) => Status(book, n, t) = "dead"
<1>1. ASSUME n \in Issued(book), IsValid(book, n, t)
      PROVE  book[n].key \in Remote
    <2>1. book[n] \in Record
        BY <1>1, IssuedRecordType
    <2>2. book[n].key # NoKey
        BY <1>1 DEF BookRecipients, RecipientKept, IsValid
    <2>3. QED
        BY <2>1, <2>2 DEF Record
<1>2. QED
    BY <1>1 DEF Status

(* a book that evolves without a new record ends grants and does no more *)
LEMMA StatusLapses ==
    ASSUME NEW before \in Book, NEW after \in Book, Evolves(before, after),
           NEW t \in Time, NEW later \in Time, t <= later,
           BookRecipients(before, t), BookRecipients(after, later),
           NEW n \in Nonce, n \in Issued(after) => n \in Issued(before)
    PROVE  \/ Status(after, n, later) = Status(before, n, t)
           \/ Status(before, n, t) \in Remote /\ Status(after, n, later) = "dead"
<1>1. n \in Issued(before) => n \in Issued(after)
    BY DEF Evolves
<1>2. ASSUME n \in Issued(before), IsValid(after, n, later)
      PROVE  Status(after, n, later) = Status(before, n, t)
    <2>1. IsValid(before, n, t)
        BY <1>2, EvolvesKeepsDead
    <2>2. after[n].key \in Remote /\ Status(after, n, later) = after[n].key
        BY <1>1, <1>2, StatusType
    <2>3. after[n].key = before[n].key
        BY <1>2, <2>2, BookAssumption DEF Evolves
    <2>4. QED
        BY <1>2, <2>1, <2>2, <2>3, StatusType
<1>3. QED
    BY <1>1, <1>2, StatusType

LEMMA LifeInit == Init => Life!Init
<1> SUFFICES ASSUME Init PROVE Life!Init
    OBVIOUS
<1>1. \A n \in Nonce : n \notin Issued(issued)
    BY DEF Init, Issued, EmptyBook
<1>2. Grantee = [n \in Nonce |-> "fresh"]
    BY <1>1 DEF Grantee, Status
<1>3. QED
    BY <1>2 DEF Init, Life!Init

(* a step that issues, prints and reports nothing is a lapse, perhaps of no nonce *)
LEMMA LapseStep ==
    ASSUME UNCHANGED <<printed, reported>>,
           \A n \in Nonce : \/ Grantee'[n] = Grantee[n]
                            \/ Grantee[n] \in Remote /\ Grantee'[n] = "dead"
    PROVE  Life!Next
<1> DEFINE ended == {n \in Nonce : Grantee'[n] # Grantee[n]}
<1>1. Grantee' = [n \in Nonce |-> IF n \in ended THEN "dead" ELSE Grantee[n]]
    <2>1. Grantee' = [n \in Nonce |-> Grantee'[n]]
        BY DEF Grantee
    <2>2. \A n \in Nonce : Grantee'[n] = IF n \in ended THEN "dead" ELSE Grantee[n]
        OBVIOUS
    <2> HIDE DEF ended
    <2>3. QED
        BY <2>1, <2>2
<1>2. \A n \in ended : Grantee[n] \in Remote
    OBVIOUS
<1>3. ended \in SUBSET Nonce
    OBVIOUS
<1>4. Life!Lapse(ended)
    BY <1>1, <1>2 DEF Life!Lapse
<1>5. QED
    BY <1>3, <1>4 DEF Life!Next

(* a nonce that is on disk is granted or dead, a revoked one is dead *)
LEMMA GranteeOf ==
    ASSUME SerialInv, NEW n \in Nonce
    PROVE  /\ n \in Issued(issued) => Grantee[n] # "fresh"
           /\ IsRevoked(issued, n) => Grantee[n] = "dead"
<1>1. Grantee[n] = Status(issued, n, now)
    BY DEF Grantee
<1>2. issued \in Book /\ BookRecipients(issued, now)
    BY DEF SerialInv, RegistryInv, TypeOK, RecipientWhileLive
<1>3. "fresh" \notin Remote
    BY RegistryAssumption
<1>4. IsRevoked(issued, n) => n \in Issued(issued) /\ ~IsValid(issued, n, now)
    BY DEF IsRevoked, IsValid, RecordValid
<1>5. QED
    BY <1>1, <1>2, <1>3, <1>4, StatusType

LEMMA LifeStep == SerialInv /\ SerialInv' /\ [Next /\ Solo']_vars => [Life!Next]_(Life!vars)
<1> SUFFICES ASSUME SerialInv, SerialInv', [Next]_vars
             PROVE  [Life!Next]_(Life!vars)
    OBVIOUS
<1>1. /\ issued \in Book /\ issued' \in Book
      /\ BookRecipients(issued, now) /\ BookRecipients(issued', now')
    BY DEF SerialInv, RegistryInv, TypeOK, RecipientWhileLive
<1>2. Evolves(issued, issued') /\ now \in Time /\ now' \in Time /\ now <= now'
    BY BookEvolves
<1>3. \A n \in Nonce : Grantee[n] = Status(issued, n, now) /\ Grantee'[n] = Status(issued', n, now')
    BY DEF Grantee
<1>4. ASSUME NEW n \in Nonce, n \in Issued(issued') => n \in Issued(issued)
      PROVE  \/ Grantee'[n] = Grantee[n]
             \/ Grantee[n] \in Remote /\ Grantee'[n] = "dead"
    BY <1>1, <1>2, <1>3, <1>4, StatusLapses
<1>5. ASSUME UNCHANGED <<printed, reported>>,
             \A n \in Nonce : n \in Issued(issued') => n \in Issued(issued)
      PROVE  Life!Next
    BY <1>4, <1>5, LapseStep
<1>6. ASSUME NEW p \in Proc, NEW n \in Nonce, StoreIssue(p, n)
      PROVE  Life!Next
    <2>1. cmd[p].book = issued
        BY <1>6, InvTypes DEF InOrder, Current, StoreIssue, At
    <2>2. sealed[n] \in Terms
        BY <1>6, InvTypes DEF RegistryInv, SendsMinted, StoreIssue, At
    <2>3. n \notin Issued(issued)
          /\ issued' = Issue(issued, n, NewRecord(sealed[n].key, sealed[n].expires))
          /\ UNCHANGED <<printed, reported, now>>
        BY <1>6, <2>1 DEF StoreIssue
    <2>4. Issued(issued') = Issued(issued) \cup {n}
        BY <1>1, <2>2, <2>3, NewRecordType, IssueType
    <2>5. Grantee[n] = "fresh" /\ Grantee'[n] \in Remote \cup {"dead"}
        BY <1>1, <1>3, <2>3, <2>4, StatusType
    <2>6. \A m \in Nonce \ {n} : Grantee'[m] = Grantee[m]
        <3>1. \A m \in Nonce \ {n} : issued'[m] = issued[m]
            BY <1>1, <2>3 DEF Issue, Book
        <3>2. QED
            BY <1>3, <2>3, <3>1 DEF Status, IsValid, Issued
    <2>7. Grantee' = [Grantee EXCEPT ![n] = Grantee'[n]]
        <3>1. Grantee = [m \in Nonce |-> Grantee[m]] /\ Grantee' = [m \in Nonce |-> Grantee'[m]]
            BY DEF Grantee
        <3>2. QED
            BY <2>6, <3>1
    <2>8. Life!Grant(n)
        BY <2>3, <2>5, <2>7 DEF Life!Grant
    <2>9. QED
        BY <2>8 DEF Life!Next
<1>7. ASSUME NEW p \in Proc, PrintTicket(p) \/ ReportRevoked(p)
      PROVE  Life!Next
    <2>1. UNCHANGED <<issued, now>>
        BY <1>7 DEF PrintTicket, ReportRevoked
    <2>2. UNCHANGED Grantee
        BY <2>1 DEF Grantee
    <2>3. PICK n \in Nonce : cmd[p].about = {n}
        BY <1>7, InvTypes DEF InOrder, Expected, PrintTicket, ReportRevoked, At
    <2>4. CASE PrintTicket(p)
        <3>1. n \in Issued(issued)
            BY <2>3, <2>4, InvTypes DEF InOrder, OnDisk, PrintTicket, At
        <3>2. Life!HandOut(n)
            BY <2>2, <2>3, <2>4, <3>1, GranteeOf DEF PrintTicket, Life!HandOut
        <3>3. QED
            BY <3>2 DEF Life!Next
    <2>5. CASE ReportRevoked(p)
        <3>1. IsRevoked(issued, n)
            BY <2>3, <2>5, InvTypes DEF InOrder, OnDisk, ReportRevoked, At
        <3>2. Life!Report(n)
            BY <2>2, <2>3, <2>5, <3>1, GranteeOf DEF ReportRevoked, Life!Report
        <3>3. QED
            BY <3>2 DEF Life!Next
    <2>6. QED
        BY <1>7, <2>4, <2>5
<1>8. ASSUME NEW p \in Proc, StoreCompact(p) \/ \E n \in Nonce : StoreRevoke(p, n)
      PROVE  Life!Next
    <2>1. Issued(issued') = Issued(issued)
        <3>1. cmd[p].book = issued
            BY <1>8, InvTypes DEF InOrder, Current, StoreCompact, StoreRevoke, At
        <3>2. CASE StoreCompact(p)
            BY <1>1, <3>1, <3>2, InvTypes, CompactType DEF StoreCompact
        <3>3. ASSUME NEW n \in Nonce, StoreRevoke(p, n)
              PROVE  Issued(issued') = Issued(issued)
            BY <1>1, <3>1, <3>3, RevokeType DEF StoreRevoke, Resolves, Matching
        <3>4. QED
            BY <1>8, <3>2, <3>3
    <2>2. QED
        BY <1>5, <1>8, <2>1 DEF StoreCompact, StoreRevoke
<1>9. ASSUME NEW p \in Proc,
             \/ \E n \in Nonce, key \in Remote, expires \in Expiry : StartSend(p, n, key, expires)
             \/ \E id \in Id : StartRevoke(p, id)
             \/ StartServe(p) \/ Load(p) \/ RefuseRevoke(p) \/ LoadOffers(p)
             \/ StoreOffer(p) \/ Stop(p)
      PROVE  Life!Next
    BY <1>5, <1>9 DEF StartSend, StartRevoke, StartServe, Load, RefuseRevoke,
                      LoadOffers, StoreOffer, Stop
<1>10. CASE Tick
    BY <1>5, <1>10 DEF Tick
<1>11. CASE UNCHANGED vars
    <2>1. UNCHANGED <<issued, now, printed, reported>>
        BY <1>11 DEF vars
    <2>2. QED
        BY <2>1 DEF Grantee, Life!vars
<1>12. QED
    BY <1>6, <1>7, <1>8, <1>9, <1>10, <1>11 DEF Next, Process, Store

(* registry.rs and main.rs together implement the life of a ticket: one     *)
(* recipient, one stretch of time, handed out only once granted, reported   *)
(* revoked only once dead.                                                  *)
THEOREM HomeImplementsLife == SerialSpec => LifeSpec
BY LifeInit, LifeStep, SerialInvariant, PTL DEF SerialSpec, LifeSpec, Life!Spec

-----------------------------------------------------------------------------
(* Listener: the first theorems whatever the commands on the home directory   *)
(* do to each other, those about the limiter and about revocation while      *)
(* commands that write one file do not overlap.                              *)

(***************************************************************************)
(* The inductive invariant.  A connection's copy of the book, however old, *)
(* says of each nonce what its sealed ticket says; that is all that the    *)
(* judgement of a request needs.                                           *)
(***************************************************************************)
UnderTicket(k, seals) ==
    /\ seals[k.nonce] # NotMinted
    /\ k.remote = seals[k.nonce].key
    /\ seals[k.nonce].expires = Never \/ k.time < seals[k.nonce].expires

ConnectionSound(k, seals) ==
    /\ k \in Connection
    /\ k.phase # "none" => k.remote \in Remote
    /\ BookKeepsTerms(k.book, seals)
    /\ k.phase \in {"lookup", "source", "streaming"} => UnderTicket(k, seals)

ListenerInv ==
    /\ RegistryInv
    /\ conn \in [Conn -> Connection]
    /\ \A c \in Conn : ConnectionSound(conn[c], sealed)

(* a connection with no copy of the book and no request *)
LEMMA BlankSound ==
    ASSUME NEW k \in Connection, NEW seals, k.book = EmptyBook, k.remote \in Remote,
           k.phase \in {"ready", "accepted"}
    PROVE  ConnectionSound(k, seals)
<1>1. BookKeepsTerms(k.book, seals)
    BY DEF BookKeepsTerms, Issued, EmptyBook
<1>2. QED
    BY <1>1 DEF ConnectionSound

LEMMA ReadySound ==
    ASSUME NEW remote \in Remote, NEW seals
    PROVE  ConnectionSound(Ready(remote), seals)
<1>1. /\ Ready(remote) \in Connection /\ Ready(remote).book = EmptyBook
      /\ Ready(remote).remote = remote /\ Ready(remote).phase = "ready"
    BY EmptyBookType DEF Ready, Connection, Phase, Time
<1>2. QED
    BY <1>1, BlankSound

Arrived(remote, held) == [Ready(remote) EXCEPT !.phase = "accepted", !.held = held]

LEMMA ArrivedSound ==
    ASSUME NEW remote \in Remote, NEW seals, NEW held \in SUBSET Nonce
    PROVE  ConnectionSound(Arrived(remote, held), seals)
<1> DEFINE k == Arrived(remote, held)
<1>1. /\ k \in Connection /\ k.book = EmptyBook
      /\ k.remote = remote /\ k.phase = "accepted"
    BY EmptyBookType DEF Arrived, Ready, Connection, Phase, Time
<1> HIDE DEF k
<1>2. ConnectionSound(k, seals)
    BY <1>1, BlankSound
<1>3. QED
    BY <1>2 DEF k

LEMMA ClosedSound ==
    ASSUME NEW seals PROVE ConnectionSound(Closed, seals)
<1>1. Closed \in Connection /\ Closed.phase = "none" /\ Closed.book = EmptyBook
    BY EmptyBookType DEF Closed, Ready, Connection, Phase, Time
<1>2. BookKeepsTerms(Closed.book, seals)
    BY <1>1 DEF BookKeepsTerms, Issued, EmptyBook
<1>3. QED
    BY <1>1, <1>2 DEF ConnectionSound

(* the judgement of a request on a copy of the book *)
LEMMA JudgedUnderTicket ==
    ASSUME NEW book \in Book, NEW seals, BookKeepsTerms(book, seals),
           NEW n \in Nonce, NEW remote \in Remote, NEW t \in Time,
           Authorize(book, n, remote, t) = "ok"
    PROVE  /\ seals[n] # NotMinted
           /\ remote = seals[n].key
           /\ seals[n].expires = Never \/ t < seals[n].expires
<1>1. IsValid(book, n, t) /\ book[n].key = remote
    BY DEF Authorize
<1>2. n \in Issued(book) /\ KeepsTerms(book[n], seals[n])
    BY <1>1 DEF IsValid, BookKeepsTerms
<1>3. QED
    BY <1>1, <1>2, BookAssumption DEF IsValid, RecordValid, KeepsTerms

(* the terms of a sealed ticket never change *)
LEMMA SealsKept ==
    ASSUME RegistryInv, Next, NEW n, sealed[n] # NotMinted
    PROVE  sealed'[n] = sealed[n]
<1>1. sealed \in [Nonce -> Terms \cup {NotMinted}]
    BY DEF RegistryInv, TypeOK
<1>2. ASSUME NEW p \in Proc, NEW m \in Nonce, NEW key \in Remote, NEW expires \in Expiry,
             StartSend(p, m, key, expires)
      PROVE  sealed'[n] = sealed[n]
    BY <1>1, <1>2 DEF StartSend
<1>3. QED
    BY <1>2 DEF Next, Process, Store, Tick, StartRevoke, StartServe, Load, StoreIssue,
        StoreRevoke, RefuseRevoke, StoreCompact, LoadOffers, StoreOffer, PrintTicket,
        ReportRevoked, Stop

LEMMA ConnectionKept ==
    ASSUME RegistryInv, Next, NEW k, ConnectionSound(k, sealed)
    PROVE  ConnectionSound(k, sealed')
BY SealsKept DEF ConnectionSound, BookKeepsTerms, KeepsTerms, UnderTicket

(* one connection's step, the home directory left alone *)
LEMMA ConnectionFrame ==
    ASSUME ListenerInv, UNCHANGED vars, NEW c \in Conn, NEW k,
           conn' = [conn EXCEPT ![c] = k], ConnectionSound(k, sealed)
    PROVE  ListenerInv'
<1>1. RegistryInv' /\ sealed' = sealed
    BY InvStep DEF ListenerInv, vars
<1>2. k \in Connection
    BY DEF ConnectionSound
<1>3. QED
    BY <1>1, <1>2 DEF ListenerInv

LEMMA ListenerInvInit == Init /\ ListenerInit => ListenerInv
<1> SUFFICES ASSUME Init, ListenerInit PROVE ListenerInv
    OBVIOUS
<1>1. \A c \in Conn : conn[c] = Closed
    BY DEF ListenerInit, AllClosed
<1>2. \A c \in Conn : ConnectionSound(conn[c], sealed)
    BY <1>1, ClosedSound
<1>3. conn \in [Conn -> Connection]
    BY <1>2 DEF ConnectionSound, ListenerInit, AllClosed
<1>4. QED
    BY <1>2, <1>3, InvInit DEF ListenerInv

LEMMA ListenerInvStep == ListenerInv /\ [ListenerNext]_allVars => ListenerInv'
<1> SUFFICES ASSUME ListenerInv, [ListenerNext]_allVars PROVE ListenerInv'
    OBVIOUS
<1>0. ASSUME NEW c \in Conn
      PROVE  /\ ConnectionSound(conn[c], sealed) /\ conn[c] \in Connection
             /\ conn[c].phase # "none" => conn[c].remote \in Remote
             /\ conn[c].book \in Book /\ conn[c].time \in Time /\ conn[c].told \in SUBSET Nonce
             /\ BookKeepsTerms(conn[c].book, sealed)
    BY DEF ListenerInv, ConnectionSound, Connection
<1>r. /\ issued \in Book /\ now \in Time /\ reported \in SUBSET Nonce
      /\ BookKeepsTerms(issued, sealed) /\ conn \in [Conn -> Connection]
    BY DEF ListenerInv, RegistryInv, TypeOK, TermsKept
<1>1. CASE HomeStep
    <2>1. Next /\ RegistryInv'
        BY <1>1, InvStep DEF HomeStep, ListenerInv
    <2>2. CASE Serving'
        <3>1. conn' = conn
            BY <1>1, <2>2 DEF HomeStep
        <3>2. \A c \in Conn : ConnectionSound(conn[c], sealed')
            BY <1>0, <2>1, ConnectionKept DEF ListenerInv
        <3>3. QED
            BY <2>1, <3>1, <3>2 DEF ListenerInv
    <2>3. CASE ~Serving'
        <3>1. conn' = AllClosed
            BY <1>1, <2>3 DEF HomeStep
        <3>2. Closed \in Connection /\ ConnectionSound(Closed, sealed')
            BY ClosedSound DEF ConnectionSound
        <3>3. QED
            BY <2>1, <3>1, <3>2 DEF ListenerInv, AllClosed
    <2>4. QED
        BY <2>2, <2>3
<1>2. ASSUME NEW c \in Conn, NEW r \in Remote, Accept(c, r), UNCHANGED vars
      PROVE  ListenerInv'
    <2>1. Held(r) \in SUBSET Nonce
        BY DEF Held
    <2>2. ConnectionSound(Arrived(r, Held(r)), sealed)
        BY <2>1, ArrivedSound
    <2>3. conn' = [conn EXCEPT ![c] = Arrived(r, Held(r))]
        BY <1>2 DEF Accept, Arrived
    <2>4. QED
        BY <1>2, <2>2, <2>3, ConnectionFrame
<1>3. ASSUME NEW c \in Conn, Screen(c) \/ Limit(c) \/ TurnAway(c), UNCHANGED vars
      PROVE  ListenerInv'
    <2>1. conn[c].phase \in {"accepted", "unknown", "limited"} /\ conn[c].remote \in Remote
        BY <1>0, <1>3 DEF Screen, Limit, TurnAway
    <2>2. ASSUME NEW phase \in {"unknown", "limited"}
          PROVE  ConnectionSound([conn[c] EXCEPT !.phase = phase], sealed)
        BY <1>0, <2>1 DEF ConnectionSound, Connection, Phase
    <2>3. ConnectionSound(Ready(conn[c].remote), sealed)
        BY <2>1, ReadySound
    <2>4. \E k \in {[conn[c] EXCEPT !.phase = "unknown"], [conn[c] EXCEPT !.phase = "limited"],
                    Ready(conn[c].remote), Closed} :
             conn' = [conn EXCEPT ![c] = k]
        BY <1>3 DEF Screen, Limit, TurnAway
    <2>5. QED
        BY <1>3, <2>2, <2>3, <2>4, ClosedSound, ConnectionFrame
<1>4. ASSUME NEW c \in Conn, OpenStream(c), UNCHANGED vars
      PROVE  ListenerInv'
    <2>1. ConnectionSound([conn[c] EXCEPT !.phase = "opened"], sealed)
        BY <1>0, <1>4 DEF OpenStream, ConnectionSound, Connection, Phase
    <2>2. conn' = [conn EXCEPT ![c] = [conn[c] EXCEPT !.phase = "opened"]]
        BY <1>4 DEF OpenStream
    <2>3. QED
        BY <1>4, <2>1, <2>2, ConnectionFrame
<1>5. ASSUME NEW c \in Conn, LoadSnapshot(c), UNCHANGED vars
      PROVE  ListenerInv'
    <2> DEFINE k == [conn[c] EXCEPT !.phase = "reading", !.book = issued,
                                    !.time = now, !.told = reported]
    <2>1. k \in Connection /\ k.phase = "reading" /\ k.remote = conn[c].remote /\ k.book = issued
        BY <1>0, <1>r DEF Connection, Phase
    <2>2. conn' = [conn EXCEPT ![c] = k]
        BY <1>5 DEF LoadSnapshot
    <2>3. conn[c].remote \in Remote
        BY <1>0, <1>5 DEF LoadSnapshot
    <2> HIDE DEF k
    <2>4. ConnectionSound(k, sealed)
        BY <1>r, <2>1, <2>3 DEF ConnectionSound
    <2>5. QED
        BY <1>5, <2>2, <2>4, ConnectionFrame
<1>e. ASSUME NEW c \in Conn, EndStream(c), UNCHANGED vars, conn[c].phase # "none"
      PROVE  ListenerInv'
    <2>1. conn' = [conn EXCEPT ![c] = Ready(conn[c].remote)]
        BY <1>e DEF EndStream
    <2>2. ConnectionSound(Ready(conn[c].remote), sealed)
        BY <1>0, <1>e, ReadySound
    <2>3. QED
        BY <1>e, <2>1, <2>2, ConnectionFrame
<1>6. ASSUME NEW c \in Conn, NEW n \in Nonce, ReadRequest(c, n), UNCHANGED vars
      PROVE  ListenerInv'
    <2>1. CASE Authorize(conn[c].book, n, conn[c].remote, conn[c].time) = "ok"
        <3> DEFINE k == [conn[c] EXCEPT !.phase = "lookup", !.nonce = n]
        <3>1. /\ k \in Connection /\ k.nonce = n /\ k.remote = conn[c].remote
              /\ k.time = conn[c].time /\ k.book = conn[c].book
            BY <1>0 DEF Connection, Phase
        <3>2. conn' = [conn EXCEPT ![c] = k]
            BY <1>6, <2>1, <1>r DEF ReadRequest
        <3>3. conn[c].remote \in Remote
            BY <1>0, <1>6 DEF ReadRequest
        <3> HIDE DEF k
        <3>4. UnderTicket(k, sealed)
            BY <1>0, <2>1, <3>1, <3>3, JudgedUnderTicket DEF UnderTicket
        <3>5. ConnectionSound(k, sealed)
            BY <1>0, <3>1, <3>3, <3>4 DEF ConnectionSound
        <3>6. QED
            BY <1>6, <3>2, <3>5, ConnectionFrame
    <2>2. CASE Authorize(conn[c].book, n, conn[c].remote, conn[c].time) # "ok"
        BY <1>6, <1>e, <2>2 DEF ReadRequest
    <2>3. QED
        BY <2>1, <2>2
(* what is authorised moves on to its next phase, or ends *)
<1>7. ASSUME NEW c \in Conn, NEW phase \in {"source", "streaming"}, UNCHANGED vars,
             conn[c].phase \in {"lookup", "source"},
             conn' = [conn EXCEPT ![c].phase = phase]
      PROVE  ListenerInv'
    <2> DEFINE k == [conn[c] EXCEPT !.phase = phase]
    <2>1. /\ k \in Connection /\ k.nonce = conn[c].nonce /\ k.remote = conn[c].remote
          /\ k.time = conn[c].time /\ k.book = conn[c].book
        BY <1>0 DEF Connection, Phase
    <2>2. conn' = [conn EXCEPT ![c] = k]
        BY <1>7
    <2> HIDE DEF k
    <2>3. ConnectionSound(k, sealed)
        BY <1>0, <1>7, <2>1 DEF ConnectionSound, UnderTicket
    <2>4. QED
        BY <1>7, <2>2, <2>3, ConnectionFrame
<1>8. ASSUME NEW c \in Conn, UNCHANGED vars,
             RejectFrame(c) \/ RefuseSource(c) \/ FinishStreaming(c)
      PROVE  ListenerInv'
    BY <1>8, <1>e DEF RejectFrame, RefuseSource, FinishStreaming
<1>9. ASSUME NEW c \in Conn, UNCHANGED vars, LookupOffer(c) \/ StartStreaming(c)
      PROVE  ListenerInv'
    BY <1>7, <1>9, <1>e DEF LookupOffer, StartStreaming
<1>10. ASSUME NEW c \in Conn, UNCHANGED vars, PeerCloses(c)
      PROVE  ListenerInv'
    BY <1>10, ClosedSound, ConnectionFrame DEF PeerCloses
<1>11. CASE UNCHANGED allVars
    <2>1. RegistryInv'
        BY <1>11, InvStep DEF ListenerInv, allVars
    <2>2. QED
        BY <1>11, <2>1 DEF ListenerInv, allVars, vars, listening
<1>12. QED
    BY <1>1, <1>2, <1>3, <1>4, <1>5, <1>6, <1>8, <1>9, <1>10, <1>11
    DEF ListenerNext, Server, Client, Request

(* The listener's inductive invariant, under every overlap of the commands. *)
THEOREM ListenerInvariant == ListenerSpec => []ListenerInv
BY ListenerInvInit, ListenerInvStep, PTL DEF ListenerSpec

(* listener.rs authorize and run: bytes go out only to the endpoint the     *)
(* ticket was sealed to, on a request judged before the ticket's expiry.    *)
THEOREM ServesOnlyUnderTicket == ListenerSpec => []BytesOnlyUnderTicket
<1>1. ListenerInv => BytesOnlyUnderTicket
    BY DEF ListenerInv, ConnectionSound, UnderTicket, BytesOnlyUnderTicket, Authorised
<1>2. QED
    BY <1>1, ListenerInvariant, PTL

(***************************************************************************)
(* The limiter.  Once the book, as loaded, did not have the endpoint, none *)
(* of the nonces that were good for it when it connected is good for it    *)
(* any more, and none becomes so again: records are not lost and the dead  *)
(* stay dead, while commands that write one file do not overlap.           *)
(***************************************************************************)
Screened(k, book, t) ==
    /\ k.phase \in {"accepted", "unknown", "limited"} => k.held \subseteq Issued(book)
    /\ k.phase \in {"unknown", "limited"} =>
          \A n \in k.held : Authorize(book, n, k.remote, t) # "ok"

AllScreened == \A c \in Conn : Screened(conn[c], issued, now)

(* an endpoint that a request would be granted to is in the book *)
LEMMA GrantedIsKnown ==
    ASSUME NEW n, NEW remote, Authorize(issued, n, remote, now) = "ok"
    PROVE  Known(remote)
BY DEF Authorize, IsValid, Known

(* what is refused of a record that is there stays refused *)
LEMMA RefusedStaysRefused ==
    ASSUME NEW before \in Book, NEW after \in Book, Evolves(before, after),
           NEW t \in Time, NEW later \in Time, t <= later,
           NEW n \in Issued(before), NEW r \in Remote, Authorize(before, n, r, t) # "ok"
    PROVE  Authorize(after, n, r, later) # "ok"
<1>1. CASE ~IsValid(before, n, t)
    <2>1. ~IsValid(after, n, later)
        BY <1>1, EvolvesKeepsDead
    <2>2. QED
        BY <2>1 DEF Authorize
<1>2. CASE IsValid(before, n, t)
    <2>1. before[n].key # r
        BY <1>2 DEF Authorize
    <2>2. after[n].key # r
        BY <2>1, BookAssumption DEF Evolves
    <2>3. QED
        BY <2>2 DEF Authorize
<1>3. QED
    BY <1>1, <1>2

LEMMA ScreenedStep == ListenerInv /\ SerialInv /\ SerialInv' /\ AllScreened
                      /\ [ListenerNext]_allVars => AllScreened'
<1> SUFFICES ASSUME ListenerInv, SerialInv, SerialInv', AllScreened, [ListenerNext]_allVars
             PROVE  AllScreened'
    OBVIOUS
<1>0. conn \in [Conn -> Connection]
    BY DEF ListenerInv
<1>b. ASSUME NEW r PROVE Screened(Ready(r), issued', now') /\ Screened(Closed, issued', now')
    BY DEF Screened, Ready, Closed
<1>f. ASSUME NEW c \in Conn, NEW k, conn' = [conn EXCEPT ![c] = k], UNCHANGED vars,
             Screened(k, issued, now)
      PROVE  AllScreened'
    BY <1>0, <1>f DEF AllScreened, Screened, vars
<1>g. ASSUME NEW c \in Conn, NEW k, conn' = [conn EXCEPT ![c] = k], UNCHANGED vars,
             \/ \E r : k = Ready(r)
             \/ k = Closed
      PROVE  AllScreened'
    BY <1>b, <1>f, <1>g DEF vars
<1>1. CASE HomeStep
    <2>1. CASE conn' = AllClosed
        BY <1>b, <2>1 DEF AllScreened, AllClosed
    <2>2. CASE conn' = conn
        <3>1. issued \in Book /\ issued' \in Book
            BY DEF SerialInv, RegistryInv, TypeOK
        <3>2. Evolves(issued, issued') /\ now \in Time /\ now' \in Time /\ now <= now'
            BY <1>1, BookEvolves DEF HomeStep
        <3>3. ASSUME NEW c \in Conn PROVE Screened(conn'[c], issued', now')
            <4>1. /\ conn'[c] = conn[c] /\ Screened(conn[c], issued, now)
                  /\ conn[c].phase # "none" => conn[c].remote \in Remote
                BY <2>2 DEF AllScreened, ListenerInv, ConnectionSound
            <4>2. ASSUME conn[c].phase \in {"accepted", "unknown", "limited"}
                  PROVE  conn[c].held \subseteq Issued(issued')
                BY <3>2, <4>1, <4>2 DEF Screened, Evolves
            <4>3. ASSUME conn[c].phase \in {"unknown", "limited"}, NEW n \in conn[c].held
                  PROVE  Authorize(issued', n, conn[c].remote, now') # "ok"
                <5>1. n \in Issued(issued) /\ Authorize(issued, n, conn[c].remote, now) # "ok"
                    BY <4>1, <4>3 DEF Screened
                <5>2. QED
                    BY <3>1, <3>2, <4>1, <4>3, <5>1, RefusedStaysRefused
            <4>4. QED
                BY <4>1, <4>2, <4>3 DEF Screened
        <3>4. QED
            BY <3>3 DEF AllScreened
    <2>3. QED
        BY <1>1, <2>1, <2>2 DEF HomeStep
<1>2. ASSUME NEW c \in Conn, NEW r \in Remote, Accept(c, r), UNCHANGED vars
      PROVE  AllScreened'
    <2> DEFINE k == [Ready(r) EXCEPT !.phase = "accepted", !.held = Held(r)]
    <2>1. k.phase = "accepted" /\ k.held = Held(r)
        BY DEF Ready
    <2>2. conn' = [conn EXCEPT ![c] = k]
        BY <1>2 DEF Accept
    <2> HIDE DEF k
    <2>3. Held(r) \subseteq Issued(issued)
        BY DEF Held, Authorize, IsValid
    <2>4. Screened(k, issued, now)
        BY <1>2, <2>1, <2>3 DEF Screened, vars
    <2>5. QED
        BY <1>2, <1>f, <2>2, <2>4
<1>3. ASSUME NEW c \in Conn, Screen(c), UNCHANGED vars PROVE AllScreened'
    <2>1. CASE Known(conn[c].remote)
        BY <1>3, <1>g, <2>1 DEF Screen
    <2>2. CASE ~Known(conn[c].remote)
        <3> DEFINE k == [conn[c] EXCEPT !.phase = "unknown"]
        <3>1. k.held = conn[c].held /\ k.remote = conn[c].remote
            BY <1>0 DEF Connection
        <3>2. conn' = [conn EXCEPT ![c] = k]
            BY <1>3, <2>2 DEF Screen
        <3> HIDE DEF k
        <3>3. k.held \subseteq Issued(issued)
            BY <1>3, <3>1 DEF Screen, AllScreened, Screened
        <3>4. \A n : Authorize(issued, n, k.remote, now) # "ok"
            BY <2>2, <3>1, GrantedIsKnown
        <3>5. Screened(k, issued, now)
            BY <1>3, <3>3, <3>4 DEF Screened, vars
        <3>6. QED
            BY <1>3, <1>f, <3>2, <3>5
    <2>3. QED
        BY <2>1, <2>2
<1>4. ASSUME NEW c \in Conn, Limit(c), UNCHANGED vars PROVE AllScreened'
    <2> DEFINE k == [conn[c] EXCEPT !.phase = "limited"]
    <2>1. k.held = conn[c].held /\ k.remote = conn[c].remote
        BY <1>0 DEF Connection
    <2>2. \/ conn' = [conn EXCEPT ![c] = Ready(conn[c].remote)]
          \/ conn' = [conn EXCEPT ![c] = k]
        BY <1>4 DEF Limit
    <2> HIDE DEF k
    <2>3. conn[c].phase = "unknown" /\ Screened(conn[c], issued, now)
        BY <1>4 DEF Limit, AllScreened
    <2>4. Screened(k, issued, now)
        BY <1>4, <2>1, <2>3 DEF Screened, vars
    <2>5. QED
        BY <1>4, <1>f, <1>g, <2>2, <2>4
<1>5. ASSUME NEW c \in Conn, TurnAway(c) \/ PeerCloses(c), UNCHANGED vars
      PROVE  AllScreened'
    BY <1>5, <1>g DEF TurnAway, PeerCloses
<1>6. ASSUME NEW c \in Conn, EndStream(c), UNCHANGED vars PROVE AllScreened'
    BY <1>6, <1>g DEF EndStream
(* what follows the screening is nothing to the limiter *)
<1>7. ASSUME NEW c \in Conn, NEW k, conn' = [conn EXCEPT ![c] = k], UNCHANGED vars,
             k.phase \notin {"accepted", "unknown", "limited"}
      PROVE  AllScreened'
    BY <1>7, <1>f DEF Screened
<1>8. ASSUME NEW c \in Conn, OpenStream(c) \/ StartStreaming(c), UNCHANGED vars
      PROVE  AllScreened'
    <2>1. PICK phase \in {"opened", "streaming"} :
             conn' = [conn EXCEPT ![c] = [conn[c] EXCEPT !.phase = phase]]
        BY <1>8 DEF OpenStream, StartStreaming
    <2>2. [conn[c] EXCEPT !.phase = phase].phase = phase
        BY <1>0 DEF Connection
    <2>3. QED
        BY <1>7, <1>8, <2>1, <2>2
<1>9. ASSUME NEW c \in Conn, LoadSnapshot(c), UNCHANGED vars PROVE AllScreened'
    <2> DEFINE k == [conn[c] EXCEPT !.phase = "reading", !.book = issued,
                                    !.time = now, !.told = reported]
    <2>1. k.phase = "reading"
        BY <1>0 DEF Connection
    <2>2. conn' = [conn EXCEPT ![c] = k]
        BY <1>9 DEF LoadSnapshot
    <2> HIDE DEF k
    <2>3. QED
        BY <1>7, <1>9, <2>1, <2>2
<1>10. ASSUME NEW c \in Conn, NEW n \in Nonce, ReadRequest(c, n), UNCHANGED vars
       PROVE  AllScreened'
    <2> DEFINE k == [conn[c] EXCEPT !.phase = "lookup", !.nonce = n]
    <2>1. k.phase = "lookup"
        BY <1>0 DEF Connection
    <2>2. conn' = [conn EXCEPT ![c] = k] \/ EndStream(c)
        BY <1>10, <1>0 DEF ReadRequest
    <2> HIDE DEF k
    <2>3. QED
        BY <1>6, <1>7, <1>10, <2>1, <2>2
<1>11. ASSUME NEW c \in Conn, LookupOffer(c), UNCHANGED vars PROVE AllScreened'
    <2>1. [conn[c] EXCEPT !.phase = "source"].phase = "source"
        BY <1>0 DEF Connection
    <2>2. conn' = [conn EXCEPT ![c] = [conn[c] EXCEPT !.phase = "source"]] \/ EndStream(c)
        BY <1>11 DEF LookupOffer
    <2>3. QED
        BY <1>6, <1>7, <1>11, <2>1, <2>2
<1>12. ASSUME NEW c \in Conn, RejectFrame(c) \/ RefuseSource(c) \/ FinishStreaming(c),
              UNCHANGED vars
       PROVE  AllScreened'
    BY <1>6, <1>12 DEF RejectFrame, RefuseSource, FinishStreaming
<1>13. CASE UNCHANGED allVars
    BY <1>13 DEF allVars, vars, listening, AllScreened, Screened
<1>14. QED
    BY <1>1, <1>2, <1>3, <1>4, <1>5, <1>8, <1>9, <1>10, <1>11, <1>12, <1>13
    DEF ListenerNext, Server, Client, Request

(* listener.rs run, the pre-filter: for any number of connections and       *)
(* attempts, an endpoint that held a live ticket when it connected and      *)
(* holds it still is not turned away by the limiter, whatever commands run  *)
(* between the load of the book and the limiter.                            *)
THEOREM RecipientsAreNotThrottled == SerialListenerSpec => []RecipientNotThrottled
<1>1. Init /\ ListenerInit => ListenerInv /\ SerialInv /\ AllScreened
    <2>1. ListenerInit => AllScreened
        BY DEF ListenerInit, AllClosed, AllScreened, Screened, Closed, Ready
    <2>2. QED
        BY <2>1, ListenerInvInit, SerialInit
<1>2. ListenerInv /\ SerialInv /\ AllScreened /\ [ListenerNext /\ Solo']_allVars =>
         ListenerInv' /\ SerialInv' /\ AllScreened'
    <2>1. [ListenerNext /\ Solo']_allVars => [ListenerNext]_allVars /\ [Next /\ Solo']_vars
        BY DEF ListenerNext, HomeStep, allVars
    <2>2. QED
        BY <2>1, ListenerInvStep, SerialStep, ScreenedStep
<1>3. AllScreened => RecipientNotThrottled
    BY DEF AllScreened, Screened, RecipientNotThrottled
<1>4. QED
    BY <1>1, <1>2, <1>3, PTL DEF SerialListenerSpec

(***************************************************************************)
(* Revocation.  What had been reported when a copy of the book was loaded  *)
(* is revoked in that copy, since it was on disk before it was reported.   *)
(***************************************************************************)
Fresh(k) ==
    /\ \A n \in k.told : IsRevoked(k.book, n)
    /\ k.phase \in {"lookup", "source", "streaming"} => k.nonce \notin k.told

AllFresh == \A c \in Conn : Fresh(conn[c])

LEMMA BlankFresh ==
    ASSUME NEW remote, NEW held
    PROVE  Fresh(Ready(remote)) /\ Fresh(Closed) /\ Fresh(Arrived(remote, held))
BY DEF Ready, Closed, Arrived, Fresh

LEMMA FreshFrame ==
    ASSUME ListenerInv, AllFresh, NEW c \in Conn, NEW k, conn' = [conn EXCEPT ![c] = k], Fresh(k)
    PROVE  AllFresh'
BY DEF AllFresh, ListenerInv

LEMMA FreshStep == ListenerInv /\ SerialInv /\ AllFresh /\ [ListenerNext]_allVars => AllFresh'
<1> SUFFICES ASSUME ListenerInv, SerialInv, AllFresh, [ListenerNext]_allVars PROVE AllFresh'
    OBVIOUS
<1>0. ASSUME NEW c \in Conn PROVE conn[c] \in Connection /\ Fresh(conn[c])
    BY DEF ListenerInv, AllFresh
<1>b. ASSUME NEW r, NEW held
      PROVE  /\ Fresh(Ready(r)) /\ Fresh(Closed)
             /\ Fresh(Arrived(r, held))
    BY BlankFresh
<1>1. CASE HomeStep
    BY <1>0, <1>1, <1>b DEF HomeStep, AllFresh, AllClosed
<1>2. ASSUME NEW c \in Conn, NEW r \in Remote, Accept(c, r) PROVE AllFresh'
    BY <1>2, <1>b, FreshFrame DEF Accept, Arrived
<1>3. ASSUME NEW c \in Conn, LoadSnapshot(c) PROVE AllFresh'
    <2> DEFINE k == [conn[c] EXCEPT !.phase = "reading", !.book = issued,
                                    !.time = now, !.told = reported]
    <2>1. k.phase = "reading" /\ k.book = issued /\ k.told = reported
        BY <1>0 DEF Connection
    <2>2. conn' = [conn EXCEPT ![c] = k]
        BY <1>3 DEF LoadSnapshot
    <2> HIDE DEF k
    <2>3. Fresh(k)
        BY <2>1 DEF Fresh, SerialInv, SaidIsTrue
    <2>4. QED
        BY <2>2, <2>3, FreshFrame
<1>4. ASSUME NEW c \in Conn, EndStream(c) PROVE AllFresh'
    BY <1>4, <1>b, FreshFrame DEF EndStream
<1>5. ASSUME NEW c \in Conn, NEW n \in Nonce, ReadRequest(c, n) PROVE AllFresh'
    <2>1. CASE Authorize(conn[c].book, n, conn[c].remote, conn[c].time) = "ok"
        <3> DEFINE k == [conn[c] EXCEPT !.phase = "lookup", !.nonce = n]
        <3>1. k.nonce = n /\ k.told = conn[c].told /\ k.book = conn[c].book
            BY <1>0 DEF Connection
        <3>2. conn' = [conn EXCEPT ![c] = k]
            BY <1>5, <2>1 DEF ReadRequest, ListenerInv
        <3> HIDE DEF k
        <3>3. ~IsRevoked(conn[c].book, n)
            BY <2>1 DEF Authorize, IsValid, RecordValid, IsRevoked
        <3>4. Fresh(k)
            BY <1>0, <3>1, <3>3 DEF Fresh
        <3>5. QED
            BY <3>2, <3>4, FreshFrame
    <2>2. QED
        BY <1>4, <1>5, <2>1 DEF ReadRequest
(* a phase moves on, and nothing else of the connection *)
<1>6. ASSUME NEW c \in Conn, NEW phase, conn' = [conn EXCEPT ![c].phase = phase],
             phase \in {"source", "streaming"} =>
                conn[c].phase \in {"lookup", "source", "streaming"},
             phase # "lookup"
      PROVE  AllFresh'
    <2> DEFINE k == [conn[c] EXCEPT !.phase = phase]
    <2>1. k.phase = phase /\ k.nonce = conn[c].nonce /\ k.told = conn[c].told
          /\ k.book = conn[c].book
        BY <1>0 DEF Connection
    <2>2. conn' = [conn EXCEPT ![c] = k]
        BY <1>6
    <2> HIDE DEF k
    <2>3. Fresh(k)
        BY <1>0, <1>6, <2>1 DEF Fresh
    <2>4. QED
        BY <2>2, <2>3, FreshFrame
<1>7. ASSUME NEW c \in Conn, OpenStream(c) PROVE AllFresh'
    BY <1>6, <1>7 DEF OpenStream
<1>8. ASSUME NEW c \in Conn, LookupOffer(c) \/ StartStreaming(c) PROVE AllFresh'
    BY <1>4, <1>6, <1>8 DEF LookupOffer, StartStreaming
<1>9. ASSUME NEW c \in Conn, RejectFrame(c) \/ RefuseSource(c) \/ FinishStreaming(c)
      PROVE  AllFresh'
    BY <1>4, <1>9 DEF RejectFrame, RefuseSource, FinishStreaming
<1>10. ASSUME NEW c \in Conn, PeerCloses(c) PROVE AllFresh'
    BY <1>10, <1>b, FreshFrame DEF PeerCloses
<1>11. ASSUME NEW c \in Conn, Screen(c) \/ Limit(c) \/ TurnAway(c) PROVE AllFresh'
    <2>1. \/ \E phase \in {"unknown", "limited"} : conn' = [conn EXCEPT ![c].phase = phase]
          \/ \E k \in {Ready(conn[c].remote), Closed} : conn' = [conn EXCEPT ![c] = k]
        BY <1>11 DEF Screen, Limit, TurnAway
    <2>2. QED
        BY <1>6, <1>b, <2>1, FreshFrame
<1>12. CASE UNCHANGED allVars
    BY <1>12 DEF allVars, listening, AllFresh
<1>13. QED
    BY <1>1, <1>2, <1>3, <1>5, <1>7, <1>8, <1>9, <1>10, <1>11, <1>12
    DEF ListenerNext, Server, Client, Request

(* listener.rs run, "a revocation mid-serve still takes effect on the very  *)
(* next op": a stream whose copy of the book was loaded after a revocation  *)
(* was reported is never served under that nonce.                           *)
THEOREM RevocationBinds == SerialListenerSpec => []RevocationBindsNextStream
<1>1. Init /\ ListenerInit => ListenerInv /\ SerialInv /\ AllFresh
    <2>1. Fresh(Closed)
        BY BlankFresh
    <2>2. ListenerInit => AllFresh
        BY <2>1 DEF ListenerInit, AllClosed, AllFresh
    <2>3. QED
        BY <2>2, ListenerInvInit, SerialInit
<1>2. ListenerInv /\ SerialInv /\ AllFresh /\ [ListenerNext /\ Solo']_allVars =>
         ListenerInv' /\ SerialInv' /\ AllFresh'
    <2>1. [ListenerNext /\ Solo']_allVars => [ListenerNext]_allVars /\ [Next /\ Solo']_vars
        BY DEF ListenerNext, HomeStep, allVars
    <2>2. QED
        BY <2>1, ListenerInvStep, SerialStep, FreshStep
<1>3. AllFresh => RevocationBindsNextStream
    BY DEF AllFresh, Fresh, RevocationBindsNextStream, Authorised
<1>4. QED
    BY <1>1, <1>2, <1>3, PTL DEF SerialListenerSpec
=============================================================================
