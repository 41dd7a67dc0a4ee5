------------------------------ MODULE RecvProofs ------------------------------
(* Theorems about Recv, for any number of processes and folders of any       *)
(* length: first for any overlap of their round trips on the history, then   *)
(* while round trips do not overlap.                                         *)
EXTENDS Recv, FiniteSetTheorems, SequenceTheorems, TLAPS

(***************************************************************************)
(* The inductive invariant.  An id stands for the entry it was given out   *)
(* for: in the file, in every copy of it, however old, and in every recv   *)
(* that works on it.  What a log calls completed has landed, or, where a   *)
(* folder repeats a path, another entry of that path has.                  *)
(***************************************************************************)
LogSound(log, given, have) == \A id \in Recorded(log) :
    /\ log[id].entry = given[id]
    /\ log[id].state = "completed" => Arrived(given[id], have)

(* a path a recv lists twice is one its ticket lists twice *)
RepeatsListed(todo) == \A i, j \in 1..Len(todo) :
    i # j /\ todo[i].name = todo[j].name => Repeated(todo[i].name)

Surveying(c) == c.step \in {"survey", "list"} \/ c.change = "start"

Downloading(c) == c.step \in {"pull", "receiving"} \/ c.change = "complete"

CommandSound(c, given, have) ==
    /\ Len(c.ids) <= Len(c.todo)
    /\ \A i \in 1..Len(c.ids) : given[c.ids[i]] = c.todo[i]
    /\ c.step = "survey" => c.ids = <<>>
    /\ c.step = "list" => Len(c.ids) < Len(c.todo)
    /\ c.change = "start" => c.ids # <<>>
    /\ Surveying(c) => c.at = 1
    /\ Downloading(c) => Len(c.ids) = Len(c.todo) /\ c.at \in 1..Len(c.todo)
    /\ c.change = "complete" => c.todo[c.at] \in have
    /\ RepeatsListed(c.todo)
    /\ LogSound(c.log, given, have)

RecvInv ==
    /\ RecvTypeOK
    /\ LogSound(history, minted, landed)
    /\ \A p \in Proc : CommandSound(cmd[p], minted, landed)

(***************************************************************************)
(* Logs                                                                    *)
(***************************************************************************)
LEMMA LogType ==
    ASSUME NEW log \in Log, NEW id \in Recorded(log)
    PROVE  /\ id \in TransferId
           /\ log[id] \in HistoryRecord
           /\ log[id].entry \in Entry
           /\ log[id].state \in {"in progress", "completed"}
BY DEF Log, Recorded, HistoryRecord

LEMMA EmptyLogSound ==
    ASSUME NEW given, NEW have
    PROVE  EmptyLog \in Log /\ LogSound(EmptyLog, given, have)
BY DEF EmptyLog, Log, LogSound, Recorded

LEMMA InProgressSound ==
    ASSUME NEW log \in Log, NEW given, NEW have, LogSound(log, given, have),
           NEW id \in TransferId, NEW entry \in Entry, given[id] = entry
    PROVE  /\ RecordInProgress(log, id, entry) \in Log
           /\ LogSound(RecordInProgress(log, id, entry), given, have)
<1> DEFINE record == [entry |-> entry, state |-> "in progress"]
           after == RecordInProgress(log, id, entry)
<1>1. record \in HistoryRecord
    BY DEF HistoryRecord
<1>2. after = [log EXCEPT ![id] = record]
    BY DEF RecordInProgress
<1>3. after \in Log
    BY <1>1, <1>2 DEF Log
<1>4. \A i \in Recorded(after) : i # id => i \in Recorded(log) /\ after[i] = log[i]
    BY <1>2 DEF Recorded, Log
<1>5. after[id] = record
    BY <1>2 DEF Log
<1>6. record.entry = given[id] /\ record.state # "completed"
    OBVIOUS
<1> HIDE DEF record, after
<1>7. LogSound(after, given, have)
    BY <1>4, <1>5, <1>6 DEF LogSound
<1> USE DEF after
<1>8. QED
    BY <1>3, <1>7

LEMMA CompletedSound ==
    ASSUME NEW log \in Log, NEW given, NEW have, LogSound(log, given, have),
           NEW id \in TransferId, Arrived(given[id], have), NEW entry
    PROVE  /\ RecordCompleted(log, id, entry) \in Log
           /\ LogSound(RecordCompleted(log, id, entry), given, have)
<1>1. CASE id \notin Recorded(log)
    BY <1>1 DEF RecordCompleted
<1>2. CASE id \in Recorded(log)
    <2> DEFINE record == [log[id] EXCEPT !.state = "completed"]
               after == RecordCompleted(log, id, entry)
    <2>1. log[id] \in HistoryRecord
        BY <1>2, LogType
    <2>2. record \in HistoryRecord /\ record.entry = log[id].entry
        BY <2>1 DEF HistoryRecord
    <2>3. after = [log EXCEPT ![id] = record]
        BY <1>2 DEF RecordCompleted
    <2>4. after \in Log /\ after[id] = record
        BY <2>2, <2>3 DEF Log
    <2>5. \A i \in Recorded(after) : i # id => i \in Recorded(log) /\ after[i] = log[i]
        BY <2>3 DEF Recorded, Log
    <2>6. record.entry = given[id]
        BY <1>2, <2>2 DEF LogSound
    <2>7. LogSound(after, given, have)
        BY <2>4, <2>5, <2>6 DEF LogSound
    <2>8. QED
        BY <2>4, <2>7
<1>3. QED
    BY <1>1, <1>2

(* Ids are given out for good, and what has landed has landed. *)
Extends(given, given2, have, have2) ==
    /\ \A id \in TransferId : given[id] # NotMinted => given2[id] = given[id]
    /\ have \subseteq have2

LEMMA LogKept ==
    ASSUME NEW log \in Log, NEW given, NEW given2, NEW have, NEW have2,
           Extends(given, given2, have, have2), LogSound(log, given, have)
    PROVE  LogSound(log, given2, have2)
<1> SUFFICES ASSUME NEW id \in Recorded(log)
             PROVE  /\ log[id].entry = given2[id]
                    /\ log[id].state = "completed" => Arrived(given2[id], have2)
    BY DEF LogSound
<1>1. id \in TransferId /\ log[id].entry \in Entry
    BY LogType
<1>2. log[id].entry = given[id] /\ (log[id].state = "completed" => Arrived(given[id], have))
    BY DEF LogSound
<1>3. given2[id] = given[id]
    BY <1>1, <1>2, RecvAssumption DEF Extends
<1>4. QED
    BY <1>2, <1>3 DEF Extends, Arrived

LEMMA CommandKept ==
    ASSUME NEW c \in Command, NEW given, NEW given2, NEW have, NEW have2,
           Extends(given, given2, have, have2), CommandSound(c, given, have)
    PROVE  CommandSound(c, given2, have2)
<1>1. c.log \in Log /\ c.todo \in Seq(Entry) /\ c.ids \in Seq(TransferId)
    BY DEF Command
<1>2. LogSound(c.log, given2, have2)
    BY <1>1, LogKept DEF CommandSound
<1>3. ASSUME NEW i \in 1..Len(c.ids) PROVE given2[c.ids[i]] = c.todo[i]
    <2>1. c.ids[i] \in TransferId /\ given[c.ids[i]] = c.todo[i]
        BY <1>1, <1>3 DEF CommandSound
    <2>2. c.todo[i] \in Entry
        BY <1>1, <1>3 DEF CommandSound
    <2>3. QED
        BY <2>1, <2>2, RecvAssumption DEF Extends
<1>4. c.change = "complete" => c.todo[c.at] \in have2
    BY DEF CommandSound, Extends
<1>5. QED
    BY <1>2, <1>3, <1>4 DEF CommandSound

(***************************************************************************)
(* Commands                                                                *)
(***************************************************************************)
LEMMA IdleSound ==
    ASSUME NEW given, NEW have
    PROVE  Idle \in Command /\ CommandSound(Idle, given, have)
<1>1. Idle \in Command
    BY EmptyLogSound DEF Idle, Command, Step, Change
<1>2. Idle.ids = <<>> /\ Idle.todo = <<>> /\ Idle.at = 1 /\ Idle.step = "idle"
        /\ Idle.change = "none" /\ Idle.log = EmptyLog
    BY DEF Idle
<1>3. RepeatsListed(Idle.todo)
    BY <1>2 DEF RepeatsListed
<1>4. QED
    BY <1>1, <1>2, <1>3, EmptyLogSound DEF CommandSound, Surveying, Downloading

(* one process moves, the others stand where they were *)
LEMMA Framed ==
    ASSUME RecvInv, NEW p \in Proc, NEW c \in Command, Become(p, c),
           Extends(minted, minted', landed, landed'), CommandSound(c, minted', landed')
    PROVE  /\ cmd' \in [Proc -> Command]
           /\ \A q \in Proc : CommandSound(cmd'[q], minted', landed')
<1>1. cmd \in [Proc -> Command] /\ cmd' = [cmd EXCEPT ![p] = c]
    BY DEF RecvInv, RecvTypeOK, Become
<1>2. cmd' \in [Proc -> Command] /\ cmd'[p] = c
    BY <1>1
<1>3. ASSUME NEW q \in Proc, q # p PROVE CommandSound(cmd'[q], minted', landed')
    <2>1. cmd'[q] = cmd[q] /\ cmd[q] \in Command /\ CommandSound(cmd[q], minted, landed)
        BY <1>1, <1>3 DEF RecvInv
    <2>2. QED
        BY <2>1, CommandKept
<1>4. QED
    BY <1>2, <1>3

LEMMA SameExtends == UNCHANGED <<minted, landed>> => Extends(minted, minted', landed, landed')
BY DEF Extends

(* what a process was working on, as the steps of its recv need it *)
LEMMA Working ==
    ASSUME RecvInv, NEW p \in Proc
    PROVE  /\ cmd[p] \in Command
           /\ cmd[p].todo \in Seq(Entry) /\ cmd[p].ids \in Seq(TransferId)
           /\ cmd[p].log \in Log /\ LogSound(cmd[p].log, minted, landed)
           /\ CommandSound(cmd[p], minted, landed)
           /\ \A i \in 1..Len(cmd[p].ids) :
                 cmd[p].ids[i] \in TransferId /\ minted[cmd[p].ids[i]] = cmd[p].todo[i]
BY DEF RecvInv, RecvTypeOK, Command, CommandSound

LEMMA CurrentType ==
    ASSUME RecvInv, NEW p \in Proc, Downloading(cmd[p])
    PROVE  /\ cmd[p].at \in 1..Len(cmd[p].todo) /\ Len(cmd[p].ids) = Len(cmd[p].todo)
           /\ Current(p) \in Entry /\ Current(p).content \in Content
           /\ minted[cmd[p].ids[cmd[p].at]] = Current(p)
           /\ cmd[p].ids[cmd[p].at] \in TransferId
<1>1. cmd[p].at \in 1..Len(cmd[p].todo) /\ Len(cmd[p].ids) = Len(cmd[p].todo)
    BY Working DEF CommandSound
<1>2. Current(p) \in Entry
    BY <1>1, Working DEF Current
<1>3. Current(p).content \in Content
    BY <1>2, RecvAssumption
<1>4. minted[cmd[p].ids[cmd[p].at]] = Current(p) /\ cmd[p].ids[cmd[p].at] \in TransferId
    BY <1>1, Working DEF Current
<1>5. QED
    BY <1>1, <1>2, <1>3, <1>4

(* ids of a recv under way have been given out *)
LEMMA LeftMinted ==
    ASSUME RecvInv, NEW p \in Proc
    PROVE  Left(p) \subseteq Minted
<1> DEFINE c == cmd[p]
<1>1. c.ids \in Seq(TransferId) /\ c.todo \in Seq(Entry) /\ c.at \in Nat \ {0}
        /\ Len(c.ids) <= Len(c.todo)
    BY Working DEF Command, CommandSound
<1>2. ASSUME NEW i \in 1..Len(c.ids) PROVE c.ids[i] \in Minted
    <2>1. c.ids[i] \in TransferId /\ minted[c.ids[i]] = c.todo[i]
        BY Working
    <2>2. c.todo[i] \in Entry
        BY <1>1
    <2>3. QED
        BY <2>1, <2>2, RecvAssumption DEF Minted
<1>3. ASSUME NEW id \in Left(p) PROVE id \in Minted
    <2> DEFINE rest == SubSeq(c.ids, c.at, Len(c.ids))
    <2>1. PICK i \in 1..Len(rest) : id = rest[i]
        BY <1>3 DEF Left, IdRange
    <2>2. QED
        BY <1>1, <1>2, <2>1, SMTT(60)
<1>4. QED
    BY <1>3

Disks == [Proc -> [Path -> Content \cup {Absent, Partial, Own}]]

(* what a step of one process has to show *)
LEMMA Preserved ==
    ASSUME RecvInv, NEW p \in Proc, NEW c \in Command, Become(p, c),
           Extends(minted, minted', landed, landed'), CommandSound(c, minted', landed'),
           history' \in Log, LogSound(history', minted', landed'),
           disk' \in Disks, minted' \in [TransferId -> Entry \cup {NotMinted}],
           landed' \in SUBSET Entry, unfinished' \subseteq Minted', purged' \subseteq Minted',
           faults' \in 0..MaxFaults, discards' \in 0..MaxDiscards
    PROVE  RecvInv'
<1>1. cmd' \in [Proc -> Command] /\ \A q \in Proc : CommandSound(cmd'[q], minted', landed')
    BY Framed
<1>2. RecvTypeOK'
    BY <1>1 DEF RecvTypeOK, Disks
<1>3. QED
    BY <1>1, <1>2 DEF RecvInv

(* ... when it gives out no id, lands nothing and does not end *)
LEMMA Quiet ==
    ASSUME RecvInv, NEW p \in Proc, NEW c \in Command, Become(p, c),
           CommandSound(c, minted, landed),
           UNCHANGED <<minted, landed, unfinished, purged, faults, discards>>,
           history' \in Log, LogSound(history', minted, landed), disk' \in Disks
    PROVE  RecvInv'
<1>1. Extends(minted, minted', landed, landed')
    BY SameExtends
<1>2. Minted' = Minted
    BY DEF Minted
<1>3. QED
    BY <1>1, <1>2, Preserved DEF RecvInv, RecvTypeOK

(* ... when it leaves the files alone too *)
LEMMA Still ==
    ASSUME RecvInv, NEW p \in Proc, NEW c \in Command, Become(p, c),
           CommandSound(c, minted, landed),
           UNCHANGED <<history, disk, minted, landed, unfinished, purged, faults, discards>>
    PROVE  RecvInv'
BY Quiet DEF RecvInv, RecvTypeOK, Disks

LEMMA RecvInvInit == Init => RecvInv
<1> SUFFICES ASSUME Init PROVE RecvInv
    OBVIOUS
<1>1. history \in Log /\ LogSound(history, minted, landed)
    BY EmptyLogSound DEF Init
<1>2. cmd \in [Proc -> Command] /\ \A p \in Proc : CommandSound(cmd[p], minted, landed)
    BY IdleSound DEF Init
<1>3. disk \in [Proc -> [Path -> Content \cup {Absent, Partial, Own}]]
    BY DEF Init
<1>4. RecvTypeOK
    BY <1>1, <1>2, <1>3, RecvAssumption DEF Init, RecvTypeOK
<1>5. QED
    BY <1>1, <1>2, <1>4 DEF RecvInv

(***************************************************************************)
(* The steps of a recv, up to its first pull                               *)
(***************************************************************************)
LEMMA StartRecvStep ==
    ASSUME RecvInv, NEW p \in Proc, NEW ticket \in Ticket, StartRecv(p, ticket)
    PROVE  RecvInv'
<1> DEFINE c == [Idle EXCEPT !.step = IF ticket.folder THEN "survey" ELSE "list",
                             !.folder = ticket.folder, !.todo = ticket.entries]
<1>1. ticket.folder \in BOOLEAN /\ ticket.entries \in Seq(Entry)
        /\ (ticket.folder \/ Len(ticket.entries) = 1)
    BY RecvAssumption
<1>2. c \in Command
    BY <1>1, IdleSound DEF Command, Step
<1>3. c.step = (IF ticket.folder THEN "survey" ELSE "list") /\ c.change = "none"
        /\ c.todo = ticket.entries /\ c.ids = <<>> /\ c.at = 1 /\ c.log = EmptyLog
    BY DEF Idle
<1> HIDE DEF c
<1>4. CommandSound(c, minted, landed)
    <2>1. Len(c.ids) = 0 /\ Len(c.todo) \in Nat /\ (c.step = "list" => Len(c.todo) = 1)
        BY <1>1, <1>3
    <2>2. LogSound(c.log, minted, landed)
        BY <1>3, EmptyLogSound
    <2>3. c.step \in {"survey", "list"}
        BY <1>3
    <2>4. ~Downloading(c) /\ c.change = "none" /\ c.at = 1 /\ c.ids = <<>>
        BY <1>3, <2>3 DEF Downloading
    <2>5. Len(c.ids) <= Len(c.todo)
        BY <2>1
    <2>6. \A i \in 1..Len(c.ids) : minted[c.ids[i]] = c.todo[i]
        BY <2>1
    <2>7. c.step = "list" => Len(c.ids) < Len(c.todo)
        BY <2>1
    <2>8. RepeatsListed(c.todo)
        BY <1>3 DEF RepeatsListed, Repeated
    <2>9. QED
        BY <2>2, <2>4, <2>5, <2>6, <2>7, <2>8 DEF CommandSound
<1>5. Become(p, c)
    BY DEF StartRecv, c
<1>6. QED
    BY <1>2, <1>4, <1>5, Still DEF StartRecv

LEMMA SurveyStep ==
    ASSUME RecvInv, NEW p \in Proc, Survey(p) PROVE RecvInv'
<1>1. CASE Wanted(p) = {}
    BY <1>1, IdleSound, Still DEF Survey, Finish
<1>2. CASE Wanted(p) # {}
    <2> DEFINE n == Cardinality(Wanted(p))
    <2>1. PICK order \in [1..n -> Wanted(p)] :
             /\ \A i, j \in DOMAIN order : i < j => order[i] < order[j]
             /\ Become(p, [cmd[p] EXCEPT !.step = "list",
                             !.todo = [i \in DOMAIN order |-> cmd[p].todo[order[i]]]])
        BY <1>2 DEF Survey
    <2> DEFINE todo == [i \in DOMAIN order |-> cmd[p].todo[order[i]]]
               c == [cmd[p] EXCEPT !.step = "list", !.todo = todo]
    <2>2. cmd[p] \in Command /\ cmd[p].todo \in Seq(Entry) /\ cmd[p].step = "survey"
            /\ CommandSound(cmd[p], minted, landed)
        BY Working DEF Survey
    <2>3. n \in Nat /\ n > 0
        <3>0. Len(cmd[p].todo) \in Int
            BY <2>2
        <3>1. IsFiniteSet(1..Len(cmd[p].todo))
          <4>1. QED
              BY ONLY <3>0, FS_Interval
        <3>2. IsFiniteSet(Wanted(p))
            BY <3>1, FS_Subset DEF Wanted
        <3>3. QED
            BY <1>2, <3>2, FS_CardinalityType, FS_EmptySet
    <2>4. todo \in Seq(Entry) /\ Len(todo) = n
        <3>1. \A i \in 1..n : order[i] \in 1..Len(cmd[p].todo)
            BY DEF Wanted
        <3>2. \A i \in 1..n : cmd[p].todo[order[i]] \in Entry
            BY <2>2, <3>1
        <3>3. todo = [i \in 1..n |-> cmd[p].todo[order[i]]]
            OBVIOUS
        <3> HIDE DEF n, todo
        <3>4. QED
            BY <2>3, <3>2, <3>3, IsASeq, LenProperties
    <2>5. c \in Command
        BY <2>2, <2>4 DEF Command, Step
    <2>6. c.step = "list" /\ c.todo = todo /\ c.ids = <<>> /\ c.at = 1
            /\ c.change = cmd[p].change /\ c.log = cmd[p].log
        BY <2>2 DEF Command, CommandSound, Surveying
    <2>7. c.change \notin {"start", "complete"}
        BY <2>2, <2>6 DEF CommandSound, Downloading, Surveying
    <2>8. RepeatsListed(todo)
        <3>1. ASSUME NEW i \in 1..n, NEW j \in 1..n, i # j PROVE order[i] # order[j]
            <4>1. order[i] \in Nat /\ order[j] \in Nat /\ DOMAIN order = 1..n
                BY DEF Wanted
            <4>2. i < j \/ j < i
                BY <2>3, <3>1
            <4>3. QED
                BY <2>1, <4>1, <4>2
        <3>2. \A i \in 1..n : order[i] \in 1..Len(cmd[p].todo) /\ todo[i] = cmd[p].todo[order[i]]
            BY DEF Wanted
        <3>3. RepeatsListed(cmd[p].todo)
            BY <2>2 DEF CommandSound
        <3>4. Len(todo) = n
            BY <2>4
        <3> HIDE DEF n, todo
        <3>5. ASSUME NEW i \in 1..n, NEW j \in 1..n, i # j, todo[i].name = todo[j].name
              PROVE  Repeated(todo[i].name)
            <4>1. /\ order[i] # order[j]
                  /\ order[i] \in 1..Len(cmd[p].todo) /\ order[j] \in 1..Len(cmd[p].todo)
                  /\ todo[i] = cmd[p].todo[order[i]] /\ todo[j] = cmd[p].todo[order[j]]
                BY ONLY <3>1, <3>2, <3>5
            <4>2. QED
                BY ONLY <3>3, <3>5, <4>1 DEF RepeatsListed
        <3>6. QED
            BY ONLY <3>4, <3>5 DEF RepeatsListed
    <2> HIDE DEF c, todo
    <2>9. CommandSound(c, minted, landed)
        BY <2>2, <2>3, <2>4, <2>6, <2>7, <2>8 DEF CommandSound, Surveying, Downloading
    <2>10. QED
        BY <2>1, <2>5, <2>9, Still DEF Survey, c, todo
<1>3. QED
    BY <1>1, <1>2

LEMMA AppendSound ==
    ASSUME NEW c \in Command, NEW given, NEW have, CommandSound(c, given, have),
           c.step = "list", NEW id \in TransferId, NEW given2,
           \A i \in 1..Len(c.ids) : given2[c.ids[i]] = given[c.ids[i]],
           given2[id] = c.todo[Len(c.ids) + 1]
    PROVE  LET ids == Append(c.ids, id) IN
           /\ ids \in Seq(TransferId) /\ ids # <<>>
           /\ Len(ids) <= Len(c.todo)
           /\ \A i \in 1..Len(ids) : given2[ids[i]] = c.todo[i]
           /\ c.at = 1
<1> DEFINE ids == Append(c.ids, id)
<1>1. c.ids \in Seq(TransferId) /\ c.todo \in Seq(Entry) /\ Len(c.ids) < Len(c.todo)
        /\ c.at = 1 /\ \A i \in 1..Len(c.ids) : given2[c.ids[i]] = c.todo[i]
    BY DEF Command, CommandSound, Surveying
<1>2. /\ ids \in Seq(TransferId) /\ ids # <<>> /\ Len(ids) = Len(c.ids) + 1
      /\ \A i \in 1..Len(c.ids) : ids[i] = c.ids[i]
      /\ ids[Len(c.ids) + 1] = id
    BY <1>1, AppendProperties
<1> HIDE DEF ids
<1>3. \A i \in 1..Len(ids) : given2[ids[i]] = c.todo[i]
    <2> SUFFICES ASSUME NEW i \in 1..Len(ids) PROVE given2[ids[i]] = c.todo[i]
        OBVIOUS
    <2>1. CASE i \in 1..Len(c.ids)
        BY <1>1, <1>2, <2>1
    <2>2. CASE i = Len(c.ids) + 1
        <3>1. ids[i] = id /\ c.todo[i] = c.todo[Len(c.ids) + 1]
            BY <1>2, <2>2
        <3>2. QED
            BY <3>1
    <2>3. QED
        BY <1>1, <1>2, <2>1, <2>2
<1>4. QED
    BY <1>1, <1>2, <1>3 DEF ids

(* one more record is there: the next entry's, or the first pull *)
LEMMA PullingSound ==
    ASSUME NEW c \in Command, NEW given, NEW have, c.ids # <<>>,
           Len(c.ids) <= Len(c.todo), c.at = 1, RepeatsListed(c.todo),
           \A i \in 1..Len(c.ids) : given[c.ids[i]] = c.todo[i]
    PROVE  LET d == [c EXCEPT !.step = IF Len(c.ids) < Len(c.todo) THEN "list" ELSE "pull",
                              !.change = "none", !.log = EmptyLog]
           IN  d \in Command /\ CommandSound(d, given, have)
<1> DEFINE d == [c EXCEPT !.step = IF Len(c.ids) < Len(c.todo) THEN "list" ELSE "pull",
                          !.change = "none", !.log = EmptyLog]
<1>1. d \in Command
    BY EmptyLogSound DEF Command, Step, Change
<1>2. d.step = (IF Len(c.ids) < Len(c.todo) THEN "list" ELSE "pull") /\ d.change = "none"
        /\ d.ids = c.ids /\ d.todo = c.todo /\ d.at = 1 /\ d.log = EmptyLog
    BY DEF Command
<1>3. c.ids \in Seq(TransferId) /\ c.todo \in Seq(Entry) /\ Len(c.ids) > 0
    BY LenProperties, EmptySeq DEF Command
<1> HIDE DEF d
<1>4. LogSound(d.log, given, have)
    BY <1>2, EmptyLogSound
<1>5. Downloading(d) => Len(d.ids) = Len(d.todo) /\ d.at \in 1..Len(d.todo)
    BY <1>2, <1>3 DEF Downloading
<1>6. d.step = "list" => Len(d.ids) < Len(d.todo)
    BY <1>2
<1>7. Len(d.ids) <= Len(d.todo) /\ \A i \in 1..Len(d.ids) : given[d.ids[i]] = d.todo[i]
    BY <1>2
<1>8. d.step # "survey" /\ d.change \notin {"start", "complete"} /\ d.at = 1
        /\ RepeatsListed(d.todo)
    BY <1>2
<1>9. CommandSound(d, given, have)
    BY <1>4, <1>5, <1>6, <1>7, <1>8 DEF CommandSound
<1>10. QED
    BY <1>1, <1>9 DEF d

LEMMA ListStep ==
    ASSUME RecvInv, NEW p \in Proc, List(p) PROVE RecvInv'
<1> DEFINE next == cmd[p].todo[Len(cmd[p].ids) + 1]
           found == Adoptable(history, next)
<1>1. cmd[p] \in Command /\ CommandSound(cmd[p], minted, landed) /\ cmd[p].step = "list"
        /\ next \in Entry
    <2>1. cmd[p] \in Command /\ CommandSound(cmd[p], minted, landed) /\ cmd[p].step = "list"
            /\ cmd[p].todo \in Seq(Entry) /\ cmd[p].ids \in Seq(TransferId)
        BY Working DEF List
    <2>2. Len(cmd[p].ids) + 1 \in 1..Len(cmd[p].todo)
        BY <2>1 DEF CommandSound
    <2>3. QED
        BY <2>1, <2>2
<1>2. CASE found # {}
    <2>1. PICK id \in found : Pulling(p, [cmd[p] EXCEPT !.ids = Append(@, id)])
        BY <1>2 DEF List
    <2> DEFINE c == [cmd[p] EXCEPT !.ids = Append(@, id)]
    <2>2. id \in TransferId /\ minted[id] = next
        BY <2>1 DEF RecvInv, LogSound, Adoptable, Resumable, Recorded
    <2>3. c \in Command /\ c.ids = Append(cmd[p].ids, id) /\ c.todo = cmd[p].todo
            /\ c.at = cmd[p].at
        <3>1. Append(cmd[p].ids, id) \in Seq(TransferId)
            BY <2>2, Working, AppendProperties
        <3>2. QED
            BY <1>1, <3>1 DEF Command
    <2>4. c.ids # <<>> /\ Len(c.ids) <= Len(c.todo) /\ c.at = 1
            /\ \A i \in 1..Len(c.ids) : minted[c.ids[i]] = c.todo[i]
        BY <1>1, <2>2, <2>3, AppendSound
    <2>4a. RepeatsListed(c.todo)
        BY <1>1, <2>3 DEF CommandSound
    <2> DEFINE d == [c EXCEPT !.step = IF Len(c.ids) < Len(c.todo) THEN "list" ELSE "pull",
                              !.change = "none", !.log = EmptyLog]
    <2> HIDE DEF c
    <2>5. d \in Command /\ CommandSound(d, minted, landed)
        BY <2>3, <2>4, <2>4a, PullingSound
    <2>6. Become(p, d)
        BY <2>1 DEF Pulling, c
    <2>7. UNCHANGED <<history, disk, minted, landed, unfinished, purged, faults, discards>>
        BY <1>2 DEF List
    <2> HIDE DEF d
    <2>8. QED
        BY <2>5, <2>6, <2>7, Still
<1>3. CASE found = {}
    <2>1. PICK id \in TransferId \ Minted :
             /\ minted' = [minted EXCEPT ![id] = next]
             /\ Become(p, [cmd[p] EXCEPT !.ids = Append(@, id), !.step = "load",
                                         !.change = "start"])
        BY <1>3 DEF List
    <2> DEFINE c == [cmd[p] EXCEPT !.ids = Append(@, id), !.step = "load", !.change = "start"]
    <2>2. minted \in [TransferId -> Entry \cup {NotMinted}] /\ minted[id] = NotMinted
        BY <2>1 DEF RecvInv, RecvTypeOK, Minted
    <2>3. minted' \in [TransferId -> Entry \cup {NotMinted}] /\ minted'[id] = next
            /\ \A i \in TransferId : i # id => minted'[i] = minted[i]
        BY <1>1, <2>1, <2>2
    <2>4. UNCHANGED <<history, disk, landed, unfinished, purged, faults, discards>>
        BY DEF List
    <2>5. Extends(minted, minted', landed, landed')
        BY <2>2, <2>3, <2>4 DEF Extends
    <2>6. c \in Command /\ c.ids = Append(cmd[p].ids, id) /\ c.todo = cmd[p].todo
            /\ c.at = cmd[p].at /\ c.log = cmd[p].log /\ c.step = "load" /\ c.change = "start"
        <3>1. Append(cmd[p].ids, id) \in Seq(TransferId)
            BY Working, AppendProperties
        <3>2. QED
            BY <1>1, <3>1 DEF Command, Step, Change
    <2>7. \A i \in 1..Len(cmd[p].ids) : minted'[cmd[p].ids[i]] = minted[cmd[p].ids[i]]
        <3>1. ASSUME NEW i \in 1..Len(cmd[p].ids)
              PROVE  minted'[cmd[p].ids[i]] = minted[cmd[p].ids[i]]
            <4>1. cmd[p].ids[i] \in TransferId /\ minted[cmd[p].ids[i]] = cmd[p].todo[i]
                BY Working
            <4>2. cmd[p].todo[i] \in Entry
                <5>1. cmd[p].todo \in Seq(Entry) /\ Len(cmd[p].ids) <= Len(cmd[p].todo)
                    BY Working DEF CommandSound
                <5>2. cmd[p].ids \in Seq(TransferId)
                    BY Working
                <5>3. QED
                    BY <5>1, <5>2
            <4>3. QED
                BY <4>1, <4>2, <2>2, <2>3, RecvAssumption
        <3>2. QED
            BY <3>1
    <2>8. c.ids # <<>> /\ Len(c.ids) <= Len(c.todo) /\ c.at = 1
            /\ \A i \in 1..Len(c.ids) : minted'[c.ids[i]] = c.todo[i]
        <3>1. id \in TransferId /\ minted'[id] = next
            BY <2>3
        <3> HIDE DEF c
        <3>2. QED
            BY <1>1, <2>6, <2>7, <3>1, AppendSound
    <2>9. LogSound(c.log, minted', landed')
        <3>1. cmd[p].log \in Log /\ LogSound(cmd[p].log, minted, landed)
            BY Working
        <3>2. QED
            BY <3>1, <2>5, <2>6, LogKept
    <2> HIDE DEF c
    <2>9a. RepeatsListed(c.todo)
        BY <1>1, <2>6 DEF CommandSound
    <2>10. CommandSound(c, minted', landed')
        BY <2>6, <2>8, <2>9, <2>9a DEF CommandSound, Surveying, Downloading
    <2>11. LogSound(history', minted', landed') /\ history' \in Log
        BY <2>4, <2>5, LogKept DEF RecvInv, RecvTypeOK
    <2>12. Minted \subseteq Minted'
        BY <2>2, <2>3, <1>1, RecvAssumption DEF Minted
    <2>13. Become(p, c)
        BY <2>1 DEF c
    <2>14. QED
        BY <2>3, <2>4, <2>5, <2>6, <2>10, <2>11, <2>12, <2>13, Preserved
           DEF RecvInv, RecvTypeOK, Disks
<1>4. QED
    BY <1>2, <1>3

(***************************************************************************)
(* Round trips on the history                                              *)
(***************************************************************************)
LEMMA LoadStep ==
    ASSUME RecvInv, NEW p \in Proc, Load(p) PROVE RecvInv'
<1> DEFINE c == [cmd[p] EXCEPT !.step = "store", !.log = history]
<1>1. cmd[p] \in Command /\ CommandSound(cmd[p], minted, landed) /\ cmd[p].step = "load"
        /\ history \in Log /\ LogSound(history, minted, landed)
    BY Working DEF Load, RecvInv, RecvTypeOK
<1>2. c \in Command
    BY <1>1 DEF Command, Step
<1>3. c.step = "store" /\ c.log = history /\ c.change = cmd[p].change /\ c.at = cmd[p].at
        /\ c.todo = cmd[p].todo /\ c.ids = cmd[p].ids
    BY <1>1 DEF Command
<1>4. Become(p, c)
    BY DEF Load
<1> HIDE DEF c
<1>5. CommandSound(c, minted, landed)
    BY <1>1, <1>3 DEF CommandSound, Surveying, Downloading
<1>6. QED
    BY <1>2, <1>4, <1>5, Still DEF Load

LEMMA StoreStartStep ==
    ASSUME RecvInv, NEW p \in Proc, StoreStart(p) PROVE RecvInv'
<1> DEFINE i == Len(cmd[p].ids)
           c == cmd[p]
           d == [c EXCEPT !.step = IF Len(c.ids) < Len(c.todo) THEN "list" ELSE "pull",
                          !.change = "none", !.log = EmptyLog]
<1>1. /\ c \in Command /\ c.change = "start" /\ c.ids # <<>> /\ c.at = 1
      /\ Len(c.ids) <= Len(c.todo)
      /\ \A j \in 1..Len(c.ids) : minted[c.ids[j]] = c.todo[j]
      /\ c.ids \in Seq(TransferId) /\ c.todo \in Seq(Entry)
      /\ c.log \in Log /\ LogSound(c.log, minted, landed) /\ RepeatsListed(c.todo)
    BY Working DEF StoreStart, CommandSound, Surveying
<1>2. i \in 1..Len(c.ids)
    BY <1>1, LenProperties, EmptySeq
<1>3. c.ids[i] \in TransferId /\ c.todo[i] \in Entry /\ minted[c.ids[i]] = c.todo[i]
    BY <1>1, <1>2
<1>4. history' \in Log /\ LogSound(history', minted, landed)
    BY <1>1, <1>3, InProgressSound DEF StoreStart
<1>5. d \in Command /\ CommandSound(d, minted, landed)
    BY <1>1, PullingSound
<1>6. Become(p, d)
    BY DEF StoreStart, Pulling
<1>7. disk' \in Disks
    BY DEF StoreStart, RecvInv, RecvTypeOK, Disks
<1> HIDE DEF d, c
<1>8. QED
    BY <1>4, <1>5, <1>6, <1>7, Quiet DEF StoreStart

LEMMA AdvanceSound ==
    ASSUME RecvInv, NEW p \in Proc, Downloading(cmd[p]), Advance(p)
    PROVE  \E d \in Command : Become(p, d) /\ CommandSound(d, minted, landed)
<1>1. CASE cmd[p].at = Len(cmd[p].todo)
    BY <1>1, IdleSound DEF Advance, Finish
<1>2. CASE cmd[p].at # Len(cmd[p].todo)
    <2> DEFINE d == [cmd[p] EXCEPT !.step = "pull", !.change = "none", !.at = @ + 1,
                                   !.log = EmptyLog]
    <2>1. /\ cmd[p] \in Command /\ Len(cmd[p].ids) = Len(cmd[p].todo)
          /\ cmd[p].at \in 1..Len(cmd[p].todo)
          /\ cmd[p].todo \in Seq(Entry)
          /\ \A i \in 1..Len(cmd[p].ids) : minted[cmd[p].ids[i]] = cmd[p].todo[i]
          /\ RepeatsListed(cmd[p].todo)
        BY Working, CurrentType DEF CommandSound
    <2>2. d \in Command
        <3>1. cmd[p].at + 1 \in Nat \ {0}
            BY <2>1
        <3>2. EmptyLog \in Log /\ "pull" \in Step /\ "none" \in Change
            BY EmptyLogSound DEF Step, Change
        <3>3. QED
            BY <2>1, <3>1, <3>2 DEF Command
    <2>3. /\ d.step = "pull" /\ d.change = "none" /\ d.at = cmd[p].at + 1
          /\ d.log = EmptyLog /\ d.ids = cmd[p].ids /\ d.todo = cmd[p].todo
        BY <2>1 DEF Command
    <2>4. Become(p, d)
        BY <1>2 DEF Advance
    <2> HIDE DEF d
    <2>5. d.at \in 1..Len(d.todo) /\ Len(d.ids) = Len(d.todo)
        BY <1>2, <2>1, <2>3
    <2>6. LogSound(d.log, minted, landed)
        BY <2>3, EmptyLogSound
    <2>7. Len(d.ids) <= Len(d.todo)
        BY <2>1, <2>3
    <2>8. \A i \in 1..Len(d.ids) : minted[d.ids[i]] = d.todo[i]
        BY <2>1, <2>3
    <2>9. CommandSound(d, minted, landed)
        BY <2>1, <2>3, <2>5, <2>6, <2>7, <2>8 DEF CommandSound, Surveying
    <2>10. QED
        BY <2>2, <2>4, <2>9
<1>3. QED
    BY <1>1, <1>2

(* the id that an entry's completion names is of an entry of that path *)
LEMMA LastOfNameSound ==
    ASSUME RecvInv, NEW p \in Proc, Downloading(cmd[p]), NEW j \in LastOfName(p)
    PROVE  /\ cmd[p].ids[j] \in TransferId /\ cmd[p].ids[j] \in Minted
           /\ minted[cmd[p].ids[j]] \in Entry
           /\ minted[cmd[p].ids[j]].name = Current(p).name
           /\ j = cmd[p].at \/ (j > cmd[p].at /\ Repeated(Current(p).name))
           /\ minted[cmd[p].ids[j]] = Current(p) \/ Repeated(Current(p).name)
<1>1. /\ cmd[p].at \in 1..Len(cmd[p].todo) /\ Len(cmd[p].ids) = Len(cmd[p].todo)
      /\ cmd[p].todo \in Seq(Entry) /\ RepeatsListed(cmd[p].todo)
    BY CurrentType, Working DEF CommandSound
<1>2. /\ j \in 1..Len(cmd[p].todo) /\ cmd[p].todo[j].name = Current(p).name
      /\ cmd[p].at <= j
    BY <1>1 DEF LastOfName, Current
<1>3. cmd[p].ids[j] \in TransferId /\ minted[cmd[p].ids[j]] = cmd[p].todo[j]
        /\ cmd[p].todo[j] \in Entry
    BY <1>1, <1>2, Working
<1>4. cmd[p].ids[j] \in Minted
    BY <1>3, RecvAssumption DEF Minted
<1>5. j = cmd[p].at \/ (j > cmd[p].at /\ Repeated(Current(p).name))
    BY <1>1, <1>2 DEF RepeatsListed, Current
<1>6. QED
    BY <1>2, <1>3, <1>4, <1>5 DEF Current

LEMMA StoreCompletedStep ==
    ASSUME RecvInv, NEW p \in Proc, StoreCompleted(p) PROVE RecvInv'
<1>1. Downloading(cmd[p]) /\ cmd[p].change = "complete"
    BY DEF StoreCompleted, Downloading
<1>2. PICK j \in LastOfName(p) :
         LET id == cmd[p].ids[j]
             log == RecordCompleted(cmd[p].log, id, Current(p))
         IN history' = IF id \in Recorded(log) THEN log ELSE history
    BY DEF StoreCompleted
<1> DEFINE id  == cmd[p].ids[j]
           log == RecordCompleted(cmd[p].log, id, Current(p))
<1>3. id \in TransferId /\ minted[id].name = Current(p).name
        /\ (minted[id] = Current(p) \/ Repeated(Current(p).name))
    BY <1>1, LastOfNameSound
<1>4. Current(p) \in landed /\ cmd[p].log \in Log /\ LogSound(cmd[p].log, minted, landed)
    BY <1>1, Working DEF CommandSound, Current
<1>5. Arrived(minted[id], landed)
    BY <1>3, <1>4 DEF Arrived
<1>6. log \in Log /\ LogSound(log, minted, landed)
    BY <1>3, <1>4, <1>5, CompletedSound
<1>7. history' \in Log /\ LogSound(history', minted, landed)
    BY <1>2, <1>6 DEF RecvInv, RecvTypeOK
<1>8. PICK d \in Command : Become(p, d) /\ CommandSound(d, minted, landed)
    BY <1>1, AdvanceSound DEF StoreCompleted
<1>9. disk' \in Disks
    BY DEF StoreCompleted, RecvInv, RecvTypeOK, Disks
<1>10. QED
    BY <1>7, <1>8, <1>9, Quiet DEF StoreCompleted

LEMMA CompletionFailsStep ==
    ASSUME RecvInv, NEW p \in Proc, CompletionFails(p) PROVE RecvInv'
<1>1. Downloading(cmd[p])
    BY DEF CompletionFails, Downloading
<1>2. UNCHANGED <<history, disk, minted, landed, purged, discards>>
    BY DEF CompletionFails
<1>3. Extends(minted, minted', landed, landed') /\ Minted' = Minted
    BY <1>2, SameExtends DEF Minted
<1>4. PICK j \in LastOfName(p) : unfinished' = unfinished \cup {cmd[p].ids[j]}
    BY DEF CompletionFails
<1>5. unfinished' \subseteq Minted'
    BY <1>1, <1>3, <1>4, LastOfNameSound DEF RecvInv, RecvTypeOK
<1>6. faults' \in 0..MaxFaults
    BY RecvAssumption DEF CompletionFails, RecvInv, RecvTypeOK
<1>7. PICK d \in Command : Become(p, d) /\ CommandSound(d, minted, landed)
    BY <1>1, AdvanceSound DEF CompletionFails
<1>8. CommandSound(d, minted', landed')
    BY <1>2, <1>7
<1>9. history' \in Log /\ LogSound(history', minted', landed')
    BY <1>2 DEF RecvInv, RecvTypeOK
<1>10. QED
    BY <1>2, <1>3, <1>5, <1>6, <1>7, <1>8, <1>9, Preserved
       DEF RecvInv, RecvTypeOK, Disks

(***************************************************************************)
(* Pulls, and the ways they end                                            *)
(***************************************************************************)
LEMMA ReceiveStep ==
    ASSUME RecvInv, NEW p \in Proc, Receive(p) PROVE RecvInv'
<1> DEFINE c == [cmd[p] EXCEPT !.step = "receiving"]
<1>1. cmd[p] \in Command /\ CommandSound(cmd[p], minted, landed) /\ cmd[p].step = "pull"
    BY Working DEF Receive
<1>2. c \in Command
    BY <1>1 DEF Command, Step
<1>3. c.step = "receiving" /\ c.log = cmd[p].log /\ c.change = cmd[p].change
        /\ c.at = cmd[p].at /\ c.todo = cmd[p].todo /\ c.ids = cmd[p].ids
    BY <1>1 DEF Command
<1>4. Become(p, c)
    BY DEF Receive, Goto
<1> HIDE DEF c
<1>5. CommandSound(c, minted, landed)
    BY <1>1, <1>3 DEF CommandSound, Surveying, Downloading
<1>6. disk' \in Disks /\ history' \in Log /\ LogSound(history', minted, landed)
    BY DEF Receive, RecvInv, RecvTypeOK, Disks
<1>7. QED
    BY <1>2, <1>4, <1>5, <1>6, Quiet DEF Receive

LEMMA LandStep ==
    ASSUME RecvInv, NEW p \in Proc, Land(p) PROVE RecvInv'
<1> DEFINE c == [cmd[p] EXCEPT !.step = "load", !.change = "complete"]
<1>1. cmd[p] \in Command /\ CommandSound(cmd[p], minted, landed) /\ Downloading(cmd[p])
        /\ cmd[p].log \in Log
    BY Working DEF Land, Downloading
<1>2. Current(p) \in Entry /\ Current(p).content \in Content
    BY <1>1, CurrentType
<1>3. landed' = landed \cup {Current(p)} /\ UNCHANGED minted
    BY DEF Land
<1>4. Extends(minted, minted', landed, landed')
    BY <1>3 DEF Extends
<1>5. c \in Command
    BY <1>1 DEF Command, Step, Change
<1>6. c.step = "load" /\ c.log = cmd[p].log /\ c.change = "complete"
        /\ c.at = cmd[p].at /\ c.todo = cmd[p].todo /\ c.ids = cmd[p].ids
    BY <1>1 DEF Command
<1>7. CommandSound(cmd[p], minted', landed')
    BY <1>1, <1>4, CommandKept
<1>8. cmd[p].at \in 1..Len(cmd[p].todo) /\ Len(cmd[p].ids) = Len(cmd[p].todo)
        /\ cmd[p].ids \in Seq(TransferId)
    BY <1>1, CurrentType, Working
<1>9. Become(p, c)
    BY DEF Land, RoundTrip
<1>10. c.todo[c.at] \in landed'
    BY <1>3, <1>6 DEF Current
<1> HIDE DEF c
<1>11. CommandSound(c, minted', landed')
    <2>1. \A i \in 1..Len(c.ids) : minted'[c.ids[i]] = c.todo[i]
        BY <1>6, <1>7 DEF CommandSound
    <2>2. LogSound(c.log, minted', landed')
        BY <1>6, <1>7 DEF CommandSound
    <2>3. Len(c.ids) <= Len(c.todo) /\ Len(c.ids) = Len(c.todo) /\ c.at \in 1..Len(c.todo)
        BY <1>6, <1>8
    <2>4. ~Surveying(c) /\ RepeatsListed(c.todo)
        BY <1>1, <1>6 DEF Surveying, CommandSound
    <2>5. QED
        BY <1>6, <1>10, <2>1, <2>2, <2>3, <2>4 DEF CommandSound
<1>12. disk' \in Disks
    <2>1. PICK k \in FreeSlots(p, Current(p).name) :
             disk' = [disk EXCEPT ![p][<<Current(p).name, k>>] = Current(p).content,
                                  ![p][PartPath(Current(p))] = Absent]
        BY DEF Land
    <2> DEFINE once == [disk EXCEPT ![p][<<Current(p).name, k>>] = Current(p).content]
    <2>2. once \in Disks
        BY <1>2 DEF RecvInv, RecvTypeOK, Disks
    <2>3. disk' = [once EXCEPT ![p][PartPath(Current(p))] = Absent]
        BY <2>1
    <2> HIDE DEF once
    <2>4. QED
        BY <2>2, <2>3 DEF Disks
<1>13. history' \in Log /\ LogSound(history', minted', landed')
    <2>1. history' = history /\ history \in Log /\ LogSound(history, minted, landed)
        BY DEF Land, RecvInv, RecvTypeOK
    <2>2. LogSound(history, minted', landed')
        BY <1>4, <2>1, LogKept
    <2>3. QED
        BY <2>1, <2>2
<1>14. Minted' = Minted
    BY <1>3 DEF Minted
<1>15. landed' \in SUBSET Entry
    BY <1>2, <1>3 DEF RecvInv, RecvTypeOK
<1>16. QED
    BY <1>3, <1>4, <1>5, <1>9, <1>11, <1>12, <1>13, <1>14, <1>15, Preserved
       DEF Land, RecvInv, RecvTypeOK

LEMMA FailStep ==
    ASSUME RecvInv, NEW p \in Proc, Fail(p), disk' \in Disks PROVE RecvInv'
<1>1. UNCHANGED <<history, minted, landed, purged, discards>>
    BY DEF Fail
<1>2. Extends(minted, minted', landed, landed')
    BY <1>1, SameExtends
<1>3. Minted' = Minted
    BY <1>1 DEF Minted
<1>4. unfinished' \subseteq Minted'
    BY <1>3, LeftMinted DEF Fail, RecvInv, RecvTypeOK
<1>5. faults' \in 0..MaxFaults
    BY RecvAssumption DEF Fail, RecvInv, RecvTypeOK
<1>6. Become(p, Idle)
    BY DEF Fail, Finish
<1>7. history' \in Log /\ LogSound(history', minted', landed')
    BY <1>1 DEF RecvInv, RecvTypeOK
<1>8. QED
    BY <1>1, <1>2, <1>3, <1>4, <1>5, <1>6, <1>7, IdleSound, Preserved
       DEF RecvInv, RecvTypeOK

LEMMA EndingStep ==
    ASSUME RecvInv, NEW p \in Proc, Lose(p) \/ Drop(p) \/ Cancel(p) \/ Crash(p)
    PROVE  RecvInv'
<1>1. disk \in Disks
    BY DEF RecvInv, RecvTypeOK, Disks
<1>2. CASE Lose(p) \/ Crash(p)
    BY <1>1, <1>2, FailStep DEF Lose, Crash
<1>3. CASE Drop(p)
    <2>1. disk' \in Disks
        BY <1>1, <1>3 DEF Drop, Disks
    <2>2. QED
        BY <1>3, <2>1, FailStep DEF Drop
<1>4. CASE Cancel(p)
    <2>1. disk' \in Disks
        BY <1>1, <1>4 DEF Cancel, Disks
    <2>2. QED
        BY <1>4, <2>1, FailStep DEF Cancel
<1>5. QED
    BY <1>2, <1>3, <1>4

(***************************************************************************)
(* The purge, and the user                                                 *)
(***************************************************************************)
LEMMA StartPurgeStep ==
    ASSUME RecvInv, NEW p \in Proc, StartPurge(p) PROVE RecvInv'
<1> DEFINE c == [cmd[p] EXCEPT !.step = "load", !.change = "purge"]
<1>1. cmd[p] \in Command /\ CommandSound(cmd[p], minted, landed)
    BY Working
<1>2. c \in Command
    BY <1>1 DEF Command, Step, Change
<1>3. c.step = "load" /\ c.log = cmd[p].log /\ c.change = "purge"
        /\ c.at = cmd[p].at /\ c.todo = cmd[p].todo /\ c.ids = cmd[p].ids
    BY <1>1 DEF Command
<1>4. Become(p, c)
    BY DEF StartPurge, RoundTrip
<1> HIDE DEF c
<1>5. CommandSound(c, minted, landed)
    BY <1>1, <1>3 DEF CommandSound, Surveying, Downloading
<1>6. QED
    BY <1>2, <1>4, <1>5, Still DEF StartPurge

LEMMA StorePurgedStep ==
    ASSUME RecvInv, NEW p \in Proc, StorePurged(p) PROVE RecvInv'
<1> DEFINE c == [cmd[p] EXCEPT !.step = "say"]
<1>1. cmd[p] \in Command /\ CommandSound(cmd[p], minted, landed) /\ cmd[p].change = "purge"
    BY Working DEF StorePurged
<1>2. c \in Command
    BY <1>1 DEF Command, Step
<1>3. c.step = "say" /\ c.log = cmd[p].log /\ c.change = "purge"
        /\ c.at = cmd[p].at /\ c.todo = cmd[p].todo /\ c.ids = cmd[p].ids
    BY <1>1 DEF Command
<1>4. Become(p, c)
    BY DEF StorePurged, Goto
<1> HIDE DEF c
<1>5. CommandSound(c, minted, landed)
    BY <1>1, <1>3 DEF CommandSound, Surveying, Downloading
<1>6. history' \in Log /\ LogSound(history', minted, landed) /\ disk' \in Disks
    BY EmptyLogSound DEF StorePurged, RecvInv, RecvTypeOK, Disks
<1>7. QED
    BY <1>2, <1>4, <1>5, <1>6, Quiet DEF StorePurged

LEMMA ReportPurgedStep ==
    ASSUME RecvInv, NEW p \in Proc, ReportPurged(p) PROVE RecvInv'
<1>1. UNCHANGED <<history, disk, minted, landed, unfinished, faults, discards>>
    BY DEF ReportPurged
<1>2. Extends(minted, minted', landed, landed')
    BY <1>1, SameExtends
<1>3. Minted' = Minted
    BY <1>1 DEF Minted
<1>4. Recorded(cmd[p].log) \subseteq Minted
    <2> SUFFICES ASSUME NEW id \in Recorded(cmd[p].log) PROVE id \in Minted
        OBVIOUS
    <2>1. cmd[p].log \in Log /\ LogSound(cmd[p].log, minted, landed)
        BY Working
    <2>2. id \in TransferId /\ cmd[p].log[id].entry \in Entry
        BY <2>1, LogType
    <2>3. cmd[p].log[id].entry = minted[id]
        BY <2>1 DEF LogSound
    <2>4. QED
        BY <2>2, <2>3, RecvAssumption DEF Minted
<1>5. purged' \subseteq Minted'
    BY <1>3, <1>4 DEF ReportPurged, RecvInv, RecvTypeOK
<1>6. Become(p, Idle)
    BY DEF ReportPurged, Finish
<1>7. history' \in Log /\ LogSound(history', minted', landed')
    BY <1>1 DEF RecvInv, RecvTypeOK
<1>8. QED
    BY <1>1, <1>2, <1>3, <1>5, <1>6, <1>7, IdleSound, Preserved
       DEF RecvInv, RecvTypeOK, Disks

LEMMA DiscardStep ==
    ASSUME RecvInv, NEW p \in Proc, NEW path \in Path, Discard(p, path) PROVE RecvInv'
<1>1. UNCHANGED <<history, cmd, minted, landed, unfinished, purged, faults>>
    BY DEF Discard
<1>2. disk' \in [Proc -> [Path -> Content \cup {Absent, Partial, Own}]]
        /\ discards' \in 0..MaxDiscards
    BY RecvAssumption DEF Discard, RecvInv, RecvTypeOK
<1>3. RecvTypeOK'
    BY <1>1, <1>2 DEF RecvInv, RecvTypeOK, Minted
<1>4. QED
    BY <1>1, <1>3 DEF RecvInv

LEMMA RecvInvStep == RecvInv /\ [Next]_vars => RecvInv'
<1> SUFFICES ASSUME RecvInv, [Next]_vars PROVE RecvInv'
    OBVIOUS
<1>1. CASE UNCHANGED vars
    BY <1>1 DEF vars, RecvInv, RecvTypeOK, Minted
<1>2. ASSUME NEW p \in Proc, NEW ticket \in Ticket, StartRecv(p, ticket) PROVE RecvInv'
    BY <1>2, StartRecvStep
<1>3. ASSUME NEW p \in Proc, Progress(p) PROVE RecvInv'
    BY <1>3, SurveyStep, ListStep, LoadStep, StoreStartStep, StoreCompletedStep, ReceiveStep,
       LandStep, StorePurgedStep, ReportPurgedStep DEF Progress
<1>4. ASSUME NEW p \in Proc, StartPurge(p) PROVE RecvInv'
    BY <1>4, StartPurgeStep
<1>5. ASSUME NEW p \in Proc, Lose(p) \/ Drop(p) \/ Cancel(p) \/ Crash(p) PROVE RecvInv'
    BY <1>5, EndingStep
<1>6. ASSUME NEW p \in Proc, NEW path \in Path, Discard(p, path) PROVE RecvInv'
    BY <1>6, DiscardStep
<1>7. ASSUME NEW p \in Proc, CompletionFails(p) PROVE RecvInv'
    BY <1>7, CompletionFailsStep
<1>8. QED
    BY <1>1, <1>2, <1>3, <1>4, <1>5, <1>6, <1>7 DEF Next

(* The ids, entries, files and copies of any recvs and purges stay in step, *)
(* whatever overlaps and whatever fails.                                    *)
THEOREM RecvInvariant == Spec => []RecvInv
<1>1. QED
    BY RecvInvInit, RecvInvStep, PTL DEF Spec

(* Every file, copy and command keeps its type (Recv's state).              *)
THEOREM RecvTypeCorrect == Spec => []RecvTypeOK
<1>1. RecvInv => RecvTypeOK
    BY DEF RecvInv
<1>2. QED
    BY <1>1, RecvInvariant, PTL

(* A completed record is of an entry that was verified and placed, under    *)
(* any overlap of round trips on the history (record_completed, adoption);  *)
(* where a folder repeats a path, of an entry whose path has such a file.   *)
THEOREM CompletedHasLanded == Spec => []CompletedLanded
<1>1. RecvInv => CompletedLanded
    <2> SUFFICES ASSUME RecvInv, NEW id \in Recorded(history) \ Resumable(history)
                 PROVE  Arrived(history[id].entry, landed)
        BY DEF CompletedLanded
    <2>1. history \in Log /\ LogSound(history, minted, landed)
        BY DEF RecvInv, RecvTypeOK
    <2>2. history[id].state = "completed"
        BY <2>1, LogType DEF Resumable
    <2>3. QED
        BY <2>1, <2>2 DEF LogSound
<1>2. QED
    BY <1>1, RecvInvariant, PTL

-----------------------------------------------------------------------------
(***************************************************************************)
(* The inductive invariant of SerialSpec.  A copy about to be written back *)
(* is the file as it is; an id that is given out and not yet recorded is   *)
(* nobody else's, and no purge has seen it.                                *)
(***************************************************************************)
LeftOf(c) == {c.ids[i] : i \in c.at..Len(c.ids)}

Pending(c) == IF c.change = "start" THEN {c.ids[Len(c.ids)]} ELSE {}

(* purged, and reported so or about to be *)
Gone == {id \in TransferId :
            \/ id \in purged
            \/ \E p \in Proc : cmd[p].step = "say" /\ id \in Recorded(cmd[p].log)}

OriginKept == \A id \in Resumable(history) :
    \/ Repeated(history[id].entry.name)
    \/ id \in unfinished
    \/ \E p \in Proc : id \in LeftOf(cmd[p])

CopiesCurrent == \A p \in Proc : cmd[p].step = "store" => cmd[p].log = history

NothingLeft == \A p \in Proc :
    cmd[p].step \in {"idle", "say"} \/ cmd[p].change = "purge" => cmd[p].ids = <<>>

PendingFresh == \A p \in Proc :
    /\ Pending(cmd[p]) \cap (Gone \cup Recorded(history)) = {}
    /\ \A q \in Proc : q # p => Pending(cmd[p]) \cap Pending(cmd[q]) = {}

SerialInv ==
    /\ RecvInv
    /\ Solo
    /\ CopiesCurrent
    /\ NothingLeft
    /\ Gone \cap Recorded(history) = {}
    /\ PendingFresh
    /\ OriginKept

LEMMA LeftIs ==
    ASSUME NEW p \in Proc, cmd[p] \in Command
    PROVE  Left(p) = LeftOf(cmd[p])
<1> DEFINE c == cmd[p]
           rest == SubSeq(c.ids, c.at, Len(c.ids))
<1>1. c.ids \in Seq(TransferId) /\ c.at \in Nat \ {0}
    BY DEF Command
<1>2. ASSUME NEW id \in Left(p) PROVE id \in LeftOf(c)
    <2>1. PICK i \in 1..Len(rest) : id = rest[i]
        BY <1>2 DEF Left, IdRange
    <2>2. id = c.ids[c.at + i - 1] /\ c.at + i - 1 \in c.at..Len(c.ids)
        <3> DEFINE m == c.at
                   n == Len(c.ids)
                   s == c.ids
        <3>1. /\ s \in Seq(TransferId) /\ m \in Nat \ {0} /\ n \in Nat /\ n = Len(s)
              /\ rest = SubSeq(s, m, n)
            BY <1>1
        <3> HIDE DEF m, n, s, rest
        <3>2. m <= n
            <4>1. CASE m > n
                <5>1. SubSeq(s, m, n) = << >>
                    BY <3>1, <4>1
                <5>2. QED
                    BY <2>1, <3>1, <5>1
            <4>2. QED
                BY <3>1, <4>1
        <3>3. \A k \in m..n : s[k] \in TransferId
            BY <3>1
        <3>4. /\ Len(SubSeq(s, m, n)) = IF m <= n THEN n - m + 1 ELSE 0
              /\ \A k \in 1..(n - m + 1) : SubSeq(s, m, n)[k] = s[m + k - 1]
            BY <3>1, <3>2, <3>3, SubSeqProperties
        <3>5. i \in 1..(n - m + 1)
            BY <2>1, <3>1, <3>2, <3>4
        <3>6. rest[i] = s[m + i - 1] /\ m + i - 1 \in m..n
            BY <3>1, <3>4, <3>5
        <3>7. QED
            BY <2>1, <3>6 DEF m, n, s
    <2>3. QED
        BY <2>2 DEF LeftOf
<1>3. ASSUME NEW id \in LeftOf(c) PROVE id \in Left(p)
    <2>1. PICK i \in c.at..Len(c.ids) : id = c.ids[i]
        BY <1>3 DEF LeftOf
    <2> DEFINE j == i - c.at + 1
    <2>2. j \in 1..(Len(c.ids) - c.at + 1) /\ c.at + j - 1 = i /\ c.at <= Len(c.ids)
        <3>1. c.at \in Nat \ {0} /\ Len(c.ids) \in Nat
            BY <1>1
        <3> HIDE DEF c
        <3>2. QED
            BY <2>1, <3>1
    <2>3. /\ Len(rest) = Len(c.ids) - c.at + 1
          /\ \A k \in 1..(Len(c.ids) - c.at + 1) : rest[k] = c.ids[c.at + k - 1]
        <3> DEFINE m == c.at
                   n == Len(c.ids)
                   s == c.ids
        <3>1. m \in Int /\ n \in Int /\ m <= n /\ \A k \in m..n : s[k] \in TransferId
            BY <1>1, <2>2
        <3> HIDE DEF m, n, s
        <3>2. /\ Len(SubSeq(s, m, n)) = IF m <= n THEN n - m + 1 ELSE 0
              /\ \A k \in 1..(n - m + 1) : SubSeq(s, m, n)[k] = s[m + k - 1]
            BY <3>1, SubSeqProperties
        <3>3. QED
            BY <3>1, <3>2 DEF m, n, s
    <2> HIDE DEF j, rest
    <2>4. j \in 1..Len(rest) /\ rest[j] = c.ids[i]
        BY <2>2, <2>3
    <2>5. QED
        BY <2>1, <2>4 DEF Left, IdRange, rest
<1>4. QED
    BY <1>2, <1>3

(* all ids in the files, the copies and the purges have been given out *)
LEMMA KnownIds ==
    ASSUME RecvInv
    PROVE  /\ Recorded(history) \subseteq Minted
           /\ Gone \subseteq Minted
           /\ \A p \in Proc : Pending(cmd[p]) \subseteq Minted
<1>1. ASSUME NEW log \in Log, LogSound(log, minted, landed), NEW id \in Recorded(log)
      PROVE  id \in Minted
    <2>1. id \in TransferId /\ log[id].entry \in Entry /\ log[id].entry = minted[id]
        BY <1>1, LogType DEF LogSound
    <2>2. QED
        BY <2>1, RecvAssumption DEF Minted
<1>2. Recorded(history) \subseteq Minted
    BY <1>1 DEF RecvInv, RecvTypeOK
<1>3. ASSUME NEW p \in Proc PROVE Recorded(cmd[p].log) \subseteq Minted
    BY <1>1, Working
<1>4. Gone \subseteq Minted
    BY <1>3 DEF Gone, RecvInv, RecvTypeOK
<1>5. ASSUME NEW p \in Proc, NEW id \in Pending(cmd[p]) PROVE id \in Minted
    <2> DEFINE n == Len(cmd[p].ids)
    <2>1. cmd[p].ids \in Seq(TransferId) /\ cmd[p].ids # <<>> /\ id = cmd[p].ids[n]
            /\ cmd[p].todo \in Seq(Entry) /\ n <= Len(cmd[p].todo)
        BY <1>5, Working DEF Pending, CommandSound
    <2>2. n \in 1..n /\ n \in 1..Len(cmd[p].todo)
        BY <2>1, LenProperties, EmptySeq
    <2>3. id \in TransferId /\ minted[id] = cmd[p].todo[n] /\ cmd[p].todo[n] \in Entry
        BY <2>1, <2>2, Working
    <2>4. QED
        BY <2>3, RecvAssumption DEF Minted
<1>6. QED
    BY <1>2, <1>4, <1>5

LEMMA SerialInit == Init => SerialInv
<1> SUFFICES ASSUME Init PROVE SerialInv
    OBVIOUS
<1>1. RecvInv
    BY RecvInvInit
<1>2. \A p \in Proc : cmd[p] = Idle
    BY DEF Init
<1>3. \A p \in Proc : cmd[p].step = "idle" /\ cmd[p].change = "none" /\ cmd[p].ids = <<>>
    BY <1>2 DEF Idle
<1>4. Recorded(history) = {} /\ Resumable(history) = {}
    BY DEF Init, EmptyLog, Recorded, Resumable
<1>5. \A p \in Proc : Pending(cmd[p]) = {}
    BY <1>3 DEF Pending
<1>6. Solo /\ CopiesCurrent /\ NothingLeft
    BY <1>3 DEF Solo, CopiesCurrent, NothingLeft
<1>7. PendingFresh /\ OriginKept
    BY <1>4, <1>5 DEF PendingFresh, OriginKept
<1>8. QED
    BY <1>1, <1>4, <1>6, <1>7 DEF SerialInv

(* what a step of one process has to show *)
LEMMA SerialFrame ==
    ASSUME SerialInv, RecvInv', Solo', NEW p \in Proc, NEW c, Become(p, c),
           c.step = "store" => c.log = history',
           c.step \in {"idle", "say"} \/ c.change = "purge" => c.ids = <<>>,
           history' = history \/ cmd[p].step = "store",
           Gone' \cap Recorded(history') = {},
           Pending(c) \cap (Gone' \cup Recorded(history')) = {},
           \A q \in Proc : q # p => /\ Pending(cmd[q]) \cap (Gone' \cup Recorded(history')) = {}
                                    /\ Pending(c) \cap Pending(cmd[q]) = {},
           \A id \in Resumable(history') :
               \/ Repeated(history'[id].entry.name)
               \/ id \in unfinished' \/ id \in LeftOf(c)
               \/ \E q \in Proc : q # p /\ id \in LeftOf(cmd[q])
    PROVE  SerialInv'
<1>1. cmd'[p] = c /\ \A q \in Proc : q # p => cmd'[q] = cmd[q]
    BY DEF Become, SerialInv, RecvInv, RecvTypeOK
<1>2. CopiesCurrent'
    <2> SUFFICES ASSUME NEW q \in Proc, q # p, cmd[q].step = "store"
                 PROVE  cmd[q].log = history'
        BY <1>1 DEF CopiesCurrent
    <2>1. cmd[p].step # "store"
        BY DEF SerialInv, Solo
    <2>2. QED
        BY <2>1 DEF SerialInv, CopiesCurrent
<1>3. NothingLeft'
    BY <1>1 DEF SerialInv, NothingLeft
<1>4. PendingFresh'
    BY <1>1 DEF SerialInv, PendingFresh
<1>5. OriginKept'
    BY <1>1 DEF OriginKept
<1>6. QED
    BY <1>2, <1>3, <1>4, <1>5 DEF SerialInv

QuietCommand(c, log) ==
    /\ c.step # "say"
    /\ c.step = "store" => c.log = log
    /\ c.step \in {"idle", "say"} \/ c.change = "purge" => c.ids = <<>>

(* ... when it neither writes the history, mints, nor purges *)
LEMMA SerialQuiet ==
    ASSUME SerialInv, RecvInv', Solo', NEW p \in Proc, NEW c, Become(p, c),
           history' = history, purged' = purged,
           QuietCommand(c, history), Pending(c) \subseteq Pending(cmd[p]),
           unfinished \subseteq unfinished', LeftOf(cmd[p]) \subseteq LeftOf(c) \cup unfinished'
    PROVE  SerialInv'
<1>0. /\ c.step # "say"
      /\ c.step = "store" => c.log = history'
      /\ c.step \in {"idle", "say"} \/ c.change = "purge" => c.ids = <<>>
    BY DEF QuietCommand
<1>1. cmd'[p] = c /\ \A q \in Proc : q # p => cmd'[q] = cmd[q]
    BY DEF Become, SerialInv, RecvInv, RecvTypeOK
<1>2. Gone' \subseteq Gone
    BY <1>0, <1>1 DEF Gone
<1>3. Gone' \cap Recorded(history') = {}
    BY <1>2 DEF SerialInv
<1>4. Pending(c) \cap (Gone' \cup Recorded(history')) = {}
    BY <1>2 DEF SerialInv, PendingFresh
<1>5. ASSUME NEW q \in Proc, q # p
      PROVE  /\ Pending(cmd[q]) \cap (Gone' \cup Recorded(history')) = {}
             /\ Pending(c) \cap Pending(cmd[q]) = {}
    BY <1>2, <1>5 DEF SerialInv, PendingFresh
<1>6. ASSUME NEW id \in Resumable(history')
      PROVE  \/ Repeated(history'[id].entry.name)
             \/ id \in unfinished' \/ id \in LeftOf(c)
             \/ \E q \in Proc : q # p /\ id \in LeftOf(cmd[q])
    BY <1>6 DEF SerialInv, OriginKept
<1>7. QED
    BY <1>0, <1>3, <1>4, <1>5, <1>6, SerialFrame

(***************************************************************************)
(* The steps                                                               *)
(***************************************************************************)
LEMMA SurveyOrListed ==
    ASSUME RecvInv, NEW p \in Proc, cmd[p].step = "list"
    PROVE  cmd[p].at = 1 /\ cmd[p].ids \in Seq(TransferId) /\ cmd[p] \in Command
BY Working DEF CommandSound, Surveying

LEMMA AppendLeft ==
    ASSUME NEW c \in Command, c.at = 1, NEW id \in TransferId, NEW d,
           d.at = 1, d.ids = Append(c.ids, id)
    PROVE  LeftOf(d) = LeftOf(c) \cup {id}
<1>1. c.ids \in Seq(TransferId)
    BY DEF Command
<1>2. /\ Len(d.ids) = Len(c.ids) + 1
      /\ \A i \in 1..Len(c.ids) : d.ids[i] = c.ids[i]
      /\ d.ids[Len(c.ids) + 1] = id
    BY <1>1, AppendProperties
<1>3. Len(c.ids) \in Nat
    BY <1>1
<1>4. ASSUME NEW x \in LeftOf(d) PROVE x \in LeftOf(c) \cup {id}
    <2>1. PICK i \in 1..Len(d.ids) : x = d.ids[i]
        BY <1>4 DEF LeftOf
    <2>2. CASE i = Len(c.ids) + 1
        BY <1>2, <2>1, <2>2
    <2>3. CASE i # Len(c.ids) + 1
        BY <1>2, <1>3, <2>1, <2>3 DEF LeftOf
    <2>4. QED
        BY <2>2, <2>3
<1>5. ASSUME NEW x \in LeftOf(c) PROVE x \in LeftOf(d)
    <2>1. PICK i \in 1..Len(c.ids) : x = c.ids[i]
        BY <1>5 DEF LeftOf
    <2>2. i \in 1..Len(d.ids) /\ d.ids[i] = x
        BY <1>2, <1>3, <2>1
    <2>3. QED
        BY <2>2 DEF LeftOf
<1>6. id \in LeftOf(d)
    <2>1. Len(c.ids) + 1 \in 1..Len(d.ids)
        BY <1>2, <1>3
    <2>2. QED
        BY <1>2, <2>1 DEF LeftOf
<1>7. QED
    BY <1>4, <1>5, <1>6

LEMMA IdleQuiet ==
    ASSUME SerialInv, RecvInv', Solo', NEW p \in Proc, Become(p, Idle),
           history' = history, purged' = purged, unfinished \subseteq unfinished',
           LeftOf(cmd[p]) \subseteq unfinished'
    PROVE  SerialInv'
<1>1. Idle.step = "idle" /\ Idle.change = "none" /\ Idle.ids = <<>>
    BY DEF Idle
<1>2. Pending(Idle) \subseteq Pending(cmd[p])
    BY <1>1 DEF Pending
<1>3. QuietCommand(Idle, history)
    BY <1>1 DEF QuietCommand
<1>4. LeftOf(cmd[p]) \subseteq LeftOf(Idle) \cup unfinished'
    OBVIOUS
<1>5. QED
    BY <1>2, <1>3, <1>4, SerialQuiet

LEMMA EmptyLeft ==
    ASSUME NEW c, c.ids = <<>>, c.at \in Nat \ {0} PROVE LeftOf(c) = {}
BY DEF LeftOf

(* ids of commands that begin, or only purge *)
LEMMA NoneLeft ==
    ASSUME SerialInv, NEW p \in Proc,
           cmd[p].step \in {"idle", "survey", "say"} \/ cmd[p].change = "purge"
    PROVE  cmd[p].ids = <<>> /\ LeftOf(cmd[p]) = {}
<1>1. cmd[p].ids = <<>>
    BY Working DEF SerialInv, NothingLeft, CommandSound
<1>2. cmd[p].at \in Nat \ {0}
    BY Working DEF SerialInv, Command
<1>3. QED
    BY <1>1, <1>2, EmptyLeft

LEMMA SerialStartRecv ==
    ASSUME SerialInv, RecvInv', Solo', NEW p \in Proc, NEW ticket \in Ticket,
           StartRecv(p, ticket)
    PROVE  SerialInv'
<1> DEFINE c == [Idle EXCEPT !.step = IF ticket.folder THEN "survey" ELSE "list",
                             !.folder = ticket.folder, !.todo = ticket.entries]
<1>1. c.step = (IF ticket.folder THEN "survey" ELSE "list") /\ c.change = "none"
    BY DEF Idle
<1>2. Become(p, c) /\ UNCHANGED <<history, purged, unfinished>> /\ cmd[p].step = "idle"
    BY DEF StartRecv
<1> HIDE DEF c
<1>3. Pending(c) = {} /\ LeftOf(cmd[p]) = {}
    BY <1>1, <1>2, NoneLeft DEF Pending
<1>4. QuietCommand(c, history)
    BY <1>1 DEF QuietCommand
<1>5. QED
    BY <1>2, <1>3, <1>4, SerialQuiet

LEMMA SerialSurvey ==
    ASSUME SerialInv, RecvInv', Solo', NEW p \in Proc, Survey(p) PROVE SerialInv'
<1>1. UNCHANGED <<history, purged, unfinished>> /\ cmd[p].step = "survey"
        /\ cmd[p] \in Command
    BY Working DEF Survey, SerialInv
<1>2. LeftOf(cmd[p]) = {} /\ cmd[p].ids = <<>>
    BY <1>1, NoneLeft
<1>3. CASE Wanted(p) = {}
    BY <1>1, <1>2, <1>3, IdleQuiet DEF Survey, Finish
<1>4. CASE Wanted(p) # {}
    <2>1. PICK todo : Become(p, [cmd[p] EXCEPT !.step = "list", !.todo = todo])
        BY <1>4 DEF Survey
    <2> DEFINE c == [cmd[p] EXCEPT !.step = "list", !.todo = todo]
    <2>2. c.step = "list" /\ c.change = cmd[p].change /\ c.ids = cmd[p].ids
        BY <1>1 DEF Command
    <2>3. Become(p, c)
        BY <2>1
    <2> HIDE DEF c
    <2>4. Pending(c) = Pending(cmd[p])
        BY <2>2 DEF Pending
    <2>5. QuietCommand(c, history)
        BY <1>2, <2>2 DEF QuietCommand
    <2>6. QED
        BY <1>1, <1>2, <2>3, <2>4, <2>5, SerialQuiet
<1>5. QED
    BY <1>3, <1>4

LEMMA SerialList ==
    ASSUME SerialInv, RecvInv', Solo', NEW p \in Proc, List(p) PROVE SerialInv'
<1> DEFINE next == cmd[p].todo[Len(cmd[p].ids) + 1]
           found == Adoptable(history, next)
<1>1. UNCHANGED <<history, purged, unfinished>>
    BY DEF List
<1>2. cmd[p] \in Command /\ cmd[p].at = 1 /\ cmd[p].ids \in Seq(TransferId)
    BY SurveyOrListed DEF List, SerialInv
<1>3. CASE found # {}
    <2>1. PICK id \in found : Pulling(p, [cmd[p] EXCEPT !.ids = Append(@, id)])
        BY <1>3 DEF List
    <2> DEFINE b == [cmd[p] EXCEPT !.ids = Append(@, id)]
               c == [b EXCEPT !.step = IF Len(b.ids) < Len(b.todo) THEN "list" ELSE "pull",
                              !.change = "none", !.log = EmptyLog]
    <2>2. id \in TransferId
        BY <2>1 DEF Adoptable, Resumable, Recorded
    <2>3. Become(p, c)
        BY <2>1 DEF Pulling
    <2>4. /\ c.step = (IF Len(b.ids) < Len(b.todo) THEN "list" ELSE "pull")
          /\ c.change = "none" /\ c.ids = Append(cmd[p].ids, id) /\ c.at = 1
        BY <1>2 DEF Command
    <2> HIDE DEF b, c
    <2>5. QuietCommand(c, history)
        BY <2>4 DEF QuietCommand
    <2>6. Pending(c) = {}
        BY <2>4 DEF Pending
    <2>7. LeftOf(cmd[p]) \subseteq LeftOf(c)
        BY <1>2, <2>2, <2>4, AppendLeft
    <2>8. QED
        BY <1>1, <2>3, <2>5, <2>6, <2>7, SerialQuiet
<1>4. CASE found = {}
    <2>1. PICK id \in TransferId \ Minted :
             Become(p, [cmd[p] EXCEPT !.ids = Append(@, id), !.step = "load",
                                      !.change = "start"])
        BY <1>4 DEF List
    <2> DEFINE c == [cmd[p] EXCEPT !.ids = Append(@, id), !.step = "load", !.change = "start"]
    <2>2. c.step = "load" /\ c.change = "start" /\ c.ids = Append(cmd[p].ids, id) /\ c.at = 1
        BY <1>2 DEF Command
    <2>3. Become(p, c)
        BY <2>1
    <2> HIDE DEF c
    <2>4. c.ids[Len(c.ids)] = id
        BY <1>2, <2>1, <2>2, AppendProperties
    <2>5. Pending(c) = {id}
        BY <2>2, <2>4 DEF Pending
    <2>6. LeftOf(cmd[p]) \subseteq LeftOf(c)
        BY <1>2, <2>1, <2>2, AppendLeft
    <2>7. cmd'[p] = c /\ \A q \in Proc : q # p => cmd'[q] = cmd[q]
        BY <2>3 DEF Become, SerialInv, RecvInv, RecvTypeOK
    <2>8. Gone' \subseteq Gone
        BY <1>1, <2>2, <2>7 DEF Gone
    <2>9. id \notin Gone \cup Recorded(history) /\ \A q \in Proc : id \notin Pending(cmd[q])
        BY <2>1, KnownIds DEF SerialInv
    <2>10. Gone' \cap Recorded(history') = {}
        BY <1>1, <2>8 DEF SerialInv
    <2>11. Pending(c) \cap (Gone' \cup Recorded(history')) = {}
        BY <1>1, <2>5, <2>8, <2>9
    <2>12. ASSUME NEW q \in Proc, q # p
           PROVE  /\ Pending(cmd[q]) \cap (Gone' \cup Recorded(history')) = {}
                  /\ Pending(c) \cap Pending(cmd[q]) = {}
        BY <1>1, <2>5, <2>8, <2>9 DEF SerialInv, PendingFresh
    <2>13. ASSUME NEW x \in Resumable(history')
           PROVE  \/ Repeated(history'[x].entry.name)
                  \/ x \in unfinished' \/ x \in LeftOf(c)
                  \/ \E q \in Proc : q # p /\ x \in LeftOf(cmd[q])
        BY <1>1, <2>6, <2>13 DEF SerialInv, OriginKept
    <2>14. QED
        BY <1>1, <2>2, <2>3, <2>10, <2>11, <2>12, <2>13, SerialFrame
<1>5. QED
    BY <1>3, <1>4

(* a step that only moves a command on: its ids and place stay *)
LEMMA SerialGoto ==
    ASSUME SerialInv, RecvInv', Solo', NEW p \in Proc, NEW c, Become(p, c),
           UNCHANGED <<history, purged, unfinished>>, QuietCommand(c, history),
           c.ids = cmd[p].ids, c.at = cmd[p].at,
           c.change = cmd[p].change \/ c.change # "start"
    PROVE  SerialInv'
<1>1. Pending(c) \subseteq Pending(cmd[p])
    BY DEF Pending
<1>2. LeftOf(c) = LeftOf(cmd[p])
    BY DEF LeftOf
<1>3. QED
    BY <1>1, <1>2, SerialQuiet

LEMMA SerialLoad ==
    ASSUME SerialInv, RecvInv', Solo', NEW p \in Proc, Load(p) PROVE SerialInv'
<1> DEFINE c == [cmd[p] EXCEPT !.step = "store", !.log = history]
<1>1. cmd[p] \in Command
    BY Working DEF SerialInv
<1>2. c.step = "store" /\ c.log = history /\ c.change = cmd[p].change /\ c.at = cmd[p].at
        /\ c.ids = cmd[p].ids
    BY <1>1 DEF Command
<1>3. Become(p, c) /\ UNCHANGED <<history, purged, unfinished>>
    BY DEF Load
<1> HIDE DEF c
<1>4. QuietCommand(c, history)
    BY <1>2 DEF QuietCommand, SerialInv, NothingLeft
<1>5. QED
    BY <1>2, <1>3, <1>4, SerialGoto

LEMMA SerialReceive ==
    ASSUME SerialInv, RecvInv', Solo', NEW p \in Proc, Receive(p) PROVE SerialInv'
<1> DEFINE c == [cmd[p] EXCEPT !.step = "receiving"]
<1>1. cmd[p] \in Command
    BY Working DEF SerialInv
<1>2. c.step = "receiving" /\ c.change = cmd[p].change /\ c.at = cmd[p].at
        /\ c.ids = cmd[p].ids
    BY <1>1 DEF Command
<1>3. Become(p, c) /\ UNCHANGED <<history, purged, unfinished>>
    BY DEF Receive, Goto
<1> HIDE DEF c
<1>4. QuietCommand(c, history)
    BY <1>2 DEF QuietCommand, SerialInv, NothingLeft
<1>5. QED
    BY <1>2, <1>3, <1>4, SerialGoto

LEMMA SerialLand ==
    ASSUME SerialInv, RecvInv', Solo', NEW p \in Proc, Land(p) PROVE SerialInv'
<1> DEFINE c == [cmd[p] EXCEPT !.step = "load", !.change = "complete"]
<1>1. cmd[p] \in Command
    BY Working DEF SerialInv
<1>2. c.step = "load" /\ c.change = "complete" /\ c.at = cmd[p].at /\ c.ids = cmd[p].ids
    BY <1>1 DEF Command
<1>3. Become(p, c) /\ UNCHANGED <<history, purged, unfinished>>
    BY DEF Land, RoundTrip
<1> HIDE DEF c
<1>4. QuietCommand(c, history) /\ c.change # "start"
    BY <1>2 DEF QuietCommand
<1>5. QED
    BY <1>2, <1>3, <1>4, SerialGoto

LEMMA SerialStartPurge ==
    ASSUME SerialInv, RecvInv', Solo', NEW p \in Proc, StartPurge(p) PROVE SerialInv'
<1> DEFINE c == [cmd[p] EXCEPT !.step = "load", !.change = "purge"]
<1>1. cmd[p] \in Command /\ cmd[p].ids = <<>>
    BY Working, NoneLeft DEF SerialInv, StartPurge
<1>2. c.step = "load" /\ c.change = "purge" /\ c.at = cmd[p].at /\ c.ids = cmd[p].ids
    BY <1>1 DEF Command
<1>3. Become(p, c) /\ UNCHANGED <<history, purged, unfinished>>
    BY DEF StartPurge, RoundTrip
<1> HIDE DEF c
<1>4. QuietCommand(c, history) /\ c.change # "start"
    BY <1>1, <1>2 DEF QuietCommand
<1>5. QED
    BY <1>2, <1>3, <1>4, SerialGoto

LEMMA SerialFail ==
    ASSUME SerialInv, RecvInv', Solo', NEW p \in Proc, Fail(p) PROVE SerialInv'
<1>1. Left(p) = LeftOf(cmd[p])
    BY Working, LeftIs DEF SerialInv
<1>2. Become(p, Idle) /\ history' = history /\ purged' = purged
        /\ unfinished' = unfinished \cup LeftOf(cmd[p])
    BY <1>1 DEF Fail, Finish
<1>3. QED
    BY <1>2, IdleQuiet

(***************************************************************************)
(* The steps that write the history, and the purge's report                *)
(***************************************************************************)
LEMMA SerialStoreStart ==
    ASSUME SerialInv, RecvInv', Solo', NEW p \in Proc, StoreStart(p) PROVE SerialInv'
<1> DEFINE b == cmd[p]
           c == [b EXCEPT !.step = IF Len(b.ids) < Len(b.todo) THEN "list" ELSE "pull",
                          !.change = "none", !.log = EmptyLog]
           n == Len(b.ids)
           id == b.ids[n]
<1>1. b \in Command /\ b.step = "store" /\ b.change = "start" /\ b.log = history /\ b.at = 1
        /\ b.ids \in Seq(TransferId) /\ b.ids # <<>>
    BY Working DEF StoreStart, SerialInv, CopiesCurrent, CommandSound, Surveying
<1>2. n \in 1..n /\ id \in TransferId
    BY <1>1, LenProperties, EmptySeq
<1>3. Become(p, c) /\ UNCHANGED <<purged, unfinished>>
    BY DEF StoreStart, Pulling
<1>4. history' = RecordInProgress(history, id, b.todo[n])
    BY <1>1 DEF StoreStart
<1>5. /\ c.step = (IF Len(b.ids) < Len(b.todo) THEN "list" ELSE "pull")
      /\ c.change = "none" /\ c.ids = b.ids /\ c.at = 1
    BY <1>1 DEF Command
<1> HIDE DEF b, c
<1>6. Pending(cmd[p]) = {id}
    BY <1>1 DEF Pending, b
<1> HIDE DEF n, id
<1>7. Recorded(history') \subseteq Recorded(history) \cup {id}
        /\ Resumable(history') \subseteq Resumable(history) \cup {id}
        /\ \A x \in Resumable(history') : x # id => history'[x] = history[x]
    BY <1>4 DEF RecordInProgress, Recorded, Resumable, SerialInv, RecvInv, RecvTypeOK, Log
<1>8. id \in LeftOf(c) /\ LeftOf(b) = LeftOf(c)
    BY <1>1, <1>2, <1>5 DEF LeftOf, n, id
<1>9. cmd'[p] = c /\ \A q \in Proc : q # p => cmd'[q] = cmd[q]
    BY <1>3 DEF Become, SerialInv, RecvInv, RecvTypeOK
<1>10. Gone' \subseteq Gone
    BY <1>3, <1>5, <1>9 DEF Gone
<1>11. id \notin Gone
    BY <1>6 DEF SerialInv, PendingFresh
<1>12. Gone' \cap Recorded(history') = {}
    BY <1>7, <1>10, <1>11 DEF SerialInv
<1>13. Pending(c) = {}
    BY <1>5 DEF Pending
<1>14. ASSUME NEW q \in Proc, q # p
       PROVE  /\ Pending(cmd[q]) \cap (Gone' \cup Recorded(history')) = {}
              /\ Pending(c) \cap Pending(cmd[q]) = {}
    <2>1. id \notin Pending(cmd[q])
        BY <1>6, <1>14 DEF SerialInv, PendingFresh
    <2>2. Pending(cmd[q]) \cap (Gone \cup Recorded(history)) = {}
        BY DEF SerialInv, PendingFresh
    <2>3. QED
        BY <1>7, <1>10, <1>13, <2>1, <2>2
<1>15. ASSUME NEW x \in Resumable(history')
       PROVE  \/ Repeated(history'[x].entry.name)
              \/ x \in unfinished' \/ x \in LeftOf(c)
              \/ \E q \in Proc : q # p /\ x \in LeftOf(cmd[q])
    <2>1. CASE x = id
        BY <1>8, <2>1
    <2>2. CASE x # id
        BY <1>3, <1>7, <1>8, <2>2 DEF SerialInv, OriginKept, b
    <2>3. QED
        BY <2>1, <2>2
<1>16. /\ c.step = "store" => c.log = history'
       /\ c.step \in {"idle", "say"} \/ c.change = "purge" => c.ids = <<>>
    BY <1>5
<1>17. Pending(c) \cap (Gone' \cup Recorded(history')) = {}
    BY <1>13
<1>18. history' = history \/ cmd[p].step = "store"
    BY <1>1 DEF b
<1>19. QED
    BY <1>3, <1>12, <1>14, <1>15, <1>16, <1>17, <1>18, SerialFrame

LEMMA AdvanceLeft ==
    ASSUME RecvInv, NEW p \in Proc, Downloading(cmd[p]), Advance(p)
    PROVE  \E c : /\ Become(p, c) /\ QuietCommand(c, history') /\ Pending(c) = {}
                  /\ LeftOf(cmd[p]) \subseteq LeftOf(c) \cup {cmd[p].ids[cmd[p].at]}
<1> DEFINE at == cmd[p].at
<1>1. cmd[p] \in Command /\ at \in 1..Len(cmd[p].todo) /\ Len(cmd[p].ids) = Len(cmd[p].todo)
    BY Working, CurrentType
<1>2. CASE at = Len(cmd[p].todo)
    <2>1. Idle.step = "idle" /\ Idle.change = "none" /\ Idle.ids = <<>>
        BY DEF Idle
    <2>2. QuietCommand(Idle, history') /\ Pending(Idle) = {}
        BY <2>1 DEF QuietCommand, Pending
    <2>3. LeftOf(cmd[p]) \subseteq {cmd[p].ids[at]}
        BY <1>1, <1>2 DEF LeftOf
    <2>4. Become(p, Idle)
        BY <1>2 DEF Advance, Finish
    <2>5. QED
        BY <2>2, <2>3, <2>4
<1>3. CASE at # Len(cmd[p].todo)
    <2> DEFINE c == [cmd[p] EXCEPT !.step = "pull", !.change = "none", !.at = @ + 1,
                                   !.log = EmptyLog]
    <2>1. c.step = "pull" /\ c.change = "none" /\ c.at = at + 1 /\ c.ids = cmd[p].ids
        BY <1>1 DEF Command
    <2>2. Become(p, c)
        BY <1>3 DEF Advance
    <2> HIDE DEF c
    <2>3. QuietCommand(c, history') /\ Pending(c) = {}
        BY <2>1 DEF QuietCommand, Pending
    <2>4. ASSUME NEW x \in LeftOf(cmd[p]) PROVE x \in LeftOf(c) \cup {cmd[p].ids[at]}
        <3>1. PICK i \in at..Len(cmd[p].ids) : x = cmd[p].ids[i]
            BY <2>4 DEF LeftOf
        <3>2. i = at \/ i \in (at + 1)..Len(cmd[p].ids)
            BY <1>1, <3>1
        <3>3. QED
            BY <2>1, <3>1, <3>2 DEF LeftOf
    <2>5. QED
        BY <2>2, <2>3, <2>4
<1>4. QED
    BY <1>2, <1>3

(* What the end of an entry leaves: of the ids it was still to complete,   *)
(* only its own is dropped, and that is the one completed, or one of a path *)
(* that a folder repeats.                                                   *)
LEMMA Dropped ==
    ASSUME RecvInv, NEW p \in Proc, Downloading(cmd[p]), NEW j \in LastOfName(p),
           NEW x \in Resumable(history), x = cmd[p].ids[cmd[p].at]
    PROVE  x = cmd[p].ids[j] \/ Repeated(history[x].entry.name)
<1>1. minted[x] = Current(p)
    BY CurrentType
<1>2. history[x].entry = minted[x]
    BY DEF RecvInv, LogSound, Resumable
<1>3. j = cmd[p].at \/ Repeated(Current(p).name)
    BY LastOfNameSound
<1>4. QED
    BY <1>1, <1>2, <1>3

LEMMA SerialStoreCompleted ==
    ASSUME SerialInv, RecvInv', Solo', NEW p \in Proc, StoreCompleted(p) PROVE SerialInv'
<1>1. cmd[p].log = history /\ cmd[p].step = "store" /\ Downloading(cmd[p]) /\ history \in Log
    BY DEF StoreCompleted, Downloading, SerialInv, CopiesCurrent, RecvInv, RecvTypeOK
<1>2. PICK j \in LastOfName(p) :
         LET id == cmd[p].ids[j]
             log == RecordCompleted(cmd[p].log, id, Current(p))
         IN history' = IF id \in Recorded(log) THEN log ELSE history
    BY DEF StoreCompleted
<1> DEFINE id  == cmd[p].ids[j]
           own == cmd[p].ids[cmd[p].at]
           log == RecordCompleted(history, id, Current(p))
<1>2a. id \in TransferId
    BY <1>1, LastOfNameSound DEF SerialInv
<1>2b. \A x \in Resumable(history) : x = own => x = id \/ Repeated(history[x].entry.name)
    BY <1>1, Dropped DEF SerialInv
<1>3. history' = (IF id \in Recorded(log) THEN log ELSE history) /\ Advance(p)
        /\ UNCHANGED <<purged, unfinished>>
    BY <1>1, <1>2 DEF StoreCompleted
<1>4. PICK c : /\ Become(p, c) /\ QuietCommand(c, history') /\ Pending(c) = {}
               /\ LeftOf(cmd[p]) \subseteq LeftOf(c) \cup {own}
    BY <1>1, <1>3, AdvanceLeft DEF SerialInv
<1> HIDE DEF id, own
<1>5. /\ Recorded(history') = Recorded(history)
      /\ Resumable(history') \subseteq Resumable(history) \ {id}
      /\ \A x \in Resumable(history') : history'[x] = history[x]
    <2>1. CASE id \notin Recorded(history)
        <3>1. history' = history
            BY <1>3, <2>1 DEF RecordCompleted
        <3>2. QED
            BY <2>1, <3>1 DEF Resumable
    <2>2. CASE id \in Recorded(history)
        <3> DEFINE record == [history[id] EXCEPT !.state = "completed"]
        <3>1. history[id] \in HistoryRecord
            BY <1>1, <2>2, LogType
        <3>2. record \in HistoryRecord /\ record.state = "completed"
            BY <3>1 DEF HistoryRecord
        <3>3. log = [history EXCEPT ![id] = record]
            BY <2>2 DEF RecordCompleted
        <3> HIDE DEF record, log
        <3>4. log[id] = record /\ \A x \in TransferId : x # id => log[x] = history[x]
            BY <1>1, <1>2a, <3>3 DEF Log
        <3>5. id \in Recorded(log)
            BY <1>2a, <3>2, <3>4, HistoryAssumption DEF Recorded
        <3>6. history' = log
            BY <1>3, <3>5
        <3>7. Recorded(log) = Recorded(history)
            BY <2>2, <3>4, <3>5 DEF Recorded
        <3>8. Resumable(log) \subseteq Resumable(history) \ {id}
            BY <3>2, <3>4, <3>7 DEF Resumable, Recorded
        <3>9. \A x \in Resumable(log) : log[x] = history[x]
            BY <3>4, <3>8 DEF Resumable, Recorded
        <3>10. QED
            BY <3>6, <3>7, <3>8, <3>9
    <2>3. QED
        BY <2>1, <2>2
<1>6. cmd'[p] = c /\ \A q \in Proc : q # p => cmd'[q] = cmd[q]
    BY <1>4 DEF Become, SerialInv, RecvInv, RecvTypeOK
<1>7. Gone' \subseteq Gone
    BY <1>3, <1>4, <1>6 DEF Gone, QuietCommand
<1>8. Gone' \cap Recorded(history') = {}
    BY <1>5, <1>7 DEF SerialInv
<1>9. ASSUME NEW q \in Proc, q # p
      PROVE  /\ Pending(cmd[q]) \cap (Gone' \cup Recorded(history')) = {}
             /\ Pending(c) \cap Pending(cmd[q]) = {}
    BY <1>4, <1>5, <1>7 DEF SerialInv, PendingFresh
<1>10. ASSUME NEW x \in Resumable(history')
       PROVE  \/ Repeated(history'[x].entry.name)
              \/ x \in unfinished' \/ x \in LeftOf(c)
              \/ \E q \in Proc : q # p /\ x \in LeftOf(cmd[q])
    <2>1. x \in Resumable(history) /\ x # id /\ history'[x] = history[x]
        BY <1>5
    <2>2. CASE x = own
        BY <1>2b, <2>1, <2>2
    <2>3. CASE x # own
        BY <1>3, <1>4, <2>1, <2>3 DEF SerialInv, OriginKept
    <2>4. QED
        BY <2>2, <2>3
<1>11. /\ c.step = "store" => c.log = history'
       /\ c.step \in {"idle", "say"} \/ c.change = "purge" => c.ids = <<>>
    BY <1>4 DEF QuietCommand
<1>12. Pending(c) \cap (Gone' \cup Recorded(history')) = {}
    BY <1>4
<1>13. history' = history \/ cmd[p].step = "store"
    BY <1>1
<1>14. QED
    BY <1>4, <1>8, <1>9, <1>10, <1>11, <1>12, <1>13, SerialFrame

LEMMA SerialCompletionFails ==
    ASSUME SerialInv, RecvInv', Solo', NEW p \in Proc, CompletionFails(p) PROVE SerialInv'
<1>1. Downloading(cmd[p]) /\ Advance(p) /\ history' = history /\ purged' = purged
    BY DEF CompletionFails, Downloading
<1>2. PICK j \in LastOfName(p) : unfinished' = unfinished \cup {cmd[p].ids[j]}
    BY DEF CompletionFails
<1> DEFINE own == cmd[p].ids[cmd[p].at]
<1>3. \A x \in Resumable(history) :
          x = own => x \in unfinished' \/ Repeated(history[x].entry.name)
    BY <1>1, <1>2, Dropped DEF SerialInv
<1>4. PICK c : /\ Become(p, c) /\ QuietCommand(c, history') /\ Pending(c) = {}
               /\ LeftOf(cmd[p]) \subseteq LeftOf(c) \cup {own}
    BY <1>1, AdvanceLeft DEF SerialInv
<1> HIDE DEF own
<1>5. cmd'[p] = c /\ \A q \in Proc : q # p => cmd'[q] = cmd[q]
    BY <1>4 DEF Become, SerialInv, RecvInv, RecvTypeOK
<1>6. Gone' \subseteq Gone
    BY <1>1, <1>4, <1>5 DEF Gone, QuietCommand
<1>7. Gone' \cap Recorded(history') = {}
    BY <1>1, <1>6 DEF SerialInv
<1>8. ASSUME NEW q \in Proc, q # p
      PROVE  /\ Pending(cmd[q]) \cap (Gone' \cup Recorded(history')) = {}
             /\ Pending(c) \cap Pending(cmd[q]) = {}
    BY <1>1, <1>4, <1>6 DEF SerialInv, PendingFresh
<1>9. ASSUME NEW x \in Resumable(history')
      PROVE  \/ Repeated(history'[x].entry.name)
             \/ x \in unfinished' \/ x \in LeftOf(c)
             \/ \E q \in Proc : q # p /\ x \in LeftOf(cmd[q])
    <2>1. CASE x = own
        BY <1>1, <1>3, <2>1
    <2>2. CASE x # own
        BY <1>1, <1>2, <1>4, <2>2 DEF SerialInv, OriginKept
    <2>3. QED
        BY <2>1, <2>2
<1>10. /\ c.step = "store" => c.log = history'
       /\ c.step \in {"idle", "say"} \/ c.change = "purge" => c.ids = <<>>
    BY <1>4 DEF QuietCommand
<1>11. Pending(c) \cap (Gone' \cup Recorded(history')) = {}
    BY <1>4
<1>12. QED
    BY <1>1, <1>4, <1>7, <1>8, <1>9, <1>10, <1>11, SerialFrame

LEMMA SerialStorePurged ==
    ASSUME SerialInv, RecvInv', Solo', NEW p \in Proc, StorePurged(p) PROVE SerialInv'
<1> DEFINE c == [cmd[p] EXCEPT !.step = "say"]
<1>1. cmd[p] \in Command /\ cmd[p].log = history /\ cmd[p].change = "purge"
        /\ cmd[p].step = "store" /\ cmd[p].ids = <<>>
    BY Working, NoneLeft DEF StorePurged, SerialInv, CopiesCurrent
<1>2. c.step = "say" /\ c.log = history /\ c.change = "purge" /\ c.ids = <<>>
    BY <1>1 DEF Command
<1>3. Become(p, c) /\ history' = EmptyLog /\ UNCHANGED <<purged, unfinished>>
    BY DEF StorePurged, Goto
<1> HIDE DEF c
<1>4. Recorded(history') = {} /\ Resumable(history') = {}
    BY <1>3 DEF EmptyLog, Recorded, Resumable
<1>5. cmd'[p] = c /\ \A q \in Proc : q # p => cmd'[q] = cmd[q]
    BY <1>3 DEF Become, SerialInv, RecvInv, RecvTypeOK
<1>6. Gone' \subseteq Gone \cup Recorded(history)
    BY <1>2, <1>3, <1>5 DEF Gone
<1>7. Pending(c) = {}
    BY <1>2 DEF Pending
<1>8. ASSUME NEW q \in Proc, q # p
      PROVE  /\ Pending(cmd[q]) \cap (Gone' \cup Recorded(history')) = {}
             /\ Pending(c) \cap Pending(cmd[q]) = {}
    BY <1>4, <1>6, <1>7 DEF SerialInv, PendingFresh
<1>9. /\ c.step = "store" => c.log = history'
      /\ c.step \in {"idle", "say"} \/ c.change = "purge" => c.ids = <<>>
    BY <1>2
<1>10. Gone' \cap Recorded(history') = {} /\ Pending(c) \cap (Gone' \cup Recorded(history')) = {}
    BY <1>4, <1>7
<1>11. history' = history \/ cmd[p].step = "store"
    BY <1>1
<1>12. \A id \in Resumable(history') :
           \/ Repeated(history'[id].entry.name)
           \/ id \in unfinished' \/ id \in LeftOf(c)
           \/ \E q \in Proc : q # p /\ id \in LeftOf(cmd[q])
    BY <1>4
<1>13. QED
    BY <1>3, <1>8, <1>9, <1>10, <1>11, <1>12, SerialFrame

LEMMA SerialReportPurged ==
    ASSUME SerialInv, RecvInv', Solo', NEW p \in Proc, ReportPurged(p)
    PROVE  SerialInv'
<1>1. Become(p, Idle) /\ UNCHANGED <<history, unfinished>> /\ cmd[p].step = "say"
        /\ purged' = purged \cup Recorded(cmd[p].log)
    BY DEF ReportPurged, Finish
<1>2. Idle.step = "idle" /\ Idle.change = "none" /\ Idle.ids = <<>>
    BY DEF Idle
<1>3. cmd'[p] = Idle /\ \A q \in Proc : q # p => cmd'[q] = cmd[q]
    BY <1>1 DEF Become, SerialInv, RecvInv, RecvTypeOK
<1>4. Gone' \subseteq Gone
    BY <1>1, <1>2, <1>3 DEF Gone, Recorded
<1>5. Pending(Idle) = {}
    BY <1>2 DEF Pending
<1>6. LeftOf(cmd[p]) = {}
    BY <1>1, NoneLeft
<1>7. ASSUME NEW q \in Proc, q # p
      PROVE  /\ Pending(cmd[q]) \cap (Gone' \cup Recorded(history')) = {}
             /\ Pending(Idle) \cap Pending(cmd[q]) = {}
    BY <1>1, <1>4, <1>5 DEF SerialInv, PendingFresh
<1>8. Gone' \cap Recorded(history') = {}
        /\ Pending(Idle) \cap (Gone' \cup Recorded(history')) = {}
    BY <1>1, <1>4, <1>5 DEF SerialInv
<1>9. \A id \in Resumable(history') :
          \/ Repeated(history'[id].entry.name)
          \/ id \in unfinished' \/ id \in LeftOf(Idle)
          \/ \E q \in Proc : q # p /\ id \in LeftOf(cmd[q])
    BY <1>1, <1>6 DEF SerialInv, OriginKept
<1>10. /\ Idle.step = "store" => Idle.log = history'
       /\ Idle.step \in {"idle", "say"} \/ Idle.change = "purge" => Idle.ids = <<>>
    BY <1>2
<1>11. history' = history \/ cmd[p].step = "store"
    BY <1>1
<1>12. QED
    BY <1>1, <1>7, <1>8, <1>9, <1>10, <1>11, SerialFrame

LEMMA SerialProgress ==
    ASSUME SerialInv, RecvInv', Solo', NEW p \in Proc, Progress(p) PROVE SerialInv'
<1>1. CASE Survey(p)
    BY <1>1, SerialSurvey
<1>2. CASE List(p)
    BY <1>2, SerialList
<1>3. CASE Load(p)
    BY <1>3, SerialLoad
<1>4. CASE StoreStart(p)
    BY <1>4, SerialStoreStart
<1>5. CASE StoreCompleted(p)
    BY <1>5, SerialStoreCompleted
<1>6. CASE Receive(p)
    BY <1>6, SerialReceive
<1>7. CASE Land(p)
    BY <1>7, SerialLand
<1>8. CASE StorePurged(p)
    BY <1>8, SerialStorePurged
<1>9. CASE ReportPurged(p)
    BY <1>9, SerialReportPurged
<1>10. QED
    BY <1>1, <1>2, <1>3, <1>4, <1>5, <1>6, <1>7, <1>8, <1>9 DEF Progress

(* neither a deleted download nor a stutter touches what SerialInv speaks of *)
LEMMA SerialUntouched ==
    ASSUME SerialInv, RecvInv', Solo', UNCHANGED <<history, cmd, unfinished, purged>>
    PROVE  SerialInv'
<1>1. CopiesCurrent' /\ NothingLeft'
    BY DEF SerialInv, CopiesCurrent, NothingLeft
<1>2. Gone' = Gone
    BY DEF Gone
<1>3. (Gone \cap Recorded(history) = {})' /\ PendingFresh'
    BY <1>2 DEF SerialInv, PendingFresh
<1>4. OriginKept'
    BY DEF SerialInv, OriginKept
<1>5. QED
    BY <1>1, <1>3, <1>4 DEF SerialInv

LEMMA SerialStep ==
    ASSUME SerialInv, [Next /\ Solo']_vars PROVE SerialInv'
<1>1. RecvInv'
    BY RecvInvStep DEF SerialInv
<1>2. CASE UNCHANGED vars
    <2>1. Solo'
        BY <1>2 DEF SerialInv, Solo, vars
    <2>2. QED
        BY <1>1, <1>2, <2>1, SerialUntouched DEF vars
<1>3. CASE Next /\ Solo'
    <2>1. PICK p \in Proc :
             \/ \E ticket \in Ticket : StartRecv(p, ticket)
             \/ StartPurge(p)
             \/ Progress(p)
             \/ CompletionFails(p)
             \/ Lose(p) \/ Drop(p) \/ Cancel(p) \/ Crash(p)
             \/ \E path \in Path : Discard(p, path)
        BY <1>3 DEF Next
    <2>2. ASSUME NEW ticket \in Ticket, StartRecv(p, ticket) PROVE SerialInv'
        BY <1>1, <1>3, <2>2, SerialStartRecv
    <2>3. CASE StartPurge(p)
        BY <1>1, <1>3, <2>3, SerialStartPurge
    <2>4. CASE Progress(p)
        BY <1>1, <1>3, <2>4, SerialProgress
    <2>5. CASE Lose(p) \/ Drop(p) \/ Cancel(p) \/ Crash(p)
        <3>1. Fail(p)
            BY <2>5 DEF Lose, Drop, Cancel, Crash
        <3>2. QED
            BY <1>1, <1>3, <3>1, SerialFail
    <2>6. ASSUME NEW path \in Path, Discard(p, path) PROVE SerialInv'
        BY <1>1, <1>3, <2>6, SerialUntouched DEF Discard
    <2>7. CASE CompletionFails(p)
        BY <1>1, <1>3, <2>7, SerialCompletionFails
    <2>8. QED
        BY <2>1, <2>2, <2>3, <2>4, <2>5, <2>6, <2>7
<1>4. QED
    BY <1>2, <1>3

(***************************************************************************)
(* The theorems                                                            *)
(***************************************************************************)

(* While round trips do not overlap, every copy about to be written back is *)
(* the file as it is, and no purged id is waiting to be recorded again.     *)
THEOREM RecvSerialInvariant == SerialSpec => []SerialInv
<1>1. Init => SerialInv
    BY SerialInit
<1>2. SerialInv /\ [Next /\ Solo']_vars => SerialInv'
    BY SerialStep
<1>3. QED
    BY <1>1, <1>2, PTL DEF SerialSpec

(* MR-7 (history.rs:8-11): a record keeps the sender's address only while a *)
(* process works on it, or its transfer ended unfinished, or its completion *)
(* could not be written, however downloads, failures, deaths and purges     *)
(* interleave between the round trips; a path that a folder repeats is out. *)
THEOREM OriginsGoWhenDone == SerialSpec => []OriginOnlyWhileResumable
<1>1. SerialInv => OriginOnlyWhileResumable
    <2> SUFFICES ASSUME SerialInv, NEW id \in Resumable(history), id \notin unfinished,
                        ~Repeated(history[id].entry.name)
                 PROVE  id \in UNION {Left(p) : p \in Proc}
        BY DEF OriginOnlyWhileResumable
    <2>1. PICK p \in Proc : id \in LeftOf(cmd[p])
        BY DEF SerialInv, OriginKept
    <2>2. id \in Left(p)
        BY <2>1, Working, LeftIs DEF SerialInv
    <2>3. QED
        BY <2>2
<1>2. QED
    BY <1>1, RecvSerialInvariant, PTL

(* A record whose purge was reported (main.rs:557) never comes back, not    *)
(* even by the completion of a transfer that was then in flight.            *)
THEOREM PurgesAreFinal == SerialSpec => []PurgedStaysPurged
<1>1. SerialInv => PurgedStaysPurged
    <2> SUFFICES ASSUME SerialInv PROVE purged \cap Recorded(history) = {}
        BY DEF PurgedStaysPurged
    <2>1. purged \subseteq Gone
        BY DEF SerialInv, RecvInv, RecvTypeOK, Minted, Gone
    <2>2. QED
        BY <2>1 DEF SerialInv
<1>2. QED
    BY <1>1, RecvSerialInvariant, PTL
=============================================================================
