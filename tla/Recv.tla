--------------------------------- MODULE Recv ---------------------------------
(***************************************************************************)
(* `mascara recv` of a file or a folder and `mascara history --purge`, as  *)
(* the processes of one device share history.json (main.rs cmd_recv and    *)
(* cmd_history, dialer.rs and engine.rs pull_folder).  Every change of the *)
(* log is a load, a change of the copy and a store, with no lock.          *)
(*                                                                         *)
(* Each process downloads into a directory of its own; what two pulls of   *)
(* one name do to each other in one directory is FilePull's subject, and   *)
(* so are the bytes of a pull: here it fills a .part and then lands or     *)
(* ends in one of the ways FilePull allows.                                *)
(***************************************************************************)
EXTENDS History, Naturals, Sequences, FiniteSets

CONSTANTS Proc,
          Name,         \* names in a directory, those of .part files included
          Content,
          PartOf,       \* the name `n.part` of each name n that is downloaded
          UserName,     \* names the user may have files of their own under
          Ticket,       \* what a recv may be given: [folder, entries]
          NotMinted,    \* the id has not been given out
          Absent, Partial, Own,   \* nothing; some received bytes; the user's
          MaxSlot,      \* bound: `n`, `n (2)`, ... up to here
          MaxFaults,    \* bound: pulls and stores that fail, processes that die
          MaxDiscards   \* bound: downloads the user deletes

ASSUME RecvAssumption ==
    /\ Entry \subseteq [name : DOMAIN PartOf, content : Content]
    /\ DOMAIN PartOf \subseteq Name
    /\ PartOf \in [DOMAIN PartOf -> Name]
    /\ UserName \subseteq Name
    /\ Ticket \subseteq [folder : BOOLEAN, entries : Seq(Entry)]
    /\ \A ticket \in Ticket : ticket.folder \/ Len(ticket.entries) = 1
    /\ IsFiniteSet(TransferId)
    /\ NotMinted \notin Entry
    /\ {Absent, Partial, Own} \cap Content = {}
    /\ Cardinality({Absent, Partial, Own}) = 3
    /\ MaxSlot \in Nat \ {0}
    /\ MaxFaults \in Nat
    /\ MaxDiscards \in Nat

VARIABLES history,     \* <home>/transfers/history.json
          disk,        \* the directory each process works in
          cmd,         \* what each process is doing
          minted,      \* the entry each transfer id was given out for
          landed,      \* entries whose bytes were verified and placed
          unfinished,  \* ids of transfers that failed or were killed, and of
                       \* those whose completion could not be written
          purged,      \* ids whose purge was reported to the user
          faults, discards

vars == <<history, disk, cmd, minted, landed, unfinished, purged, faults, discards>>

Path == Name \X (1..MaxSlot)       \* <<n, 1>> is `n`, <<n, k>> is `n (k)`

PartPath(entry) == <<PartOf[entry.name], 1>>

(* survey: the manifest is fetched; list: about to look for a record to     *)
(* adopt; load, store: the round trip of one change of the log; pull: the   *)
(* request is sent; receiving: the .part is open; say: about to print.      *)
Step == {"idle", "survey", "list", "load", "store", "pull", "receiving", "say"}

Change == {"none", "start", "complete", "purge"}

Command == [step   : Step,
            change : Change,             \* what the round trip is for
            folder : BOOLEAN,
            todo   : Seq(Entry),         \* to_pull
            ids    : Seq(TransferId),    \* record_ids, in the order of todo
            at     : Nat \ {0},          \* the entry being pulled
            log    : Log]                \* this process's copy of history.json

Idle == [step |-> "idle", change |-> "none", folder |-> FALSE, todo |-> <<>>,
         ids |-> <<>>, at |-> 1, log |-> EmptyLog]

Minted == {id \in TransferId : minted[id] # NotMinted}

RecvTypeOK ==
    /\ history \in Log
    /\ disk \in [Proc -> [Path -> Content \cup {Absent, Partial, Own}]]
    /\ cmd \in [Proc -> Command]
    /\ minted \in [TransferId -> Entry \cup {NotMinted}]
    /\ landed \in SUBSET Entry
    /\ unfinished \in SUBSET Minted
    /\ purged \in SUBSET Minted
    /\ faults \in 0..MaxFaults
    /\ discards \in 0..MaxDiscards

Init ==
    /\ history = EmptyLog
    /\ \E own \in SUBSET UserName :
          disk = [p \in Proc |-> [path \in Path |->
                    IF path \in own \X {1} THEN Own ELSE Absent]]
    /\ cmd = [p \in Proc |-> Idle]
    /\ minted = [id \in TransferId |-> NotMinted]
    /\ landed = {}
    /\ unfinished = {}
    /\ purged = {}
    /\ faults = 0
    /\ discards = 0

Become(p, command) == cmd' = [cmd EXCEPT ![p] = command]

Goto(p, step) == Become(p, [cmd[p] EXCEPT !.step = step])

RoundTrip(p, change) ==
    Become(p, [cmd[p] EXCEPT !.step = "load", !.change = change])

Finish(p) == Become(p, Idle)

FreeSlots(p, n) == {k \in 1..MaxSlot : disk[p][<<n, k>>] = Absent}

IdRange(ids) == {ids[i] : i \in 1..Len(ids)}

Current(p) == cmd[p].todo[cmd[p].at]

(* record_ids is keyed by rel_path: of entries with one path, the last      *)
(* one's id is kept, and completed by each of them                          *)
LastOfName(p) == {j \in 1..Len(cmd[p].todo) :
    /\ cmd[p].todo[j].name = Current(p).name
    /\ \A i \in 1..Len(cmd[p].todo) : cmd[p].todo[i].name = Current(p).name => i <= j}

(* nothing keeps a sender from listing two entries under one path *)
Repeated(name) == \E ticket \in Ticket : \E i, j \in 1..Len(ticket.entries) :
    i # j /\ ticket.entries[i].name = name /\ ticket.entries[j].name = name

(* the ids that recvs under way may still mint: ids are not to run out *)
Owed == UNION {{p} \X ((Len(cmd[p].ids) + 1)..Len(cmd[p].todo)) : p \in Proc}

Receiving(p) == cmd[p].step \in {"pull", "receiving"}

(***************************************************************************)
(* cmd_recv, up to the first pull                                          *)
(***************************************************************************)
StartRecv(p, ticket) ==
    /\ cmd[p].step = "idle"
    /\ \A n \in Name : Cardinality({i \in 1..Len(ticket.entries) : ticket.entries[i].name = n})
                        <= Cardinality(FreeSlots(p, n))
    /\ Cardinality(Minted) + Cardinality(Owed) + Len(ticket.entries) <= Cardinality(TransferId)
    /\ Become(p, [Idle EXCEPT !.step = IF ticket.folder THEN "survey" ELSE "list",
                              !.folder = ticket.folder, !.todo = ticket.entries])
    /\ UNCHANGED <<history, disk, minted, landed, unfinished, purged, faults, discards>>

Held(p, entry) ==
    /\ entry.content \in HeldContents(history)
    /\ disk[p][<<entry.name, 1>>] # Absent

Wanted(p) == {i \in 1..Len(cmd[p].todo) : ~Held(p, cmd[p].todo[i])}

(* folders only: what is held is not pulled again; the rest keeps its order *)
Survey(p) ==
    /\ cmd[p].step = "survey"
    /\ IF Wanted(p) = {} THEN Finish(p)
       ELSE \E order \in [1..Cardinality(Wanted(p)) -> Wanted(p)] :
              /\ \A i, j \in DOMAIN order : i < j => order[i] < order[j]
              /\ Become(p, [cmd[p] EXCEPT !.step = "list",
                               !.todo = [i \in DOMAIN order |-> cmd[p].todo[order[i]]]])
    /\ UNCHANGED <<history, disk, minted, landed, unfinished, purged, faults, discards>>

(* after a record of every entry is there, the pulls start *)
Pulling(p, command) ==
    Become(p, [command EXCEPT !.step = IF Len(command.ids) < Len(command.todo)
                                       THEN "list" ELSE "pull",
                              !.change = "none", !.log = EmptyLog])

(* record_started: reads the log, then adopts a record or mints an id *)
List(p) ==
    /\ cmd[p].step = "list"
    /\ LET found == Adoptable(history, cmd[p].todo[Len(cmd[p].ids) + 1])
       IN IF found # {}
          THEN /\ \E id \in found :
                     Pulling(p, [cmd[p] EXCEPT !.ids = Append(@, id)])
               /\ UNCHANGED minted
          ELSE \E id \in TransferId \ Minted :
                 /\ minted' = [minted EXCEPT ![id] = cmd[p].todo[Len(cmd[p].ids) + 1]]
                 /\ Become(p, [cmd[p] EXCEPT !.ids = Append(@, id), !.step = "load",
                                             !.change = "start"])
    /\ UNCHANGED <<history, disk, landed, unfinished, purged, faults, discards>>

(***************************************************************************)
(* HistoryLog: load, change, store                                         *)
(***************************************************************************)
Load(p) ==
    /\ cmd[p].step = "load"
    /\ Become(p, [cmd[p] EXCEPT !.step = "store", !.log = history])
    /\ UNCHANGED <<history, disk, minted, landed, unfinished, purged, faults, discards>>

StoreStart(p) ==
    /\ cmd[p].step = "store" /\ cmd[p].change = "start"
    /\ LET i == Len(cmd[p].ids)
       IN history' = RecordInProgress(cmd[p].log, cmd[p].ids[i], cmd[p].todo[i])
    /\ Pulling(p, cmd[p])
    /\ UNCHANGED <<disk, minted, landed, unfinished, purged, faults, discards>>

(* the next entry, or the end *)
Advance(p) ==
    IF cmd[p].at = Len(cmd[p].todo) THEN Finish(p)
    ELSE Become(p, [cmd[p] EXCEPT !.step = "pull", !.change = "none",
                                  !.at = @ + 1, !.log = EmptyLog])

\* Mutant: an entry is completed in the log only with the last of the folder
StoreCompletedAtEnd(p) ==
    /\ cmd[p].step = "store" /\ cmd[p].change = "complete"
    /\ \E j \in LastOfName(p) :
          history' = IF cmd[p].at = Len(cmd[p].todo)
                     THEN RecordCompleted(cmd[p].log, cmd[p].ids[j], Current(p))
                     ELSE history
    /\ Advance(p)
    /\ UNCHANGED <<disk, minted, landed, unfinished, purged, faults, discards>>

(* on_entry_done; an id that a purge has removed is an error, which ends a  *)
(* single recv and is noted by a folder's                                   *)
StoreCompleted(p) ==
    /\ cmd[p].step = "store" /\ cmd[p].change = "complete"
    /\ \E j \in LastOfName(p) :
          LET id == cmd[p].ids[j]
              log == RecordCompleted(cmd[p].log, id, Current(p))
          IN history' = IF id \in Recorded(log) THEN log ELSE history
    /\ Advance(p)
    /\ UNCHANGED <<disk, minted, landed, unfinished, purged, faults, discards>>

(* the history cannot be read or written back: a single recv ends there, a  *)
(* folder's notes the error and pulls on                                    *)
CompletionFails(p) ==
    /\ cmd[p].step \in {"load", "store"} /\ cmd[p].change = "complete"
    /\ faults < MaxFaults
    /\ faults' = faults + 1
    /\ \E j \in LastOfName(p) : unfinished' = unfinished \cup {cmd[p].ids[j]}
    /\ Advance(p)
    /\ UNCHANGED <<history, disk, minted, landed, purged, discards>>

(***************************************************************************)
(* One pull                                                                *)
(***************************************************************************)
(* the .part is created, continued or truncated, whoever's file it was *)
Receive(p) ==
    /\ cmd[p].step = "pull"
    /\ disk' = [disk EXCEPT ![p][PartPath(Current(p))] = Partial]
    /\ Goto(p, "receiving")
    /\ UNCHANGED <<history, minted, landed, unfinished, purged, faults, discards>>

Land(p) ==
    /\ cmd[p].step = "receiving"
    /\ \E k \in FreeSlots(p, Current(p).name) :
          /\ \A j \in FreeSlots(p, Current(p).name) : k <= j
          /\ disk' = [disk EXCEPT ![p][<<Current(p).name, k>>] = Current(p).content,
                                  ![p][PartPath(Current(p))] = Absent]
    /\ landed' = landed \cup {Current(p)}
    /\ RoundTrip(p, "complete")
    /\ UNCHANGED <<history, minted, unfinished, purged, faults, discards>>

(* the transfers this process has not finished, when it ends *)
Left(p) == IdRange(SubSeq(cmd[p].ids, cmd[p].at, Len(cmd[p].ids)))

Fail(p) ==
    /\ faults < MaxFaults
    /\ faults' = faults + 1
    /\ unfinished' = unfinished \cup Left(p)
    /\ Finish(p)
    /\ UNCHANGED <<history, minted, landed, purged, discards>>

(* a connection lost: the .part stays *)
Lose(p) == Receiving(p) /\ Fail(p) /\ UNCHANGED disk

(* refused, wrong hash, local error: the .part goes *)
Drop(p) ==
    /\ Receiving(p)
    /\ disk' = [disk EXCEPT ![p][PartPath(Current(p))] = Absent]
    /\ Fail(p)

(* the sender's cancel: a folder's recv deletes the .part of every entry *)
Parts(p) ==
    IF cmd[p].folder THEN {PartPath(cmd[p].todo[i]) : i \in 1..Len(cmd[p].todo)}
    ELSE {PartPath(Current(p))}

Cancel(p) ==
    /\ Receiving(p)
    /\ disk' = [disk EXCEPT ![p] = [path \in Path |->
                   IF path \in Parts(p) THEN Absent ELSE disk[p][path]]]
    /\ Fail(p)

(* the process dies, or stops on any other error, between any two steps *)
Crash(p) == cmd[p].step # "idle" /\ Fail(p) /\ UNCHANGED disk

(***************************************************************************)
(* cmd_history --purge                                                     *)
(***************************************************************************)
StartPurge(p) ==
    /\ cmd[p].step = "idle"
    /\ RoundTrip(p, "purge")
    /\ UNCHANGED <<history, disk, minted, landed, unfinished, purged, faults, discards>>

StorePurged(p) ==
    /\ cmd[p].step = "store" /\ cmd[p].change = "purge"
    /\ history' = EmptyLog
    /\ Goto(p, "say")
    /\ UNCHANGED <<disk, minted, landed, unfinished, purged, faults, discards>>

ReportPurged(p) ==
    /\ cmd[p].step = "say"
    /\ purged' = purged \cup Recorded(cmd[p].log)
    /\ Finish(p)
    /\ UNCHANGED <<history, disk, minted, landed, unfinished, faults, discards>>

(* the user deletes a download *)
Discard(p, path) ==
    /\ discards < MaxDiscards
    /\ disk[p][path] \in Content
    /\ disk' = [disk EXCEPT ![p][path] = Absent]
    /\ discards' = discards + 1
    /\ UNCHANGED <<history, cmd, minted, landed, unfinished, purged, faults>>

Progress(p) ==
    \/ Survey(p) \/ List(p) \/ Load(p) \/ StoreStart(p) \/ StoreCompleted(p)
    \/ Receive(p) \/ Land(p) \/ StorePurged(p) \/ ReportPurged(p)

Next == \E p \in Proc :
    \/ \E ticket \in Ticket : StartRecv(p, ticket)
    \/ StartPurge(p)
    \/ Progress(p)
    \/ CompletionFails(p)
    \/ Lose(p) \/ Drop(p) \/ Cancel(p) \/ Crash(p)
    \/ \E path \in Path : Discard(p, path)

Spec == Init /\ [][Next]_vars

(***************************************************************************)
(* What no overlap of commands can break.                                  *)
(***************************************************************************)

(* of `entry`, or, where a folder lists several files under its path, of    *)
(* one of them                                                              *)
Arrived(entry, have) == \E other \in have :
    other.name = entry.name /\ (other = entry \/ Repeated(entry.name))

(* The log never claims what the user does not hold: a completed record is  *)
(* of an entry whose bytes were verified and placed, under that name,       *)
(* whichever process completed it and whatever was adopted, lost or purged  *)
(* (main.rs:303-304, "adopt an unrelated in-progress record").  Where a     *)
(* folder repeats a path the record may be another of its entries' (main.rs *)
(* 480-486): only the path is then sure to be right.                        *)
CompletedLanded ==
    \A id \in Recorded(history) \ Resumable(history) : Arrived(history[id].entry, landed)

(***************************************************************************)
(* What holds while the round trips on history.json do not overlap; the    *)
(* long pulls between them may.                                            *)
(***************************************************************************)
Solo == \A p, q \in Proc : cmd[p].step = "store" /\ cmd[q].step = "store" => p = q

SerialSpec == Init /\ [][Next /\ Solo']_vars

(* MR-7, history.rs:8-11: the sender's address is kept only while the       *)
(* transfer can be resumed.  A record that holds it is one some process is  *)
(* working on, or one whose transfer did not finish or whose completion     *)
(* could not be written; an entry that landed before a later one of its     *)
(* folder failed is not among them.  A path that a folder repeats is out:   *)
(* the records of all its entries but the last are never completed.         *)
OriginOnlyWhileResumable ==
    \A id \in Resumable(history) :
        \/ id \in unfinished \cup UNION {Left(p) : p \in Proc}
        \/ Repeated(history[id].entry.name)

(* main.rs:557, "Transfer history purged.": a record that was there never comes *)
(* back, the completion of a transfer then in flight included.              *)
PurgedStaysPurged == purged \cap Recorded(history) = {}

(***************************************************************************)
(* Liveness.  The user runs recv again after every failure; failures are   *)
(* bounded.                                                                *)
(***************************************************************************)
FairRecvSpec ==
    /\ Spec
    /\ \A p \in Proc : /\ WF_vars(Progress(p))
                       /\ \A ticket \in Ticket : SF_vars(StartRecv(p, ticket))

(* the bytes arrived under another name, and a file stands at the path      *)
TakenForHeld(entry) == \E other \in landed, p \in Proc :
    /\ other.content = entry.content /\ other.name # entry.name
    /\ disk[p][<<entry.name, 1>>] # Absent

(* Whatever failed part-way, every entry of the folder lands in the end,    *)
(* but for one whose bytes came under another name while some file stands   *)
(* at its own path: main.rs:443 takes that file for the entry, against      *)
(* 433-434.  A path the folder repeats is out (see CompletedLanded).        *)
EverythingLands ==
    \A ticket \in Ticket :
        \A i \in {k \in 1..Len(ticket.entries) : ~Repeated(ticket.entries[k].name)} :
            <>(ticket.entries[i] \in landed \/ TakenForHeld(ticket.entries[i]))
=============================================================================
