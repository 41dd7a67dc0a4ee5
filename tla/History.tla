------------------------------- MODULE History -------------------------------
(***************************************************************************)
(* The transfer history of mascara-core's history.rs: the pure state       *)
(* machine over what history.json holds.  A log maps a transfer id to its  *)
(* record or to NoRecord: record_in_progress refuses an id that is there.  *)
(* The sender's address (origin) is part of the InProgress state and of no *)
(* other that the program enters, so a record keeps it exactly while it is *)
(* resumable.  record_partial and a retention window are left out: nothing *)
(* in the program calls the one or sets the other.                         *)
(***************************************************************************)
CONSTANTS TransferId, Entry, NoRecord

HistoryRecord == [entry : Entry, state : {"in progress", "completed"}]

ASSUME HistoryAssumption == NoRecord \notin HistoryRecord

Log == [TransferId -> HistoryRecord \cup {NoRecord}]

EmptyLog == [id \in TransferId |-> NoRecord]

Recorded(log) == {id \in TransferId : log[id] # NoRecord}

(* TransferState::is_resumable, and where origin() is Some *)
Resumable(log) == {id \in Recorded(log) : log[id].state = "in progress"}

(* History::record_in_progress, of an id that is not there *)
RecordInProgress(log, id, entry) ==
    [log EXCEPT ![id] = [entry |-> entry, state |-> "in progress"]]

\* Mutant: an id that is not there is recorded all the same
RecordCompletedUpsert(log, id, entry) ==
    [log EXCEPT ![id] = [entry |-> entry, state |-> "completed"]]

(* History::record_completed; an unknown id is refused, and nothing stored *)
RecordCompleted(log, id, entry) ==
    IF id \in Recorded(log) THEN [log EXCEPT ![id].state = "completed"] ELSE log

\* Mutant: identical bytes under another name are taken for the same transfer
AdoptableByHash(log, entry) ==
    {id \in Resumable(log) : log[id].entry.content = entry.content}

(* main.rs record_started: the record of an unfinished transfer of the same *)
(* content and name                                                         *)
Adoptable(log, entry) == {id \in Resumable(log) : log[id].entry = entry}

\* Mutant: a transfer that has only begun counts as held
HeldContentsAny(log) == {log[id].entry.content : id \in Recorded(log)}

(* cmd_recv held_hashes *)
HeldContents(log) == {log[id].entry.content : id \in Recorded(log) \ Resumable(log)}
=============================================================================
