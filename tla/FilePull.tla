------------------------------- MODULE FilePull -------------------------------
(***************************************************************************)
(* `mascara recv` of one file (engine.rs pull_file_inner, dialer.rs pull)  *)
(* against a sender whose file may change meanwhile.  The bytes go to      *)
(* <name>.part and are hashed as they arrive; a .part left by an earlier   *)
(* attempt is hashed first and continued; the hash decides whether the     *)
(* .part is renamed to a free name or deleted.                             *)
(*                                                                         *)
(* SHA-256 is equality of contents.  A chunk is one byte; the chunk in     *)
(* flight to the disk when a process dies is as if it had not arrived.     *)
(***************************************************************************)
EXTENDS Naturals, Sequences, FiniteSets

CONSTANTS Receiver,    \* concurrent `mascara recv` of this ticket in one directory
          Byte,
          Zero,        \* what a hole in a file reads as
          Committed,   \* the content the ticket's sha256 and size stand for
          Source,      \* contents the sender's file may come to hold
          Gone,        \* the sender's file is not there
          Leftover,    \* contents of a .part some earlier pull may have left
          OwnFile,     \* the content of a file the user already has
          Inode, Own,  \* inodes; Own is that of the user's file
          NoFile,      \* a name that is free
          MaxSlot,     \* bound: names tried for the landed file
          MaxEdits,    \* bound: changes of the sender's file
          MaxFaults    \* bound: broken connections, crashes, local errors

Size == Len(Committed)

ASSUME PullAssumption ==
    /\ Committed \in Seq(Byte)
    /\ Zero \in Byte
    /\ Source \subseteq Seq(Byte) /\ Committed \in Source
    /\ Gone \notin Seq(Byte)
    /\ Leftover \subseteq Seq(Byte)
    /\ OwnFile \in Seq(Byte)
    /\ Own \in Inode
    /\ NoFile \notin Inode \cup Seq(Byte)
    /\ MaxSlot \in Nat \ {0}
    /\ MaxEdits \in Nat
    /\ MaxFaults \in Nat

VARIABLES dir,      \* names of the destination directory, to inodes
          data,     \* what each inode holds
          src,      \* what the sender's path holds
          pull,     \* each receiver's pull
          edits, faults

vars == <<dir, data, src, pull, edits, faults>>

Slots == 1..MaxSlot          \* `name`, `name (2)`, `name (3)`, ...

Part == 0                    \* `name.part`

(* asked: the .part hashed, the request sent; open: the sender has answered *)
(* and the .part is open; broken: the stream broke, the engine has returned *)
(* and the close code is awaited; landing: verified, the free name chosen.  *)
Phase == {"idle", "asked", "open", "broken", "landing"}

Outcome == {"none", "saved", "refused", "mismatch", "lost", "cancelled", "local", "killed"}

Pull == [phase     : Phase,
         outcome   : Outcome,                \* of the last pull that ended
         hashed    : Seq(Byte),              \* what went through the hasher
         inode     : Inode \cup {NoFile},    \* the open .part
         append    : BOOLEAN,                \* ... opened to append
         source    : Seq(Byte),              \* what the sender's open file holds
         dest      : Slots \cup {Part},
         cancelled : BOOLEAN]                \* the peer closed with code 1

Idle(outcome, hashed) ==
    [phase |-> "idle", outcome |-> outcome, hashed |-> hashed, inode |-> NoFile,
     append |-> FALSE, source |-> <<>>, dest |-> Part, cancelled |-> FALSE]

Init ==
    /\ \E taken \in SUBSET (Slots \ {MaxSlot}), left \in {NoFile} \cup (Inode \ {Own}) :
          dir = [s \in Slots \cup {Part} |->
                   IF s \in taken THEN Own ELSE IF s = Part THEN left ELSE NoFile]
    /\ \E content \in Leftover :
          data = [i \in Inode |-> IF i = Own THEN OwnFile
                                  ELSE IF i = dir[Part] THEN content ELSE <<>>]
    /\ src = Committed
    /\ pull = [r \in Receiver |-> Idle("none", <<>>)]
    /\ edits = 0
    /\ faults = 0

Become(r, state) == pull' = [pull EXCEPT ![r] = state]

(* no hash of what arrived is kept past the pull; it stays in the record so *)
(* that properties may speak of it                                          *)
End(r, outcome) == Become(r, Idle(outcome, pull[r].hashed))

Unlink == dir' = [dir EXCEPT ![Part] = NoFile]

Fault == faults < MaxFaults /\ faults' = faults + 1

FreeSlots == {s \in Slots : dir[s] = NoFile}

(***************************************************************************)
(* compute_partial_state, after the dial: an empty, oversized or           *)
(* unreadable .part is removed, any other is hashed and continued.         *)
(***************************************************************************)
Resumable(content) == Len(content) \in 1..Size

Ask(r, hashed) == Become(r, [Idle("none", hashed) EXCEPT !.phase = "asked"])

Begin(r) ==
    /\ pull[r].phase = "idle"
    /\ Cardinality(FreeSlots) > Cardinality({q \in Receiver : pull[q].phase # "idle"})
    /\ IF dir[Part] # NoFile /\ Resumable(data[dir[Part]])
       THEN \/ Ask(r, data[dir[Part]]) /\ UNCHANGED <<dir, faults>>
            \/ Ask(r, <<>>) /\ Unlink /\ Fault
       ELSE Ask(r, <<>>) /\ Unlink /\ UNCHANGED faults
    /\ UNCHANGED <<data, src, edits>>

Servable == src # Gone /\ Len(src) = Size

(***************************************************************************)
(* The sender's answer.  It refuses a source that is gone or whose size    *)
(* has changed; a fault stands for its other refusals (a revoked ticket).  *)
(***************************************************************************)
\* Mutant: a refusal returns before the .part is dealt with
RefuseEarly(r) ==
    /\ pull[r].phase = "asked"
    /\ IF Servable THEN Fault ELSE UNCHANGED faults
    /\ End(r, "refused")
    /\ UNCHANGED <<dir, data, src, edits>>

Refuse(r) ==
    /\ pull[r].phase = "asked"
    /\ IF Servable THEN Fault ELSE UNCHANGED faults
    /\ Unlink
    /\ End(r, "refused")
    /\ UNCHANGED <<data, src, edits>>

Opened(r, inode, append) ==
    Become(r, [pull[r] EXCEPT !.phase = "open", !.inode = inode, !.append = append,
                              !.source = src])

InUse == {dir[s] : s \in Slots \cup {Part}} \cup {pull[r].inode : r \in Receiver}

(* from byte 0: File::create, on the .part that is there or a new one *)
OpenNew(r) ==
    /\ pull[r].phase = "asked" /\ Servable
    /\ pull[r].hashed = <<>>
    /\ \E i \in Inode \ {Own} :
          /\ IF dir[Part] = NoFile THEN i \notin InUse ELSE i = dir[Part]
          /\ dir' = [dir EXCEPT ![Part] = i]
          /\ data' = [data EXCEPT ![i] = <<>>]
          /\ Opened(r, i, FALSE)
    /\ UNCHANGED <<src, edits, faults>>

(* from an offset: the .part is opened to append, if it is still there *)
OpenOld(r) ==
    /\ pull[r].phase = "asked" /\ Servable
    /\ pull[r].hashed # <<>>
    /\ IF dir[Part] # NoFile THEN Opened(r, dir[Part], TRUE) ELSE End(r, "local")
    /\ UNCHANGED <<dir, data, src, edits, faults>>

(***************************************************************************)
(* One chunk: to the file, at its end or at this handle's position, and to *)
(* the hasher.                                                             *)
(***************************************************************************)
WriteAt(content, pos, byte) ==
    [i \in 1..(IF pos > Len(content) THEN pos ELSE Len(content)) |->
        IF i = pos THEN byte ELSE IF i <= Len(content) THEN content[i] ELSE Zero]

Done(r) == Len(pull[r].hashed)

Receive(r) ==
    /\ pull[r].phase = "open"
    /\ Done(r) < Size
    /\ Done(r) < Len(pull[r].source)
    /\ LET byte == pull[r].source[Done(r) + 1]
           old  == data[pull[r].inode]
           pos  == IF pull[r].append THEN Len(old) + 1 ELSE Done(r) + 1
       IN /\ data' = [data EXCEPT ![pull[r].inode] = WriteAt(old, pos, byte)]
          /\ Become(r, [pull[r] EXCEPT !.hashed = Append(@, byte)])
    /\ UNCHANGED <<dir, src, edits, faults>>

(* the sender's file ended early: the stream finishes, bytes are missing *)
Short(r) ==
    /\ pull[r].phase = "open"
    /\ Done(r) < Size
    /\ Len(pull[r].source) <= Done(r)
    /\ End(r, "lost")
    /\ UNCHANGED <<dir, data, src, edits, faults>>

(* a stream error: the engine keeps the .part and returns *)
Break(r) ==
    /\ \/ pull[r].phase = "asked"
       \/ pull[r].phase = "open" /\ Done(r) < Size
    /\ Fault
    /\ \E code1 \in BOOLEAN :
          Become(r, [pull[r] EXCEPT !.phase = "broken", !.inode = NoFile,
                                    !.cancelled = code1])
    /\ UNCHANGED <<dir, data, src, edits>>

(* classify_io_failure: a cancel, if the peer's close is seen within 2 s *)
Classify(r) ==
    /\ pull[r].phase = "broken"
    /\ \E seen \in BOOLEAN :
          IF pull[r].cancelled /\ seen THEN Unlink /\ End(r, "cancelled")
          ELSE UNCHANGED dir /\ End(r, "lost")
    /\ UNCHANGED <<data, src, edits, faults>>

(* create, open, write, flush or rename fails: LocalIo *)
LocalFailure(r) ==
    /\ pull[r].phase \in {"asked", "open", "landing"}
    /\ Fault
    /\ Unlink
    /\ End(r, "local")
    /\ UNCHANGED <<data, src, edits>>

Crash(r) ==
    /\ pull[r].phase # "idle"
    /\ Fault
    /\ End(r, "killed")
    /\ UNCHANGED <<dir, data, src, edits>>

(***************************************************************************)
(* The hash gate, the choice of a free name, and the rename.               *)
(***************************************************************************)
\* Mutant: the plain name, taken or not
FreeSlotPlain == 1

FreeSlot == CHOOSE s \in FreeSlots : \A t \in FreeSlots : s <= t

\* Mutants: the size is compared, not the hash; a mismatch keeps the .part
VerifySize(r) ==
    /\ pull[r].phase = "open"
    /\ Done(r) = Size
    /\ Become(r, [pull[r] EXCEPT !.phase = "landing", !.inode = NoFile, !.dest = FreeSlot])
    /\ UNCHANGED <<dir, data, src, edits, faults>>

VerifyKeeps(r) ==
    /\ pull[r].phase = "open"
    /\ Done(r) = Size
    /\ IF pull[r].hashed = Committed
       THEN Become(r, [pull[r] EXCEPT !.phase = "landing", !.inode = NoFile, !.dest = FreeSlot])
       ELSE End(r, "mismatch")
    /\ UNCHANGED <<dir, data, src, edits, faults>>

Verify(r) ==
    /\ pull[r].phase = "open"
    /\ Done(r) = Size
    /\ IF pull[r].hashed = Committed
       THEN /\ Become(r, [pull[r] EXCEPT !.phase = "landing", !.inode = NoFile,
                                         !.dest = FreeSlot])
            /\ UNCHANGED dir
       ELSE Unlink /\ End(r, "mismatch")
    /\ UNCHANGED <<data, src, edits, faults>>

Land(r) ==
    /\ pull[r].phase = "landing"
    /\ IF dir[Part] # NoFile
       THEN /\ dir' = [dir EXCEPT ![pull[r].dest] = dir[Part], ![Part] = NoFile]
            /\ End(r, "saved")
       ELSE UNCHANGED dir /\ End(r, "local")
    /\ UNCHANGED <<data, src, edits, faults>>

(* The sender's user edits the file: in place, so that a stream already     *)
(* open reads the new bytes, or by replacing or deleting it.                *)
Edit(content) ==
    /\ edits < MaxEdits
    /\ edits' = edits + 1
    /\ content # src
    /\ src' = content
    /\ \/ UNCHANGED pull
       \/ /\ content # Gone
          /\ pull' = [r \in Receiver |-> IF pull[r].phase = "open"
                                         THEN [pull[r] EXCEPT !.source = content]
                                         ELSE pull[r]]
    /\ UNCHANGED <<dir, data, faults>>

Step(r) ==
    \/ Begin(r) \/ Refuse(r) \/ OpenNew(r) \/ OpenOld(r) \/ Receive(r) \/ Short(r)
    \/ Classify(r) \/ Verify(r) \/ Land(r)

Next ==
    \/ \E r \in Receiver : Step(r) \/ Break(r) \/ LocalFailure(r) \/ Crash(r)
    \/ \E content \in Source \cup {Gone} : Edit(content)

Spec == Init /\ [][Next]_vars

(***************************************************************************)
(* Safety, while no two pulls of one name run in one directory at a time.  *)
(* Nothing in the code enforces that: the .part is named after the file.   *)
(***************************************************************************)
Active == {r \in Receiver : pull[r].phase # "idle"}

Alone == \A r, q \in Active : r = q

AloneSpec == Init /\ [][Next /\ Alone']_vars

(* engine.rs:195-198, "the hash gate is what makes the file available":     *)
(* whatever was edited, broken off, killed and resumed, a file that appears *)
(* under the ticket's name holds the bytes the ticket commits to.           *)
LandedIsCommitted ==
    \A s \in Slots : dir[s] \notin {NoFile, Own} => data[dir[s]] = Committed

(* engine.rs:338-345: a pull that ends on a connection loss, or is killed,  *)
(* leaves in the .part exactly the bytes it hashed, so that the next one    *)
(* resumes from all of them; one that ends otherwise leaves no .part.       *)
Held == IF dir[Part] = NoFile THEN <<>> ELSE data[dir[Part]]

PartFollowsOutcome ==
    [][\A r \in Active : pull'[r].phase = "idle" =>
          IF pull'[r].outcome \in {"lost", "killed"}
          THEN Held' = pull'[r].hashed
          ELSE dir'[Part] = NoFile]_vars

(* The directory, through its names, keeps the promise of Downloads *)
Saved == [s \in Slots |-> IF dir[s] = NoFile THEN NoFile ELSE data[dir[s]]]

Promise == INSTANCE Downloads WITH saved <- Saved, Own <- {OwnFile}, Absent <- NoFile

DownloadsSpec == Promise!Spec

(***************************************************************************)
(* Liveness.  The user runs `mascara recv` again after a failure, and the  *)
(* tasks of both programs run; edits and faults are bounded and never      *)
(* obliged to happen.                                                      *)
(***************************************************************************)
FairAloneSpec == AloneSpec /\ \A r \in Receiver : WF_vars(Step(r) /\ Alone')

(* However often the pull was broken, and whatever the sender's file held   *)
(* meanwhile, a bad .part never blocks it: once the file is and stays the   *)
(* one the ticket was made for, some retry saves it.                        *)
RetrySucceeds ==
    <>[](src = Committed) => <>(\E r \in Receiver : pull[r].outcome = "saved")
=============================================================================
