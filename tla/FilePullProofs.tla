---------------------------- MODULE FilePullProofs ----------------------------
(* Theorems about FilePull while one pull at a time works on a name, for    *)
(* every content, source, leftover, number of edits and of faults.          *)
EXTENDS FilePull, SequenceTheorems, FiniteSetTheorems, WellFoundedInduction, TLAPS

(***************************************************************************)
(* The inductive invariant.  From the request to the rename, the .part     *)
(* holds exactly what the active pull has hashed; and no landed name       *)
(* stands for the .part's file, so writing to the one never touches the    *)
(* other.                                                                  *)
(***************************************************************************)
Names == Slots \cup {Part}

Shapes ==
    /\ dir \in [Names -> Inode \cup {NoFile}]
    /\ data \in [Inode -> Seq(Byte)]
    /\ src \in Source \cup {Gone}
    /\ pull \in [Receiver -> Pull]

PartApart ==
    /\ dir[Part] # Own
    /\ \A s \in Slots : dir[s] # NoFile => dir[s] # dir[Part]

HeldIn(d, f) == IF d[Part] = NoFile THEN <<>> ELSE f[d[Part]]

FirstFree(s, d) ==
    /\ s \in Slots /\ d[s] = NoFile
    /\ \A t \in Slots : d[t] = NoFile => s <= t

PullSound(k, d, f) == k.phase # "idle" =>
    /\ \E s \in Slots : d[s] = NoFile
    /\ HeldIn(d, f) = k.hashed
    /\ k.phase = "open" => d[Part] # NoFile /\ k.inode = d[Part]
    /\ k.phase = "landing" => k.hashed = Committed /\ FirstFree(k.dest, d)

PullInv ==
    /\ Shapes
    /\ PartApart
    /\ data[Own] = OwnFile
    /\ \A r \in Receiver : PullSound(pull[r], dir, data)
    /\ LandedIsCommitted
    /\ Alone

(***************************************************************************)
(* What a step does to the landed files: nothing, or what Downloads allows.*)
(***************************************************************************)
SlotsKept ==
    /\ \A s \in Slots : dir'[s] = dir[s] /\ (dir[s] # NoFile => data'[dir[s]] = data[dir[s]])
    /\ data'[Own] = data[Own]

EndsWell(r) == pull[r].phase # "idle" /\ pull'[r].phase = "idle" =>
    IF pull'[r].outcome \in {"lost", "killed"} THEN Held' = pull'[r].hashed
                                               ELSE dir'[Part] = NoFile

Moves(r) == PullInv' /\ SlotsKept /\ EndsWell(r)

(* a step of one receiver that leaves the landed files alone *)
Quiet(r, k) ==
    /\ k \in Pull /\ pull' = [pull EXCEPT ![r] = k]
    /\ dir' \in [Names -> Inode \cup {NoFile}] /\ data' \in [Inode -> Seq(Byte)]
    /\ src' = src
    /\ SlotsKept
    /\ PartApart'
    /\ PullSound(k, dir', data')

LEMMA NamesApart == Part \notin Slots /\ Slots \subseteq Names /\ Part \in Names
BY PullAssumption DEF Part, Slots, Names

LEMMA SavedKept == ASSUME SlotsKept PROVE Saved' = Saved
BY DEF SlotsKept, Saved

LEMMA OthersIdle ==
    ASSUME Alone, Alone', NEW r \in Receiver, NEW k,
           pull \in [Receiver -> Pull], pull' = [pull EXCEPT ![r] = k],
           pull[r].phase # "idle" \/ k.phase # "idle"
    PROVE  \A q \in Receiver \ {r} : pull[q].phase = "idle" /\ pull'[q] = pull[q]
BY DEF Alone, Active

LEMMA QuietKeepsInv ==
    ASSUME PullInv, Alone', NEW r \in Receiver, NEW k, Quiet(r, k),
           pull[r].phase # "idle" \/ k.phase # "idle"
    PROVE  PullInv'
<1>1. \A q \in Receiver \ {r} : pull[q].phase = "idle" /\ pull'[q] = pull[q]
    BY OthersIdle DEF PullInv, Shapes, Quiet
<1>2. pull'[r] = k /\ pull' \in [Receiver -> Pull]
    BY DEF PullInv, Shapes, Quiet
<1>3. Shapes'
    BY <1>2 DEF PullInv, Shapes, Quiet
<1>4. \A q \in Receiver : PullSound(pull'[q], dir', data')
    BY <1>1, <1>2 DEF PullSound, Quiet
<1>5. LandedIsCommitted'
    BY DEF PullInv, Quiet, SlotsKept, LandedIsCommitted
<1>6. data'[Own] = OwnFile
    BY DEF PullInv, Quiet, SlotsKept
<1>7. QED
    BY <1>3, <1>4, <1>5, <1>6 DEF PullInv, Quiet

LEMMA FirstExists ==
    ASSUME NEW T \in SUBSET Nat, T # {}
    PROVE  \E x \in T : \A y \in T : x <= y
<1> DEFINE R == OpToRel(<, Nat)
<1>1. IsWellFoundedOn(R, Nat)
    BY NatLessThanWellFounded
<1>2. \A x, y \in Nat : <<y, x>> \in R <=> y < x
    BY DEF OpToRel
<1> HIDE DEF R
<1>3. PICK x \in T : \A y \in T : <<y, x>> \notin R
    BY <1>1, WFMin
<1>4. ASSUME NEW y \in T PROVE x <= y
    <2>1. x \in Nat /\ y \in Nat /\ <<y, x>> \notin R
        BY <1>3
    <2>2. ~(y < x)
        BY <1>2, <2>1
    <2>3. QED
        BY <2>1, <2>2
<1>5. QED
    BY <1>4

LEMMA FreeSlotIsFirst ==
    ASSUME NEW s \in Slots, dir[s] = NoFile
    PROVE  FirstFree(FreeSlot, dir)
<1>1. FreeSlots \in SUBSET Nat /\ FreeSlots # {}
    BY PullAssumption DEF FreeSlots, Slots
<1>2. \E x \in FreeSlots : \A y \in FreeSlots : x <= y
    BY <1>1, FirstExists
<1>3. FreeSlot \in FreeSlots /\ \A t \in FreeSlots : FreeSlot <= t
    BY <1>2 DEF FreeSlot
<1>4. QED
    BY <1>3 DEF FreeSlots, FirstFree

(* writing at the position of a handle that has seen the whole file, or at *)
(* its end, appends                                                        *)
LEMMA WriteAppends ==
    ASSUME NEW old \in Seq(Byte), NEW byte \in Byte
    PROVE  WriteAt(old, Len(old) + 1, byte) = Append(old, byte)
<1>1. Len(old) \in Nat /\ old \in [1..Len(old) -> Byte]
    BY LenProperties
<1>2. Append(old, byte) \in Seq(Byte) /\ Len(Append(old, byte)) = Len(old) + 1
      /\ \A i \in 1..Len(old) : Append(old, byte)[i] = old[i]
      /\ Append(old, byte)[Len(old) + 1] = byte
    BY AppendProperties
<1>3. Append(old, byte) \in [1..(Len(old) + 1) -> Byte]
    BY <1>2, LenProperties
<1>4. WriteAt(old, Len(old) + 1, byte)
         = [i \in 1..(Len(old) + 1) |-> IF i = Len(old) + 1 THEN byte ELSE old[i]]
    BY <1>1 DEF WriteAt
<1>5. \A i \in 1..(Len(old) + 1) : i # Len(old) + 1 => i \in 1..Len(old)
    BY <1>1
<1>6. QED
    BY <1>2, <1>3, <1>4, <1>5

LEMMA IdleIsPull ==
    ASSUME NEW outcome \in Outcome, NEW hashed \in Seq(Byte)
    PROVE  Idle(outcome, hashed) \in Pull
BY EmptySeq DEF Idle, Pull, Phase

(* the directory as it is, or without its .part; the contents as they are *)
LEMMA KeptIsQuiet ==
    ASSUME PullInv, NEW r \in Receiver, NEW k \in Pull,
           pull' = [pull EXCEPT ![r] = k],
           UNCHANGED dir \/ Unlink, UNCHANGED <<data, src>>,
           PullSound(k, dir', data')
    PROVE  Quiet(r, k)
<1>1. /\ dir' \in [Names -> Inode \cup {NoFile}]
      /\ \A s \in Slots : dir'[s] = dir[s]
      /\ dir'[Part] \in {dir[Part], NoFile}
    BY NamesApart DEF PullInv, Shapes, Unlink
<1>2. PartApart'
    BY <1>1, PullAssumption DEF PullInv, PartApart
<1>3. QED
    BY <1>1, <1>2 DEF PullInv, Shapes, Quiet, SlotsKept

(* a pull goes on *)
LEMMA StayMoves ==
    ASSUME PullInv, Alone', NEW r \in Receiver, NEW k, Quiet(r, k), k.phase # "idle"
    PROVE  Moves(r)
<1>1. PullInv'
    BY QuietKeepsInv
<1>2. pull'[r] = k
    BY DEF PullInv, Shapes, Quiet
<1>3. QED
    BY <1>1, <1>2 DEF Moves, Quiet, EndsWell

(* a pull ends: its .part goes, or stays with what was hashed *)
LEMMA EndMoves ==
    ASSUME PullInv, Alone', NEW r \in Receiver, NEW outcome \in Outcome, End(r, outcome),
           pull[r].phase # "idle", UNCHANGED dir \/ Unlink, UNCHANGED <<data, src>>,
           outcome \in {"lost", "killed"} \/ Unlink \/ dir[Part] = NoFile,
           outcome \in {"lost", "killed"} => UNCHANGED dir
    PROVE  Moves(r)
<1> DEFINE k == Idle(outcome, pull[r].hashed)
<1>1. pull[r] \in Pull /\ pull[r].hashed \in Seq(Byte)
    BY DEF PullInv, Shapes, Pull
<1>2. k \in Pull
    BY <1>1, IdleIsPull
<1>3. k.phase = "idle" /\ k.outcome = outcome /\ k.hashed = pull[r].hashed
    BY DEF Idle
<1>4. pull' = [pull EXCEPT ![r] = k]
    BY DEF End, Become
<1> HIDE DEF k
<1>5. PullSound(k, dir', data')
    BY <1>3 DEF PullSound
<1>6. Quiet(r, k)
    BY <1>2, <1>4, <1>5, KeptIsQuiet
<1>7. pull'[r] = k
    BY <1>4 DEF PullInv, Shapes
<1>m. PullInv' /\ SlotsKept
    BY <1>6, QuietKeepsInv DEF Quiet
<1>8. CASE outcome \in {"lost", "killed"}
    <2>1. HeldIn(dir, data) = pull[r].hashed
        BY DEF PullInv, PullSound
    <2>2. Held' = pull'[r].hashed
        BY <1>3, <1>7, <1>8, <2>1 DEF Held, HeldIn
    <2>3. QED
        BY <1>3, <1>m, <1>7, <1>8, <2>2 DEF EndsWell, Moves
<1>9. CASE outcome \notin {"lost", "killed"}
    <2>1. dir'[Part] = NoFile
        BY <1>9, NamesApart DEF PullInv, Shapes, Unlink
    <2>2. QED
        BY <1>3, <1>m, <1>7, <1>9, <2>1 DEF EndsWell, Moves
<1>10. QED
    BY <1>8, <1>9

(***************************************************************************)
(* One lemma per action.                                                   *)
(***************************************************************************)
LEMMA Facts ==
    ASSUME PullInv, NEW r \in Receiver
    PROVE  /\ pull[r] \in Pull /\ pull[r].hashed \in Seq(Byte)
           /\ pull[r].source \in Seq(Byte)
           /\ PullSound(pull[r], dir, data)
           /\ dir[Part] \in Inode \cup {NoFile}
           /\ dir[Part] # NoFile => data[dir[Part]] \in Seq(Byte)
BY NamesApart, PullAssumption DEF PullInv, Shapes, Pull

LEMMA BeginMoves ==
    ASSUME PullInv, Alone', NEW r \in Receiver, Begin(r)
    PROVE  Moves(r)
<1>1. PICK hashed \in Seq(Byte) :
         /\ Ask(r, hashed)
         /\ \/ UNCHANGED dir /\ dir[Part] # NoFile /\ hashed = data[dir[Part]]
            \/ Unlink /\ hashed = <<>>
    BY Facts, EmptySeq DEF Begin
<1> DEFINE k == [Idle("none", hashed) EXCEPT !.phase = "asked"]
<1>2. k \in Pull /\ k.phase = "asked" /\ k.hashed = hashed
    BY EmptySeq DEF Idle, Pull, Phase, Outcome
<1>3. pull' = [pull EXCEPT ![r] = k]
    BY <1>1 DEF Ask, Become
<1> HIDE DEF k
<1>4. FreeSlots # {}
    <2>1. {q \in Receiver : pull[q].phase # "idle"} = {}
        BY <1>2, <1>3, OthersIdle DEF PullInv, Shapes, Begin
    <2>2. SUFFICES ASSUME FreeSlots = {} PROVE FALSE
        OBVIOUS
    <2>3. Cardinality({}) > Cardinality({})
        BY <2>1, <2>2 DEF Begin
    <2>4. QED
        BY <2>3, FS_EmptySet
<1>5. \E s \in Slots : dir'[s] = NoFile
    BY <1>1, <1>4, NamesApart DEF FreeSlots, Unlink, PullInv, Shapes
<1>6. HeldIn(dir', data') = hashed
    BY <1>1, NamesApart DEF Begin, HeldIn, Unlink, PullInv, Shapes
<1>7. PullSound(k, dir', data')
    BY <1>2, <1>5, <1>6 DEF PullSound
<1>8. Quiet(r, k)
    BY <1>1, <1>2, <1>3, <1>7, KeptIsQuiet DEF Begin
<1>9. QED
    BY <1>2, <1>8, StayMoves

LEMMA RefuseMoves ==
    ASSUME PullInv, Alone', NEW r \in Receiver, Refuse(r)
    PROVE  Moves(r)
BY EndMoves DEF Refuse, Outcome

LEMMA ShortMoves ==
    ASSUME PullInv, Alone', NEW r \in Receiver, Short(r)
    PROVE  Moves(r)
BY EndMoves DEF Short, Outcome

LEMMA ClassifyMoves ==
    ASSUME PullInv, Alone', NEW r \in Receiver, Classify(r)
    PROVE  Moves(r)
BY EndMoves DEF Classify, Outcome

LEMMA LocalFailureMoves ==
    ASSUME PullInv, Alone', NEW r \in Receiver, LocalFailure(r)
    PROVE  Moves(r)
BY EndMoves DEF LocalFailure, Outcome

LEMMA CrashMoves ==
    ASSUME PullInv, Alone', NEW r \in Receiver, Crash(r)
    PROVE  Moves(r)
BY EndMoves DEF Crash, Outcome

LEMMA BreakMoves ==
    ASSUME PullInv, Alone', NEW r \in Receiver, Break(r)
    PROVE  Moves(r)
<1>1. PICK code1 \in BOOLEAN :
         pull' = [pull EXCEPT ![r] = [pull[r] EXCEPT !.phase = "broken", !.inode = NoFile,
                                                     !.cancelled = code1]]
    BY DEF Break, Become
<1> DEFINE k == [pull[r] EXCEPT !.phase = "broken", !.inode = NoFile, !.cancelled = code1]
<1>2. k \in Pull /\ k.phase = "broken" /\ k.hashed = pull[r].hashed
    BY Facts DEF Pull, Phase
<1>3. pull' = [pull EXCEPT ![r] = k]
    BY <1>1
<1> HIDE DEF k
<1>4. PullSound(k, dir', data')
    BY <1>2, Facts DEF Break, PullSound
<1>5. Quiet(r, k)
    BY <1>2, <1>3, <1>4, KeptIsQuiet DEF Break
<1>6. QED
    BY <1>2, <1>5, StayMoves

LEMMA VerifyMoves ==
    ASSUME PullInv, Alone', NEW r \in Receiver, Verify(r)
    PROVE  Moves(r)
<1>1. CASE pull[r].hashed = Committed
    <2> DEFINE k == [pull[r] EXCEPT !.phase = "landing", !.inode = NoFile, !.dest = FreeSlot]
    <2>1. FirstFree(FreeSlot, dir)
        BY FreeSlotIsFirst, Facts DEF Verify, PullSound
    <2>2. k \in Pull /\ k.phase = "landing" /\ k.hashed = pull[r].hashed /\ k.dest = FreeSlot
        BY <2>1, Facts DEF Pull, Phase, FirstFree
    <2>3. pull' = [pull EXCEPT ![r] = k] /\ UNCHANGED <<dir, data, src>>
        BY <1>1 DEF Verify, Become
    <2> HIDE DEF k
    <2>4. PullSound(k, dir', data')
        BY <1>1, <2>1, <2>2, <2>3, Facts DEF Verify, PullSound
    <2>5. Quiet(r, k)
        BY <2>2, <2>3, <2>4, KeptIsQuiet
    <2>6. QED
        BY <2>2, <2>5, StayMoves
<1>2. CASE pull[r].hashed # Committed
    BY <1>2, EndMoves DEF Verify, Outcome
<1>3. QED
    BY <1>1, <1>2

LEMMA OpenNewMoves ==
    ASSUME PullInv, Alone', NEW r \in Receiver, OpenNew(r)
    PROVE  Moves(r)
<1>1. PICK i \in Inode \ {Own} :
         /\ IF dir[Part] = NoFile THEN i \notin InUse ELSE i = dir[Part]
         /\ dir' = [dir EXCEPT ![Part] = i]
         /\ data' = [data EXCEPT ![i] = <<>>]
         /\ pull' = [pull EXCEPT ![r] = [pull[r] EXCEPT !.phase = "open", !.inode = i,
                                                        !.append = FALSE, !.source = src]]
    BY DEF OpenNew, Opened, Become
<1> DEFINE k == [pull[r] EXCEPT !.phase = "open", !.inode = i, !.append = FALSE, !.source = src]
<1>2. src \in Seq(Byte) /\ UNCHANGED src /\ pull[r].phase = "asked" /\ pull[r].hashed = <<>>
    BY PullAssumption DEF OpenNew, Servable, PullInv, Shapes
<1>3. k \in Pull /\ k.phase = "open" /\ k.hashed = <<>> /\ k.inode = i
    BY <1>2, Facts DEF Pull, Phase
<1>4. pull' = [pull EXCEPT ![r] = k]
    BY <1>1
<1> HIDE DEF k
<1>5. \A s \in Slots : dir[s] # i
    BY <1>1, PullAssumption DEF PullInv, PartApart, InUse
<1>6. /\ dir' \in [Names -> Inode \cup {NoFile}] /\ dir'[Part] = i
      /\ \A s \in Slots : dir'[s] = dir[s]
    BY <1>1, NamesApart DEF PullInv, Shapes
<1>7. data' \in [Inode -> Seq(Byte)] /\ data'[i] = <<>> /\ \A j \in Inode \ {i} : data'[j] = data[j]
    BY <1>1, EmptySeq DEF PullInv, Shapes
<1>8. SlotsKept
    BY <1>5, <1>6, <1>7, NamesApart, PullAssumption DEF SlotsKept, PullInv, Shapes
<1>9. PartApart'
    BY <1>5, <1>6 DEF PartApart
<1>10. PullSound(k, dir', data')
    BY <1>2, <1>3, <1>6, <1>7, Facts, PullAssumption DEF PullSound, HeldIn
<1>11. Quiet(r, k)
    BY <1>2, <1>3, <1>4, <1>6, <1>7, <1>8, <1>9, <1>10 DEF Quiet
<1>12. QED
    BY <1>3, <1>11, StayMoves

LEMMA OpenOldMoves ==
    ASSUME PullInv, Alone', NEW r \in Receiver, OpenOld(r)
    PROVE  Moves(r)
<1>1. CASE dir[Part] # NoFile
    <2> DEFINE k == [pull[r] EXCEPT !.phase = "open", !.inode = dir[Part], !.append = TRUE,
                                    !.source = src]
    <2>1. src \in Seq(Byte)
        BY PullAssumption DEF OpenOld, Servable, PullInv, Shapes
    <2>2. k \in Pull /\ k.phase = "open" /\ k.hashed = pull[r].hashed /\ k.inode = dir[Part]
        BY <2>1, Facts DEF Pull, Phase
    <2>3. pull' = [pull EXCEPT ![r] = k] /\ UNCHANGED <<dir, data, src>>
        BY <1>1 DEF OpenOld, Opened, Become
    <2> HIDE DEF k
    <2>4. PullSound(k, dir', data')
        BY <1>1, <2>2, <2>3, Facts DEF OpenOld, PullSound
    <2>5. Quiet(r, k)
        BY <2>2, <2>3, <2>4, KeptIsQuiet
    <2>6. QED
        BY <2>2, <2>5, StayMoves
<1>2. CASE dir[Part] = NoFile
    BY <1>2, EndMoves DEF OpenOld, Outcome
<1>3. QED
    BY <1>1, <1>2

LEMMA ReceiveMoves ==
    ASSUME PullInv, Alone', NEW r \in Receiver, Receive(r)
    PROVE  Moves(r)
<1> DEFINE i    == dir[Part]
           byte == pull[r].source[Done(r) + 1]
           k    == [pull[r] EXCEPT !.hashed = Append(pull[r].hashed, byte)]
<1>1. /\ pull[r].phase = "open" /\ i # NoFile /\ pull[r].inode = i
      /\ data[i] = pull[r].hashed /\ i \in Inode
    BY Facts DEF Receive, PullSound, HeldIn
<1>2. byte \in Byte
    <2>1. Done(r) \in Nat /\ Len(pull[r].source) \in Nat
        BY Facts, LenProperties DEF Done
    <2>2. Done(r) + 1 \in 1..Len(pull[r].source)
        BY <2>1 DEF Receive
    <2>3. QED
        BY <2>2, Facts, ElementOfSeq
<1>3. Append(pull[r].hashed, byte) \in Seq(Byte)
    BY <1>2, Facts, AppendProperties
<1>4. /\ data' = [data EXCEPT ![i] = Append(pull[r].hashed, byte)]
      /\ pull' = [pull EXCEPT ![r] = k]
      /\ UNCHANGED <<dir, src>>
    <2>1. WriteAt(pull[r].hashed, Len(pull[r].hashed) + 1, byte) = Append(pull[r].hashed, byte)
        BY <1>2, Facts, WriteAppends
    <2>2. QED
        BY <1>1, <2>1 DEF Receive, Become, Done
<1>5. k \in Pull /\ k.phase = "open" /\ k.hashed = Append(pull[r].hashed, byte) /\ k.inode = i
    BY <1>1, <1>3, Facts DEF Pull
<1> HIDE DEF k, byte
<1>6. data' \in [Inode -> Seq(Byte)] /\ \A j \in Inode \ {i} : data'[j] = data[j]
    BY <1>1, <1>3, <1>4 DEF PullInv, Shapes
<1>7. data'[i] = k.hashed
    BY <1>1, <1>4, <1>5 DEF PullInv, Shapes
<1>8. SlotsKept
    BY <1>1, <1>4, <1>6, NamesApart, PullAssumption DEF SlotsKept, PullInv, PartApart, Shapes
<1>9. PullSound(k, dir', data')
    BY <1>1, <1>4, <1>5, <1>7, Facts DEF PullSound, HeldIn
<1>10. Quiet(r, k)
    BY <1>4, <1>5, <1>6, <1>8, <1>9 DEF Quiet, PullInv, Shapes, PartApart
<1>11. QED
    BY <1>5, <1>10, StayMoves

LEMMA LandMoves ==
    ASSUME PullInv, Alone', NEW r \in Receiver, Land(r)
    PROVE  PullInv' /\ EndsWell(r) /\ (SlotsKept \/ Promise!Next)
<1> DEFINE d == pull[r].dest
<1>1. pull[r].phase = "landing" /\ FirstFree(d, dir) /\ HeldIn(dir, data) = Committed
    BY Facts DEF Land, PullSound
<1>2. CASE dir[Part] = NoFile
    BY <1>1, <1>2, EndMoves DEF Land, Outcome, Moves
<1>3. CASE dir[Part] # NoFile
    <2>1. /\ dir' = [dir EXCEPT ![d] = dir[Part], ![Part] = NoFile]
          /\ pull' = [pull EXCEPT ![r] = Idle("saved", pull[r].hashed)]
          /\ UNCHANGED <<data, src>>
        BY <1>3 DEF Land, End, Become
    <2>2. d \in Slots /\ dir[d] = NoFile
        BY <1>1 DEF FirstFree
    <2>3. /\ dir' \in [Names -> Inode \cup {NoFile}]
          /\ dir'[Part] = NoFile /\ dir'[d] = dir[Part]
          /\ \A s \in Slots \ {d} : dir'[s] = dir[s]
        BY <2>1, <2>2, NamesApart DEF PullInv, Shapes
    <2>4. data[dir[Part]] = Committed /\ dir[Part] \in Inode
        BY <1>1, <1>3, Facts DEF HeldIn
    <2>5. Idle("saved", pull[r].hashed) \in Pull
        BY IdleIsPull, Facts DEF Outcome
    <2>6. /\ pull' \in [Receiver -> Pull] /\ pull'[r].phase = "idle" /\ pull'[r].outcome = "saved"
          /\ \A q \in Receiver \ {r} : pull'[q] = pull[q]
        BY <2>1, <2>5 DEF PullInv, Shapes, Idle
    <2>7. Shapes' /\ data'[Own] = OwnFile
        BY <2>1, <2>3, <2>6 DEF PullInv, Shapes
    <2>8. PartApart'
        BY <2>3, PullAssumption DEF PartApart
    <2>9. LandedIsCommitted'
        BY <2>1, <2>3, <2>4 DEF PullInv, LandedIsCommitted
    <2>10. \A q \in Receiver : PullSound(pull'[q], dir', data')
        <3>1. ASSUME NEW q \in Receiver \ {r} PROVE pull'[q].phase = "idle"
            BY <1>1, <2>6 DEF PullInv, Alone, Active
        <3>2. QED
            BY <2>6, <3>1 DEF PullSound
    <2>11. PullInv'
        BY <2>7, <2>8, <2>9, <2>10 DEF PullInv
    <2>12. Promise!Place(d)
        <3>1. Saved[d] = NoFile
            BY <2>2 DEF Saved
        <3>2. ASSUME NEW s \in Slots, s < d PROVE Saved[s] # NoFile
            <4>1. dir[s] # NoFile
                BY <1>1, <3>2, PullAssumption DEF FirstFree, Slots
            <4>2. data[dir[s]] \in Seq(Byte)
                BY <4>1, NamesApart DEF PullInv, Shapes
            <4>3. QED
                BY <4>1, <4>2, PullAssumption DEF Saved
        <3>3. Saved' = [Saved EXCEPT ![d] = Committed]
            <4>1. Saved'[d] = Committed
                <5>1. dir'[d] # NoFile /\ data'[dir'[d]] = Committed
                    BY <1>3, <2>1, <2>3, <2>4
                <5>2. QED
                    BY <2>2, <5>1 DEF Saved
            <4>2. ASSUME NEW s \in Slots \ {d} PROVE Saved'[s] = Saved[s]
                <5>1. dir'[s] = dir[s] /\ data' = data
                    BY <2>1, <2>3
                <5>2. QED
                    BY <5>1 DEF Saved
            <4>3. DOMAIN Saved = Slots /\ Saved = [s \in Slots |-> Saved[s]]
                  /\ Saved' = [s \in Slots |-> Saved'[s]]
                BY DEF Saved
            <4>4. QED
                BY <2>2, <4>1, <4>2, <4>3
        <3>4. QED
            BY <3>1, <3>2, <3>3 DEF Promise!Place
    <2>13. QED
        BY <2>2, <2>3, <2>6, <2>11, <2>12 DEF EndsWell, Promise!Next
<1>4. QED
    BY <1>2, <1>3

(* the sender's user: nothing in the receiver's directory *)
LEMMA EditMoves ==
    ASSUME PullInv, Alone', NEW content \in Source \cup {Gone}, Edit(content)
    PROVE  PullInv' /\ SlotsKept /\ \A r \in Receiver : EndsWell(r)
<1>1. \A r \in Receiver :
         /\ pull'[r] \in Pull /\ pull'[r].phase = pull[r].phase
         /\ pull'[r].hashed = pull[r].hashed /\ pull'[r].inode = pull[r].inode
         /\ pull'[r].dest = pull[r].dest
    <2>1. content # Gone => content \in Seq(Byte)
        BY PullAssumption
    <2>2. ASSUME NEW r \in Receiver, content # Gone
          PROVE  [pull[r] EXCEPT !.source = content] \in Pull
        BY <2>1, <2>2, Facts DEF Pull
    <2>3. QED
        BY <2>2, Facts DEF Edit, Pull, PullInv, Shapes
<1>2. pull' \in [Receiver -> Pull]
    <2>1. DOMAIN pull' = Receiver /\ pull' = [r \in DOMAIN pull' |-> pull'[r]]
        BY DEF Edit, PullInv, Shapes
    <2>2. QED
        BY <1>1, <2>1
<1>3. src' \in Source \cup {Gone} /\ UNCHANGED <<dir, data>>
    BY DEF Edit
<1>4. \A r \in Receiver : PullSound(pull'[r], dir', data')
    BY <1>1, <1>3 DEF PullInv, PullSound
<1>5. PullInv'
    BY <1>2, <1>3, <1>4 DEF PullInv, Shapes, PartApart, LandedIsCommitted
<1>6. QED
    BY <1>1, <1>3, <1>5 DEF SlotsKept, EndsWell

LEMMA PullInvInit == Init => PullInv
<1> SUFFICES ASSUME Init PROVE PullInv
    OBVIOUS
<1>1. PICK taken \in SUBSET Slots, left \in {NoFile} \cup (Inode \ {Own}) :
         dir = [s \in Slots \cup {Part} |->
                  IF s \in taken THEN Own ELSE IF s = Part THEN left ELSE NoFile]
    BY DEF Init
<1>2. /\ dir \in [Names -> Inode \cup {NoFile}] /\ dir[Part] = left
      /\ \A s \in Slots : dir[s] \in {Own, NoFile}
    BY <1>1, NamesApart, PullAssumption DEF Names
<1>3. PartApart
    BY <1>2, PullAssumption DEF PartApart
<1>4. PICK content \in Leftover :
         data = [i \in Inode |-> IF i = Own THEN OwnFile
                                 ELSE IF i = dir[Part] THEN content ELSE <<>>]
    BY DEF Init
<1>5. data \in [Inode -> Seq(Byte)] /\ data[Own] = OwnFile
    BY <1>4, EmptySeq, PullAssumption
<1>6. \A r \in Receiver : pull[r] = Idle("none", <<>>)
    BY DEF Init
<1>7. pull \in [Receiver -> Pull]
    BY IdleIsPull, EmptySeq DEF Init, Outcome
<1>8. \A r \in Receiver : pull[r].phase = "idle"
    BY <1>6 DEF Idle
<1>9. Shapes
    BY <1>2, <1>5, <1>7, PullAssumption DEF Shapes, Init
<1>10. LandedIsCommitted
    BY <1>2 DEF LandedIsCommitted
<1>11. QED
    BY <1>3, <1>5, <1>8, <1>9, <1>10 DEF PullInv, PullSound, Alone, Active

(* every step keeps the invariant, keeps the promise of Downloads, and ends *)
(* a pull with the .part its outcome calls for                              *)
StepGood ==
    /\ PullInv'
    /\ SlotsKept \/ Promise!Next
    /\ \A r \in Receiver : EndsWell(r)

LEMMA MoveIsGood ==
    ASSUME PullInv, PullInv', NEW r \in Receiver, NEW k, pull' = [pull EXCEPT ![r] = k],
           EndsWell(r)
    PROVE  \A q \in Receiver : EndsWell(q)
BY DEF PullInv, Shapes, EndsWell

LEMMA BecomesOne ==
    ASSUME PullInv, NEW r \in Receiver,
           Step(r) \/ Break(r) \/ LocalFailure(r) \/ Crash(r)
    PROVE  \E k : pull' = [pull EXCEPT ![r] = k]
BY DEF Step, Begin, Refuse, OpenNew, OpenOld, Receive, Short, Classify, Verify, Land, Break,
    LocalFailure, Crash, Ask, End, Opened, Become

LEMMA EveryStepIsGood ==
    ASSUME PullInv, Next, Alone'
    PROVE  StepGood
<1>1. ASSUME NEW r \in Receiver, Step(r) \/ Break(r) \/ LocalFailure(r) \/ Crash(r)
      PROVE  StepGood
    <2>1. PullInv' /\ EndsWell(r) /\ (SlotsKept \/ Promise!Next)
        BY <1>1, BeginMoves, RefuseMoves, OpenNewMoves, OpenOldMoves, ReceiveMoves, ShortMoves,
           ClassifyMoves, VerifyMoves, LandMoves, BreakMoves, LocalFailureMoves, CrashMoves
        DEF Step, Moves
    <2>2. \A q \in Receiver : EndsWell(q)
        BY <1>1, <2>1, BecomesOne, MoveIsGood
    <2>3. QED
        BY <2>1, <2>2 DEF StepGood
<1>2. ASSUME NEW content \in Source \cup {Gone}, Edit(content)
      PROVE  StepGood
    BY <1>2, EditMoves DEF StepGood
<1>3. QED
    BY <1>1, <1>2 DEF Next

LEMMA StutterKeepsInv == ASSUME PullInv, UNCHANGED vars PROVE PullInv'
BY DEF vars, PullInv, Shapes, PartApart, PullSound, HeldIn, FirstFree, LandedIsCommitted,
    Alone, Active

(* The inductive invariant of a pull that is alone in its directory.        *)
THEOREM PullInvariant == AloneSpec => []PullInv
<1>1. PullInv /\ [Next /\ Alone']_vars => PullInv'
    BY EveryStepIsGood, StutterKeepsInv DEF StepGood
<1>2. QED
    BY <1>1, PullInvInit, PTL DEF AloneSpec

(* engine.rs pull_file_inner, "the hash gate is what makes the file         *)
(* available": whatever the sender's file became, however often the pull    *)
(* broke off or was killed and whatever .part it was resumed from, only     *)
(* bytes the ticket commits to land under a name.                           *)
THEOREM OnlyCommittedLands == AloneSpec => []LandedIsCommitted
BY PullInvariant, PTL DEF PullInv

(* engine.rs pull_file_inner: a lost or killed pull leaves exactly the      *)
(* bytes it hashed, so that the next resumes from all of them; any other    *)
(* end leaves no .part.                                                     *)
THEOREM PartIsWhatWasHashed == AloneSpec => PartFollowsOutcome
<1>1. PullInv /\ [Next /\ Alone']_vars =>
         [\A r \in Active : pull'[r].phase = "idle" =>
             IF pull'[r].outcome \in {"lost", "killed"}
             THEN Held' = pull'[r].hashed
             ELSE dir'[Part] = NoFile]_vars
    BY EveryStepIsGood DEF StepGood, EndsWell, Active
<1>2. QED
    BY <1>1, PullInvariant, PTL DEF AloneSpec, PartFollowsOutcome

(* engine.rs unique_destination and the rename, dialer.rs pull: a download  *)
(* appears whole and in one step, under the first free name, and no file    *)
(* the user has is ever touched.                                            *)
THEOREM PullImplementsDownloads == AloneSpec => DownloadsSpec
<1>1. Init => Promise!Init
    <2> SUFFICES ASSUME Init PROVE Promise!Init
        OBVIOUS
    <2>1. \A s \in Slots : dir[s] \in {Own, NoFile} /\ (dir[s] = Own => data[dir[s]] = OwnFile)
        BY PullInvInit, NamesApart DEF Init, PullInv
    <2>2. QED
        BY <2>1 DEF Promise!Init, Saved
<1>2. PullInv /\ [Next /\ Alone']_vars => [Promise!Next]_Saved
    <2>1. ASSUME UNCHANGED vars PROVE Saved' = Saved
        BY <2>1 DEF vars, Saved
    <2>2. QED
        BY <2>1, EveryStepIsGood, SavedKept DEF StepGood
<1>3. QED
    BY <1>1, <1>2, PullInvariant, PTL DEF AloneSpec, DownloadsSpec, Promise!Spec
=============================================================================
