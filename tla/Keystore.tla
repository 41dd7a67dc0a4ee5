-------------------------------- MODULE Keystore --------------------------------
(***************************************************************************)
(* The identity of a device: keys.json and card.txt, as several commands   *)
(* load, mint or rotate it (keystore.rs, main.rs).  Each file is written to *)
(* a temp file and renamed; the temp file has one name for all processes,  *)
(* so names and the files they stand for are told apart here.              *)
(***************************************************************************)
EXTENDS Naturals, FiniteSets

CONSTANTS Proc,
          Key,      \* identities; the card of each is known by the same value
          Inode,
          NoFile,   \* what a free name stands for
          Empty     \* contents of a file created and not yet written

ASSUME KeystoreAssumption ==
    /\ NoFile \notin Inode
    /\ Empty \notin Key

VARIABLES dir,      \* <home>/identity: names to files
          bytes,    \* files to contents
          cmd,      \* what each process is doing
          minted,   \* identities made so far
          used,     \* identities a command went on with: printed, dialled with
          retired,  \* stored identities that a rotation replaced
          cut       \* a save ended between its two files

vars == <<dir, bytes, cmd, minted, used, retired, cut>>

File == {"keys", "card"}             \* keys.json, card.txt
Name == File \X {"final", "tmp"}

Keys == <<"keys", "final">>
Card == <<"card", "final">>

Step == {"idle", "load", "create", "write", "rename", "use"}

Command == [step   : Step,
            rotate : BOOLEAN,
            id     : Key \cup {Empty},
            file   : File,             \* the one being saved
            handle : Inode \cup {NoFile}]

Idle == [step |-> "idle", rotate |-> FALSE, id |-> Empty, file |-> "keys",
         handle |-> NoFile]

KeystoreTypeOK ==
    /\ dir \in [Name -> Inode \cup {NoFile}]
    /\ bytes \in [Inode -> Key \cup {Empty}]
    /\ cmd \in [Proc -> Command]
    /\ \A p \in Proc : cmd[p].step = "write" => cmd[p].handle \in Inode
    /\ minted \in SUBSET Key
    /\ used \in SUBSET minted
    /\ retired \in SUBSET (minted \cup {Empty})
    /\ cut \in BOOLEAN

Init ==
    /\ dir = [n \in Name |-> NoFile]
    /\ bytes = [i \in Inode |-> Empty]
    /\ cmd = [p \in Proc |-> Idle]
    /\ minted = {}
    /\ used = {}
    /\ retired = {}
    /\ cut = FALSE

Become(p, command) == cmd' = [cmd EXCEPT ![p] = command]

(* a file no name stands for and no process has open *)
Unused == Inode \ ({dir[n] : n \in Name} \cup {cmd[p].handle : p \in Proc})

Exists(n) == dir[n] # NoFile

Contents(n) == bytes[dir[n]]

Tmp(p) == <<cmd[p].file, "tmp">>

Saving(p) == cmd[p].step \in {"create", "write", "rename"}

(***************************************************************************)
(* init_if_missing and rotate                                              *)
(***************************************************************************)
Start(p) ==
    /\ cmd[p].step = "idle"
    /\ Become(p, [Idle EXCEPT !.step = "load"])
    /\ UNCHANGED <<dir, bytes, minted, used, retired, cut>>

(* Identity::mint, then save_identity *)
Mint(p, rotate) ==
    \E id \in Key \ minted :
        /\ minted' = minted \cup {id}
        /\ Become(p, [Idle EXCEPT !.step = "create", !.rotate = rotate, !.id = id])
        /\ UNCHANGED <<dir, bytes, used, retired, cut>>

StartRotate(p) == cmd[p].step = "idle" /\ Mint(p, TRUE)

(* a keys.json that does not parse is an error, never replaced *)
LoadIdentity(p) ==
    /\ cmd[p].step = "load"
    /\ Exists(Keys)
    /\ Become(p, IF Contents(Keys) = Empty THEN Idle
                 ELSE [cmd[p] EXCEPT !.step = "use", !.id = Contents(Keys)])
    /\ UNCHANGED <<dir, bytes, minted, used, retired, cut>>

\* Mutant: the minted identity is gone on with before it is saved
InitMissingUnsaved(p) ==
    /\ cmd[p].step = "load" /\ ~Exists(Keys)
    /\ \E id \in Key \ minted :
          /\ minted' = minted \cup {id}
          /\ Become(p, [cmd[p] EXCEPT !.step = "use", !.id = id])
          /\ UNCHANGED <<dir, bytes, used, retired, cut>>

InitMissing(p) == cmd[p].step = "load" /\ ~Exists(Keys) /\ Mint(p, FALSE)

(***************************************************************************)
(* atomic_write, of keys.json and then of card.txt                         *)
(***************************************************************************)
\* Mutant: the file itself is opened, and truncated, in place of a temp file
CreateInPlace(p) ==
    /\ cmd[p].step = "create"
    /\ \E i \in IF Exists(<<cmd[p].file, "final">>) THEN {dir[<<cmd[p].file, "final">>]}
                ELSE Unused :
          /\ dir' = [dir EXCEPT ![<<cmd[p].file, "final">>] = i, ![Tmp(p)] = i]
          /\ bytes' = [bytes EXCEPT ![i] = Empty]
          /\ Become(p, [cmd[p] EXCEPT !.step = "write", !.handle = i])
    /\ UNCHANGED <<minted, used, retired, cut>>

(* File::create empties a temp file that is there, another process's even *)
Create(p) ==
    /\ cmd[p].step = "create"
    /\ \E i \in IF Exists(Tmp(p)) THEN {dir[Tmp(p)]} ELSE Unused :
          /\ dir' = [dir EXCEPT ![Tmp(p)] = i]
          /\ bytes' = [bytes EXCEPT ![i] = Empty]
          /\ Become(p, [cmd[p] EXCEPT !.step = "write", !.handle = i])
    /\ UNCHANGED <<minted, used, retired, cut>>

(* into the file that was opened, whatever its name is by now *)
Write(p) ==
    /\ cmd[p].step = "write"
    /\ bytes' = [bytes EXCEPT ![cmd[p].handle] = cmd[p].id]
    /\ Become(p, [cmd[p] EXCEPT !.step = "rename", !.handle = NoFile])
    /\ UNCHANGED <<dir, minted, used, retired, cut>>

Renamed(p) ==
    dir' = [dir EXCEPT ![<<cmd[p].file, "final">>] = dir[Tmp(p)], ![Tmp(p)] = NoFile]

\* Mutant: only the first save of an identity goes on to its card
RenameKeysOnly(p) ==
    /\ cmd[p].step = "rename" /\ cmd[p].file = "keys"
    /\ Exists(Tmp(p))
    /\ Renamed(p)
    /\ retired' = IF cmd[p].rotate /\ Exists(Keys) THEN retired \cup {Contents(Keys)}
                  ELSE retired
    /\ Become(p, IF cmd[p].rotate THEN [cmd[p] EXCEPT !.step = "use"]
                 ELSE [cmd[p] EXCEPT !.step = "create", !.file = "card"])
    /\ UNCHANGED <<bytes, minted, used, cut>>

RenameKeys(p) ==
    /\ cmd[p].step = "rename" /\ cmd[p].file = "keys"
    /\ Exists(Tmp(p))
    /\ Renamed(p)
    /\ retired' = IF cmd[p].rotate /\ Exists(Keys) THEN retired \cup {Contents(Keys)}
                  ELSE retired
    /\ Become(p, [cmd[p] EXCEPT !.step = "create", !.file = "card"])
    /\ UNCHANGED <<bytes, minted, used, cut>>

RenameCard(p) ==
    /\ cmd[p].step = "rename" /\ cmd[p].file = "card"
    /\ Exists(Tmp(p))
    /\ Renamed(p)
    /\ cut' = FALSE
    /\ Become(p, [cmd[p] EXCEPT !.step = "use"])
    /\ UNCHANGED <<bytes, minted, used, retired>>

Use(p) ==
    /\ cmd[p].step = "use"
    /\ used' = used \cup {cmd[p].id}
    /\ Become(p, Idle)
    /\ UNCHANGED <<dir, bytes, minted, retired, cut>>

(* the process dies, or a step of a save is an I/O error: the rename of a   *)
(* temp file that another process has renamed is always one                 *)
Fail(p) ==
    /\ cmd[p].step # "idle"
    /\ cut' = (cut \/ (Saving(p) /\ cmd[p].file = "card"))
    /\ Become(p, Idle)
    /\ UNCHANGED <<dir, bytes, minted, used, retired>>

Next == \E p \in Proc :
    \/ Start(p) \/ StartRotate(p) \/ LoadIdentity(p) \/ InitMissing(p)
    \/ Create(p) \/ Write(p) \/ RenameKeys(p) \/ RenameCard(p)
    \/ Use(p) \/ Fail(p)

Spec == Init /\ [][Next]_vars

(***************************************************************************)
(* What holds while no two commands save an identity at once.              *)
(***************************************************************************)
Solo == \A p, q \in Proc : Saving(p) /\ Saving(q) => p = q

SerialSpec == Init /\ [][Next /\ Solo']_vars

(* keystore.rs:9-10: whenever a command is killed, and whatever temp file   *)
(* one before it left behind, the stored identity is the old or the new one,*)
(* never half of either.                                                    *)
StoredIsWhole == Exists(Keys) => Contents(Keys) \in minted

(* init_if_missing: an identity that a command goes on with, prints the     *)
(* card of or dials with is the stored one, or was stored until a rotation  *)
(* replaced it; none is lost with the process that minted it.               *)
UsedIsStored ==
    \A id \in used : id \in retired \/ (Exists(Keys) /\ Contents(Keys) = id)

(* keystore.rs:87, save_identity: card.txt is the card of the stored        *)
(* identity, but for a save under way or one that was cut short between its *)
(* two files and has had no successor.                                      *)
CardFollowsKeys ==
    \/ cut
    \/ \E p \in Proc : Saving(p) /\ cmd[p].file = "card"
    \/ ~Exists(Keys) /\ ~Exists(Card)
    \/ Exists(Keys) /\ Exists(Card) /\ Contents(Card) = Contents(Keys)
=============================================================================
