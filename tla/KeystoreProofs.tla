----------------------------- MODULE KeystoreProofs -----------------------------
(* Theorems about Keystore while no two commands save an identity at once.   *)
EXTENDS Keystore, TLAPS

(***************************************************************************)
(* The inductive invariant.  Only the process that saves has a temp file,   *)
(* and while it does, the stored identity is what the save found or, once  *)
(* its keys.json is in place, its own.                                     *)
(***************************************************************************)
Held(id) == id \in retired \/ (Exists(Keys) /\ Contents(Keys) = id)

Apart == \A m, n \in Name : Exists(m) /\ dir[m] = dir[n] => m = n

Saves(c) == c.step \in {"create", "write", "rename"}

OwnTmp(c) ==
    /\ c.step = "write" => c.handle \in Inode /\ dir[<<c.file, "tmp">>] = c.handle
    /\ c.step = "rename" => /\ Exists(<<c.file, "tmp">>)
                            /\ Contents(<<c.file, "tmp">>) = c.id

OwnKeys(c) ==
    /\ Saves(c) /\ c.file = "card" => Exists(Keys) /\ Contents(Keys) = c.id
    /\ Saves(c) /\ c.file = "keys" /\ ~c.rotate => ~Exists(Keys)
    /\ c.step = "use" => Held(c.id)

Sound(c) ==
    /\ c \in Command
    /\ Saves(c) \/ c.step = "use" => c.id \in minted
    /\ OwnTmp(c)
    /\ OwnKeys(c)

KeystoreInv ==
    /\ KeystoreTypeOK
    /\ Solo
    /\ Apart
    /\ \A p \in Proc : Sound(cmd[p])
    /\ StoredIsWhole
    /\ UsedIsStored
    /\ CardFollowsKeys

LEMMA NamesApart ==
    /\ Keys \in Name /\ Card \in Name /\ Keys # Card
    /\ \A f \in File : <<f, "tmp">> \in Name /\ <<f, "final">> \in Name
    /\ \A f, g \in File : <<f, "tmp">> # <<g, "final">>
    /\ \A f \in File : <<f, "tmp">> # Keys /\ <<f, "tmp">> # Card
BY DEF Keys, Card, Name, File

LEMMA IdleSound == Sound(Idle)
BY DEF Sound, Idle, Command, Step, File, OwnTmp, OwnKeys, Saves

LEMMA KeystoreInit == Init => KeystoreInv
<1> SUFFICES ASSUME Init PROVE KeystoreInv
    OBVIOUS
<1>1. \A n \in Name : ~Exists(n)
    BY DEF Init, Exists
<1>2. \A p \in Proc : cmd[p] = Idle
    BY DEF Init
<1>3. \A p \in Proc : cmd[p].step = "idle"
    BY <1>2 DEF Idle
<1>4. KeystoreTypeOK
    BY <1>2, <1>3, IdleSound DEF Init, KeystoreTypeOK, Sound
<1>5. Solo /\ Apart
    BY <1>1, <1>3 DEF Solo, Saving, Apart
<1>6. StoredIsWhole /\ UsedIsStored /\ CardFollowsKeys
    BY <1>1, NamesApart DEF Init, StoredIsWhole, UsedIsStored, CardFollowsKeys
<1>7. QED
    BY <1>2, <1>4, <1>5, <1>6, IdleSound DEF KeystoreInv

LEMMA CommandOf ==
    ASSUME KeystoreInv, NEW p \in Proc
    PROVE  cmd[p] \in Command /\ Sound(cmd[p]) /\ cmd[p].file \in File /\ Tmp(p) \in Name
BY NamesApart DEF KeystoreInv, Sound, Command, Tmp

LEMMA Others ==
    ASSUME KeystoreInv, NEW p \in Proc, NEW c, Become(p, c)
    PROVE  cmd'[p] = c /\ \A q \in Proc : q # p => cmd'[q] = cmd[q]
BY DEF Become, KeystoreInv, KeystoreTypeOK

LEMMA TypeStep ==
    ASSUME KeystoreInv, NEW p \in Proc, NEW c \in Command, Become(p, c),
           c.step = "write" => c.handle \in Inode,
           dir' \in [Name -> Inode \cup {NoFile}], bytes' \in [Inode -> Key \cup {Empty}],
           minted' \in SUBSET Key, used' \in SUBSET minted',
           retired' \in SUBSET (minted' \cup {Empty}), cut' \in BOOLEAN
    PROVE  KeystoreTypeOK'
<1>1. cmd' \in [Proc -> Command]
    BY DEF Become, KeystoreInv, KeystoreTypeOK
<1>2. \A q \in Proc : cmd'[q].step = "write" => cmd'[q].handle \in Inode
    BY Others DEF KeystoreInv, KeystoreTypeOK
<1>3. QED
    BY <1>1, <1>2 DEF KeystoreTypeOK

(***************************************************************************)
(* Steps that leave the files alone                                        *)
(***************************************************************************)
LEMMA SoundKept ==
    ASSUME NEW c, Sound(c), UNCHANGED <<dir, bytes, retired>>, minted \subseteq minted'
    PROVE  Sound(c)'
BY DEF Sound, OwnTmp, OwnKeys, Held, Exists, Contents

LEMMA FilesKept ==
    ASSUME KeystoreInv, Solo', NEW p \in Proc, NEW c, Become(p, c), Sound(c)',
           UNCHANGED <<dir, bytes, retired>>,
           minted \subseteq minted', minted' \subseteq Key,
           used' \in SUBSET minted', \A id \in used' : Held(id),
           cut' \in BOOLEAN, cut => cut',
           Saving(p) /\ cmd[p].file = "card" => cut' \/ (Saves(c) /\ c.file = "card")
    PROVE  KeystoreInv'
<1>1. KeystoreTypeOK'
    <2>1. c \in Command /\ (c.step = "write" => c.handle \in Inode)
        BY DEF Sound, OwnTmp
    <2>2. dir' \in [Name -> Inode \cup {NoFile}] /\ bytes' \in [Inode -> Key \cup {Empty}]
            /\ retired' \in SUBSET (minted' \cup {Empty})
        BY DEF KeystoreInv, KeystoreTypeOK
    <2>3. QED
        BY <2>1, <2>2, TypeStep
<1>2. Apart'
    BY DEF KeystoreInv, Apart, Exists
<1>3. (\A q \in Proc : Sound(cmd[q]))'
    <2>1. ASSUME NEW q \in Proc PROVE Sound(cmd[q])'
        <3>1. CASE q = p
            BY <3>1, Others
        <3>2. CASE q # p
            <4>1. PICK d : d = cmd'[q] /\ Sound(d)
                BY <3>2, Others DEF KeystoreInv
            <4>2. Sound(d)'
                BY <4>1, SoundKept
            <4>3. QED
                BY <4>1, <4>2
        <3>3. QED
            BY <3>1, <3>2
    <2>2. QED
        BY <2>1
<1>4. StoredIsWhole' /\ UsedIsStored'
    BY DEF KeystoreInv, StoredIsWhole, UsedIsStored, Held, Exists, Contents
<1>5. CardFollowsKeys'
    <2>1. CASE \E q \in Proc : Saving(q) /\ cmd[q].file = "card"
        BY <2>1, Others DEF CardFollowsKeys, Saving, Saves
    <2>2. CASE ~ \E q \in Proc : Saving(q) /\ cmd[q].file = "card"
        BY <2>2 DEF KeystoreInv, CardFollowsKeys, Exists, Contents
    <2>3. QED
        BY <2>1, <2>2
<1>6. QED
    BY <1>1, <1>2, <1>3, <1>4, <1>5 DEF KeystoreInv

LEMMA StartStep ==
    ASSUME KeystoreInv, Solo', NEW p \in Proc, Start(p) PROVE KeystoreInv'
<1>c. PICK c : c = [Idle EXCEPT !.step = "load"]
    OBVIOUS
<1>1. c \in Command /\ c.step = "load"
    BY <1>c, IdleSound DEF Sound, Command, Step, Idle
<1>2. Become(p, c) /\ UNCHANGED <<dir, bytes, minted, used, retired, cut>>
        /\ cmd[p].step = "idle"
    BY <1>c DEF Start
<1>3. Sound(c)'
    BY <1>1 DEF Sound, OwnTmp, OwnKeys, Saves
<1>4. \A id \in used' : Held(id)
    BY <1>2 DEF KeystoreInv, UsedIsStored, Held
<1>5. minted' \subseteq Key /\ used' \in SUBSET minted' /\ cut' \in BOOLEAN
    BY <1>2 DEF KeystoreInv, KeystoreTypeOK
<1>6. ~Saving(p)
    BY <1>2 DEF Saving
<1>7. QED
    BY <1>2, <1>3, <1>4, <1>5, <1>6, FilesKept

LEMMA MintStep ==
    ASSUME KeystoreInv, Solo', NEW p \in Proc, cmd[p].step \in {"idle", "load"},
           NEW rotate \in BOOLEAN, rotate \/ ~Exists(Keys), Mint(p, rotate)
    PROVE  KeystoreInv'
<1>1. PICK id \in Key \ minted :
         /\ minted' = minted \cup {id}
         /\ Become(p, [Idle EXCEPT !.step = "create", !.rotate = rotate, !.id = id])
         /\ UNCHANGED <<dir, bytes, used, retired, cut>>
    BY DEF Mint
<1>c. PICK c : c = [Idle EXCEPT !.step = "create", !.rotate = rotate, !.id = id]
    OBVIOUS
<1>2. c \in Command /\ c.step = "create" /\ c.rotate = rotate /\ c.id = id /\ c.file = "keys"
    BY <1>1, <1>c DEF Command, Step, File, Idle
<1>3. Become(p, c)
    BY <1>1, <1>c
<1>4. Sound(c)'
    BY <1>1, <1>2 DEF Sound, OwnTmp, OwnKeys, Saves, Exists
<1>5. \A x \in used' : Held(x)
    BY <1>1 DEF KeystoreInv, UsedIsStored, Held
<1>6. minted \subseteq minted' /\ minted' \subseteq Key /\ used' \in SUBSET minted'
        /\ cut' \in BOOLEAN
    BY <1>1 DEF KeystoreInv, KeystoreTypeOK
<1>7. ~Saving(p)
    BY DEF Saving
<1>8. QED
    BY <1>1, <1>3, <1>4, <1>5, <1>6, <1>7, FilesKept

LEMMA LoadIdentityStep ==
    ASSUME KeystoreInv, Solo', NEW p \in Proc, LoadIdentity(p) PROVE KeystoreInv'
<1>c. PICK c : c = [cmd[p] EXCEPT !.step = "use", !.id = Contents(Keys)]
    OBVIOUS
<1>1. UNCHANGED <<dir, bytes, minted, used, retired, cut>> /\ cmd[p].step = "load"
        /\ Exists(Keys) /\ Become(p, IF Contents(Keys) = Empty THEN Idle ELSE c)
    BY <1>c DEF LoadIdentity
<1>2. Contents(Keys) \in minted /\ minted \subseteq Key
    BY <1>1 DEF KeystoreInv, StoredIsWhole, KeystoreTypeOK
<1>3. c \in Command /\ c.step = "use" /\ c.id = Contents(Keys)
    BY <1>2, <1>c, CommandOf DEF Command, Step
<1>4. Sound(c)
    BY <1>1, <1>2, <1>3 DEF Sound, OwnTmp, OwnKeys, Saves, Held
<1>5. Become(p, c)
    BY <1>1, <1>2, KeystoreAssumption
<1>6. Sound(c)'
    BY <1>1, <1>4, SoundKept
<1>7. \A id \in used' : Held(id)
    BY <1>1 DEF KeystoreInv, UsedIsStored, Held
<1>8. minted' \subseteq Key /\ used' \in SUBSET minted' /\ cut' \in BOOLEAN
    BY <1>1 DEF KeystoreInv, KeystoreTypeOK
<1>9. ~Saving(p)
    BY <1>1 DEF Saving
<1>10. QED
    BY <1>1, <1>5, <1>6, <1>7, <1>8, <1>9, FilesKept

LEMMA UseStep ==
    ASSUME KeystoreInv, Solo', NEW p \in Proc, Use(p) PROVE KeystoreInv'
<1>1. UNCHANGED <<dir, bytes, minted, retired, cut>> /\ cmd[p].step = "use"
        /\ used' = used \cup {cmd[p].id} /\ Become(p, Idle)
    BY DEF Use
<1>2. cmd[p].id \in minted /\ Held(cmd[p].id)
    BY <1>1, CommandOf DEF Sound, OwnKeys
<1>3. Sound(Idle)'
    BY <1>1, IdleSound, SoundKept
<1>4. \A id \in used' : Held(id)
    BY <1>1, <1>2 DEF KeystoreInv, UsedIsStored, Held
<1>5. minted' \subseteq Key /\ used' \in SUBSET minted' /\ cut' \in BOOLEAN
    BY <1>1, <1>2 DEF KeystoreInv, KeystoreTypeOK
<1>6. ~Saving(p)
    BY <1>1 DEF Saving
<1>7. QED
    BY <1>1, <1>3, <1>4, <1>5, <1>6, FilesKept

LEMMA FailStep ==
    ASSUME KeystoreInv, Solo', NEW p \in Proc, Fail(p) PROVE KeystoreInv'
<1>1. UNCHANGED <<dir, bytes, minted, used, retired>> /\ Become(p, Idle)
        /\ cut' = (cut \/ (Saving(p) /\ cmd[p].file = "card"))
    BY DEF Fail
<1>2. Sound(Idle)'
    BY <1>1, IdleSound, SoundKept
<1>3. \A id \in used' : Held(id)
    BY <1>1 DEF KeystoreInv, UsedIsStored, Held
<1>4. minted' \subseteq Key /\ used' \in SUBSET minted' /\ cut' \in BOOLEAN
    BY <1>1 DEF KeystoreInv, KeystoreTypeOK
<1>5. QED
    BY <1>1, <1>2, <1>3, <1>4, FilesKept

(***************************************************************************)
(* Steps of the one process that saves                                     *)
(***************************************************************************)
(* a process that saves no identity has no file of its own *)
LEMMA BystanderSound ==
    ASSUME NEW c, Sound(c), ~Saves(c), minted' = minted,
           c.step = "use" => Held(c.id)'
    PROVE  Sound(c)'
BY DEF Sound, OwnTmp, OwnKeys, Saves

LEMMA SaverStep ==
    ASSUME KeystoreInv, NEW p \in Proc, Saving(p), NEW c, Become(p, c), Sound(c)',
           minted' = minted, \A id \in minted : Held(id) => Held(id)'
    PROVE  (\A q \in Proc : Sound(cmd[q]))' /\ (\A q \in Proc : q # p => ~Saves(cmd'[q]))
<1>1. ASSUME NEW q \in Proc, q # p PROVE Sound(cmd[q])' /\ ~Saves(cmd'[q])
    <2>1. PICK d : d = cmd[q] /\ d = cmd'[q] /\ Sound(d) /\ ~Saves(d)
        BY <1>1, Others DEF KeystoreInv, Solo, Saving, Saves
    <2>2. d.step = "use" => d.id \in minted /\ Held(d.id)
        BY <2>1 DEF Sound, OwnKeys
    <2>3. Sound(d)'
        BY <2>1, <2>2, BystanderSound
    <2>4. QED
        BY <2>1, <2>3
<1>2. Sound(cmd[p])'
    BY Others
<1>3. QED
    BY <1>1, <1>2

(* a step on the temp file leaves both files in place *)
LEMMA TmpStep ==
    ASSUME KeystoreInv, Solo', NEW p \in Proc, Saving(p), NEW c, Become(p, c), Sound(c)',
           Saves(c), c.file = cmd[p].file, UNCHANGED <<minted, used, retired, cut>>,
           KeystoreTypeOK', Apart',
           \A n \in {Keys, Card} : /\ dir'[n] = dir[n]
                                   /\ Exists(n) => bytes'[dir[n]] = bytes[dir[n]]
    PROVE  KeystoreInv'
<1>1. /\ Exists(Keys)' = Exists(Keys) /\ (Exists(Keys) => Contents(Keys)' = Contents(Keys))
      /\ Exists(Card)' = Exists(Card) /\ (Exists(Card) => Contents(Card)' = Contents(Card))
    BY DEF Exists, Contents
<1>2. \A id \in minted : Held(id) => Held(id)'
    BY <1>1 DEF Held
<1>3. (\A q \in Proc : Sound(cmd[q]))'
    BY <1>2, SaverStep
<1>4. StoredIsWhole'
    BY <1>1 DEF KeystoreInv, StoredIsWhole
<1>5. UsedIsStored'
    BY <1>1 DEF KeystoreInv, UsedIsStored
<1>6. CardFollowsKeys'
    <2>1. CASE \E q \in Proc : Saving(q) /\ cmd[q].file = "card"
        <3>1. cmd[p].file = "card"
            BY <2>1 DEF KeystoreInv, Solo
        <3>2. (Saving(p) /\ cmd[p].file = "card")'
            BY <3>1, Others DEF Saving, Saves
        <3>3. QED
            BY <3>2 DEF CardFollowsKeys
    <2>2. CASE ~ \E q \in Proc : Saving(q) /\ cmd[q].file = "card"
        BY <1>1, <2>2 DEF KeystoreInv, CardFollowsKeys
    <2>3. QED
        BY <2>1, <2>2
<1>7. QED
    BY <1>3, <1>4, <1>5, <1>6 DEF KeystoreInv

LEMMA CreateStep ==
    ASSUME KeystoreInv, Solo', NEW p \in Proc, Create(p) PROVE KeystoreInv'
<1>1. PICK i \in IF Exists(Tmp(p)) THEN {dir[Tmp(p)]} ELSE Unused :
          /\ dir' = [dir EXCEPT ![Tmp(p)] = i]
          /\ bytes' = [bytes EXCEPT ![i] = Empty]
          /\ Become(p, [cmd[p] EXCEPT !.step = "write", !.handle = i])
    BY DEF Create
<1>2. UNCHANGED <<minted, used, retired, cut>> /\ cmd[p].step = "create"
    BY DEF Create
<1>3. dir \in [Name -> Inode \cup {NoFile}] /\ bytes \in [Inode -> Key \cup {Empty}]
    BY DEF KeystoreInv, KeystoreTypeOK
<1>4. Tmp(p) \in Name /\ cmd[p] \in Command /\ Sound(cmd[p]) /\ cmd[p].file \in File
    BY CommandOf
<1>5. i \in Inode /\ i # NoFile
    BY <1>1, <1>3, <1>4, KeystoreAssumption DEF Unused, Exists
<1>6. \A n \in Name : n # Tmp(p) => dir'[n] = dir[n] /\ dir[n] # i
    BY <1>1, <1>3, <1>4 DEF Unused, KeystoreInv, Apart
<1>7. dir'[Tmp(p)] = i
    BY <1>1, <1>3, <1>4
<1>c. PICK c : c = [cmd[p] EXCEPT !.step = "write", !.handle = i]
    OBVIOUS
<1>8. c \in Command /\ c.step = "write" /\ c.handle = i /\ c.file = cmd[p].file
        /\ c.rotate = cmd[p].rotate /\ c.id = cmd[p].id
    BY <1>c, <1>4, <1>5 DEF Command, Step
<1>9. Become(p, c) /\ Saving(p) /\ Saves(c)
    BY <1>1, <1>2, <1>c, <1>8 DEF Saving, Saves
<1>10. \A n \in {Keys, Card} : /\ dir'[n] = dir[n]
                               /\ Exists(n) => bytes'[dir[n]] = bytes[dir[n]]
    <2> SUFFICES ASSUME NEW n \in {Keys, Card}
                 PROVE  dir'[n] = dir[n] /\ (Exists(n) => bytes'[dir[n]] = bytes[dir[n]])
        OBVIOUS
    <2>1. n \in Name /\ n # Tmp(p)
        BY <1>4, NamesApart DEF Tmp
    <2>2. QED
        BY <1>1, <1>3, <1>6, <2>1
<1>11. Apart'
    BY <1>5, <1>6, <1>7 DEF KeystoreInv, Apart, Exists
<1>12. KeystoreTypeOK'
    <2>1. dir' \in [Name -> Inode \cup {NoFile}] /\ bytes' \in [Inode -> Key \cup {Empty}]
        BY <1>1, <1>3, <1>5
    <2>2. minted' \in SUBSET Key /\ used' \in SUBSET minted'
            /\ retired' \in SUBSET (minted' \cup {Empty}) /\ cut' \in BOOLEAN
        BY <1>2 DEF KeystoreInv, KeystoreTypeOK
    <2>3. QED
        BY <1>5, <1>8, <1>9, <2>1, <2>2, TypeStep
<1>13. Sound(c)'
    <2>1. OwnTmp(c)'
        BY <1>5, <1>7, <1>8 DEF OwnTmp, Tmp
    <2>2. OwnKeys(c)'
        BY <1>2, <1>4, <1>8, <1>10 DEF Sound, OwnKeys, Saves, Exists, Contents
    <2>3. c.id \in minted'
        BY <1>2, <1>4, <1>8 DEF Sound, Saves
    <2>4. QED
        BY <1>8, <2>1, <2>2, <2>3 DEF Sound
<1>14. QED
    BY <1>2, <1>8, <1>9, <1>10, <1>11, <1>12, <1>13, TmpStep

LEMMA WriteStep ==
    ASSUME KeystoreInv, Solo', NEW p \in Proc, Write(p) PROVE KeystoreInv'
<1> DEFINE h == cmd[p].handle
<1>1. bytes' = [bytes EXCEPT ![h] = cmd[p].id] /\ cmd[p].step = "write"
        /\ UNCHANGED <<dir, minted, used, retired, cut>>
        /\ Become(p, [cmd[p] EXCEPT !.step = "rename", !.handle = NoFile])
    BY DEF Write
<1>2. dir \in [Name -> Inode \cup {NoFile}] /\ bytes \in [Inode -> Key \cup {Empty}]
    BY DEF KeystoreInv, KeystoreTypeOK
<1>3. Tmp(p) \in Name /\ cmd[p] \in Command /\ Sound(cmd[p]) /\ cmd[p].file \in File
    BY CommandOf
<1>4. h \in Inode /\ dir[Tmp(p)] = h /\ cmd[p].id \in minted
    BY <1>1, <1>3 DEF Sound, OwnTmp, Saves, Tmp
<1>5. \A n \in Name : n # Tmp(p) => dir[n] # h
    BY <1>3, <1>4, KeystoreAssumption DEF KeystoreInv, Apart, Exists
<1>c. PICK c : c = [cmd[p] EXCEPT !.step = "rename", !.handle = NoFile]
    OBVIOUS
<1>6. c \in Command /\ c.step = "rename" /\ c.file = cmd[p].file
        /\ c.rotate = cmd[p].rotate /\ c.id = cmd[p].id
    BY <1>c, <1>3 DEF Command, Step
<1>7. Become(p, c) /\ Saving(p) /\ Saves(c)
    BY <1>1, <1>c, <1>6 DEF Saving, Saves
<1>8. bytes'[h] = cmd[p].id /\ \A i \in Inode : i # h => bytes'[i] = bytes[i]
    BY <1>1, <1>2, <1>4
<1> HIDE DEF h
<1>9. \A n \in {Keys, Card} : /\ dir'[n] = dir[n]
                              /\ Exists(n) => bytes'[dir[n]] = bytes[dir[n]]
    <2> SUFFICES ASSUME NEW n \in {Keys, Card}
                 PROVE  dir'[n] = dir[n] /\ (Exists(n) => bytes'[dir[n]] = bytes[dir[n]])
        OBVIOUS
    <2>1. n \in Name /\ n # Tmp(p)
        BY <1>3, NamesApart DEF Tmp
    <2>2. QED
        BY <1>1, <1>2, <1>5, <1>8, <2>1 DEF Exists
<1>10. Apart'
    BY <1>1 DEF KeystoreInv, Apart, Exists
<1>11. KeystoreTypeOK'
    <2>1. dir' \in [Name -> Inode \cup {NoFile}] /\ bytes' \in [Inode -> Key \cup {Empty}]
        BY <1>1, <1>2, <1>3 DEF Command
    <2>2. minted' \in SUBSET Key /\ used' \in SUBSET minted'
            /\ retired' \in SUBSET (minted' \cup {Empty}) /\ cut' \in BOOLEAN
        BY <1>1 DEF KeystoreInv, KeystoreTypeOK
    <2>3. QED
        BY <1>6, <1>7, <2>1, <2>2, TypeStep
<1>12. Sound(c)'
    <2>1. OwnTmp(c)'
        BY <1>1, <1>4, <1>6, <1>8, KeystoreAssumption DEF OwnTmp, Tmp, Exists, Contents
    <2>2. OwnKeys(c)'
        BY <1>1, <1>3, <1>6, <1>9 DEF Sound, OwnKeys, Saves, Exists, Contents
    <2>3. QED
        BY <1>1, <1>4, <1>6, <2>1, <2>2 DEF Sound
<1>13. QED
    BY <1>1, <1>6, <1>7, <1>9, <1>10, <1>11, <1>12, TmpStep

(* what both renames do to the names *)
LEMMA RenamedNames ==
    ASSUME KeystoreInv, NEW p \in Proc, cmd[p].step = "rename", Renamed(p),
           NEW f \in File, f = cmd[p].file
    PROVE  /\ dir' \in [Name -> Inode \cup {NoFile}]
           /\ Apart'
           /\ dir'[<<f, "final">>] \in Inode
           /\ bytes[dir'[<<f, "final">>]] = cmd[p].id
           /\ \A g \in File : g # f => dir'[<<g, "final">>] = dir[<<g, "final">>]
<1> DEFINE tmp == <<f, "tmp">>
           final == <<f, "final">>
<1>1. dir \in [Name -> Inode \cup {NoFile}]
    BY DEF KeystoreInv, KeystoreTypeOK
<1>2. tmp \in Name /\ final \in Name /\ tmp # final
        /\ \A g \in File : /\ <<g, "final">> \in Name /\ <<g, "final">> # tmp
                           /\ g # f => <<g, "final">> # final
    BY NamesApart
<1>3. dir' = [dir EXCEPT ![final] = dir[tmp], ![tmp] = NoFile]
    BY DEF Renamed, Tmp
<1>4. dir[tmp] # NoFile /\ bytes[dir[tmp]] = cmd[p].id
    BY CommandOf DEF Sound, OwnTmp, Exists, Contents
<1> HIDE DEF tmp, final
<1>5. /\ dir'[final] = dir[tmp] /\ dir'[tmp] = NoFile
      /\ \A n \in Name : n # final /\ n # tmp => dir'[n] = dir[n]
    BY <1>1, <1>2, <1>3
<1>6. dir' \in [Name -> Inode \cup {NoFile}]
    BY <1>1, <1>2, <1>3
<1>7. Apart'
    <2> SUFFICES ASSUME NEW m \in Name, NEW n \in Name, dir'[m] # NoFile, dir'[m] = dir'[n]
                 PROVE  m = n
        BY DEF Apart, Exists
    <2>1. \A x, y \in Name : dir[x] # NoFile /\ dir[x] = dir[y] => x = y
        BY DEF KeystoreInv, Apart, Exists
    <2>2. m # tmp /\ n # tmp
        BY <1>5
    <2>3. CASE m = final
        BY <1>2, <1>5, <2>1, <2>2, <2>3
    <2>4. CASE m # final
        BY <1>2, <1>5, <2>1, <2>2, <2>4
    <2>5. QED
        BY <2>3, <2>4
<1>8. dir'[final] \in Inode /\ bytes[dir'[final]] = cmd[p].id
    BY <1>1, <1>2, <1>4, <1>5
<1>9. \A g \in File : g # f => dir'[<<g, "final">>] = dir[<<g, "final">>]
    BY <1>2, <1>5
<1>10. QED
    BY <1>6, <1>7, <1>8, <1>9 DEF final

LEMMA RenameKeysStep ==
    ASSUME KeystoreInv, Solo', NEW p \in Proc, RenameKeys(p) PROVE KeystoreInv'
<1>1. /\ cmd[p].step = "rename" /\ cmd[p].file = "keys" /\ Renamed(p)
      /\ UNCHANGED <<bytes, minted, used, cut>>
      /\ retired' = IF cmd[p].rotate /\ Exists(Keys) THEN retired \cup {Contents(Keys)}
                    ELSE retired
      /\ Become(p, [cmd[p] EXCEPT !.step = "create", !.file = "card"])
    BY DEF RenameKeys
<1>2. cmd[p] \in Command /\ cmd[p].id \in minted /\ (~cmd[p].rotate => ~Exists(Keys))
    BY <1>1, CommandOf DEF Sound, OwnKeys, Saves
<1>3. /\ dir' \in [Name -> Inode \cup {NoFile}] /\ Apart'
      /\ dir'[Keys] \in Inode /\ bytes[dir'[Keys]] = cmd[p].id
    BY <1>1, RenamedNames DEF Keys, File
<1>4. Exists(Keys)' /\ Contents(Keys)' = cmd[p].id
    BY <1>1, <1>3, KeystoreAssumption DEF Exists, Contents
<1>5. \A id \in minted : Held(id) => Held(id)'
    BY <1>1, <1>2 DEF Held
<1>c. PICK c : c = [cmd[p] EXCEPT !.step = "create", !.file = "card"]
    OBVIOUS
<1>6. c \in Command /\ c.step = "create" /\ c.file = "card" /\ c.id = cmd[p].id
    BY <1>c, <1>2 DEF Command, Step, File
<1>7. Become(p, c) /\ Saving(p)
    BY <1>1, <1>c DEF Saving
<1>8. Sound(c)'
    BY <1>1, <1>2, <1>4, <1>6 DEF Sound, OwnTmp, OwnKeys, Saves
<1>9. (\A q \in Proc : Sound(cmd[q]))'
    BY <1>1, <1>5, <1>7, <1>8, SaverStep
<1>10. StoredIsWhole'
    BY <1>1, <1>2, <1>4 DEF StoredIsWhole
<1>11. UsedIsStored'
    <2>1. \A id \in used : id \in minted /\ Held(id)
        BY DEF KeystoreInv, KeystoreTypeOK, UsedIsStored, Held
    <2>2. QED
        BY <1>1, <1>5, <2>1 DEF UsedIsStored, Held
<1>12. CardFollowsKeys'
    BY <1>6, <1>7, Others DEF CardFollowsKeys, Saving
<1>13. KeystoreTypeOK'
    <2>1. bytes' \in [Inode -> Key \cup {Empty}] /\ minted' \in SUBSET Key
            /\ used' \in SUBSET minted' /\ cut' \in BOOLEAN
        BY <1>1 DEF KeystoreInv, KeystoreTypeOK
    <2>2. Exists(Keys) => Contents(Keys) \in minted
        BY DEF KeystoreInv, StoredIsWhole
    <2>3. retired' \in SUBSET (minted' \cup {Empty})
        BY <1>1, <2>2 DEF KeystoreInv, KeystoreTypeOK
    <2>4. QED
        BY <1>3, <1>6, <1>7, <2>1, <2>3, TypeStep
<1>14. QED
    BY <1>3, <1>9, <1>10, <1>11, <1>12, <1>13 DEF KeystoreInv

LEMMA RenameCardStep ==
    ASSUME KeystoreInv, Solo', NEW p \in Proc, RenameCard(p) PROVE KeystoreInv'
<1>1. cmd[p].step = "rename" /\ cmd[p].file = "card" /\ Renamed(p) /\ cut' = FALSE
        /\ UNCHANGED <<bytes, minted, used, retired>>
        /\ Become(p, [cmd[p] EXCEPT !.step = "use"])
    BY DEF RenameCard
<1>2. cmd[p] \in Command /\ cmd[p].id \in minted /\ Exists(Keys) /\ Contents(Keys) = cmd[p].id
    BY <1>1, CommandOf DEF Sound, OwnKeys, Saves
<1>3. /\ dir' \in [Name -> Inode \cup {NoFile}] /\ Apart'
      /\ dir'[Card] \in Inode /\ bytes[dir'[Card]] = cmd[p].id
      /\ dir'[Keys] = dir[Keys]
    BY <1>1, RenamedNames DEF Keys, Card, File
<1>4. Exists(Keys)' /\ Contents(Keys)' = cmd[p].id /\ Exists(Card)' /\ Contents(Card)' = cmd[p].id
    BY <1>1, <1>2, <1>3, KeystoreAssumption DEF Exists, Contents
<1>5. \A id \in minted : Held(id) => Held(id)'
    BY <1>1, <1>2, <1>4 DEF Held
<1>c. PICK c : c = [cmd[p] EXCEPT !.step = "use"]
    OBVIOUS
<1>6. c \in Command /\ c.step = "use" /\ c.id = cmd[p].id
    BY <1>c, <1>2 DEF Command, Step
<1>7. Become(p, c) /\ Saving(p)
    BY <1>1, <1>c DEF Saving
<1>8. Sound(c)'
    BY <1>1, <1>2, <1>4, <1>6 DEF Sound, OwnTmp, OwnKeys, Saves, Held
<1>9. (\A q \in Proc : Sound(cmd[q]))'
    BY <1>1, <1>5, <1>7, <1>8, SaverStep
<1>10. StoredIsWhole' /\ CardFollowsKeys'
    BY <1>1, <1>2, <1>4 DEF StoredIsWhole, CardFollowsKeys
<1>11. UsedIsStored'
    <2>1. \A id \in used : id \in minted /\ Held(id)
        BY DEF KeystoreInv, KeystoreTypeOK, UsedIsStored, Held
    <2>2. QED
        BY <1>1, <1>5, <2>1 DEF UsedIsStored, Held
<1>12. KeystoreTypeOK'
    <2>1. bytes' \in [Inode -> Key \cup {Empty}] /\ minted' \in SUBSET Key
            /\ used' \in SUBSET minted' /\ retired' \in SUBSET (minted' \cup {Empty})
            /\ cut' \in BOOLEAN
        BY <1>1 DEF KeystoreInv, KeystoreTypeOK
    <2>2. QED
        BY <1>3, <1>6, <1>7, <2>1, TypeStep
<1>13. QED
    BY <1>3, <1>9, <1>10, <1>11, <1>12 DEF KeystoreInv

LEMMA KeystoreStep ==
    ASSUME KeystoreInv, [Next /\ Solo']_vars PROVE KeystoreInv'
<1>1. CASE UNCHANGED vars
    BY <1>1 DEF vars, KeystoreInv, KeystoreTypeOK, Solo, Saving, Apart, Exists, Contents, Sound,
                OwnTmp, OwnKeys, Held, Saves, StoredIsWhole, UsedIsStored, CardFollowsKeys
<1>2. CASE Next /\ Solo'
    <2>1. PICK p \in Proc :
             \/ Start(p) \/ StartRotate(p) \/ LoadIdentity(p) \/ InitMissing(p)
             \/ Create(p) \/ Write(p) \/ RenameKeys(p) \/ RenameCard(p)
             \/ Use(p) \/ Fail(p)
        BY <1>2 DEF Next
    <2>2. CASE Start(p)
        BY <1>2, <2>2, StartStep
    <2>3. CASE StartRotate(p)
        BY <1>2, <2>3, MintStep DEF StartRotate
    <2>4. CASE LoadIdentity(p)
        BY <1>2, <2>4, LoadIdentityStep
    <2>5. CASE InitMissing(p)
        BY <1>2, <2>5, MintStep DEF InitMissing
    <2>6. CASE Create(p)
        BY <1>2, <2>6, CreateStep
    <2>7. CASE Write(p)
        BY <1>2, <2>7, WriteStep
    <2>8. CASE RenameKeys(p)
        BY <1>2, <2>8, RenameKeysStep
    <2>9. CASE RenameCard(p)
        BY <1>2, <2>9, RenameCardStep
    <2>10. CASE Use(p)
        BY <1>2, <2>10, UseStep
    <2>11. CASE Fail(p)
        BY <1>2, <2>11, FailStep
    <2>12. QED
        BY <2>1, <2>2, <2>3, <2>4, <2>5, <2>6, <2>7, <2>8, <2>9, <2>10, <2>11
<1>3. QED
    BY <1>1, <1>2

(***************************************************************************)
(* The theorems                                                            *)
(***************************************************************************)

(* While no two commands save an identity at once, temp files and stored   *)
(* files are told apart, wherever commands were killed.                    *)
THEOREM KeystoreInvariant == SerialSpec => []KeystoreInv
<1>1. KeystoreInv /\ [Next /\ Solo']_vars => KeystoreInv'
    BY KeystoreStep
<1>2. QED
    BY <1>1, KeystoreInit, PTL DEF SerialSpec

(* keys.json is absent or a whole identity, a kill between any two steps of *)
(* a save and a temp file left by an earlier one included (keystore.rs:9).  *)
THEOREM StoredIdentityIsWhole == SerialSpec => []StoredIsWhole
<1>1. KeystoreInv => StoredIsWhole
    BY DEF KeystoreInv
<1>2. QED
    BY <1>1, KeystoreInvariant, PTL

(* No identity that a command goes on with is lost but by a rotation        *)
(* (init_if_missing, rotate).                                              *)
THEOREM UsedIdentityIsStored == SerialSpec => []UsedIsStored
<1>1. KeystoreInv => UsedIsStored
    BY DEF KeystoreInv
<1>2. QED
    BY <1>1, KeystoreInvariant, PTL

(* card.txt differs from the stored identity only during a save or after    *)
(* one that was cut short between its two files (save_identity).            *)
THEOREM CardIsOfStoredIdentity == SerialSpec => []CardFollowsKeys
<1>1. KeystoreInv => CardFollowsKeys
    BY DEF KeystoreInv
<1>2. QED
    BY <1>1, KeystoreInvariant, PTL
=============================================================================
