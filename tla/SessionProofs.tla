----------------------------- MODULE SessionProofs -----------------------------
(***************************************************************************)
(* Theorems about Session and the data directory under it, for any number   *)
(* of identities and collections, any ttl and refresh, any failures.        *)
(***************************************************************************)
EXTENDS Session, SequenceTheorems, FiniteSetTheorems, TLAPS

(***************************************************************************)
(* The store.  What its operation has still to do decides whether a         *)
(* collection is served once it has been reported done, or has failed.      *)
(***************************************************************************)
Spoilt == {Absent, Empty, Torn}

Content(path) == ContentOf(path) \cup Spoilt

Step == {s \in [path : Path, content : Whole \cup Spoilt] : s.content \in Content(s.path)}

Operation == [what : {"none", "save", "delete", "wipe"}, on : Path,
              content : Whole \cup Spoilt, steps : Seq(Step)]

StoreTypeOK ==
    /\ disk \in [Path -> Whole \cup Spoilt] /\ \A path \in Path : disk[path] \in Content(path)
    /\ op \in Operation

SaveSound ==
    /\ op.content \in ContentOf(op.on)
    /\ \A i \in 1..Len(op.steps) : op.steps[i].path = op.on
    /\ IF op.steps = <<>> THEN disk[op.on] = op.content
       ELSE op.steps[Len(op.steps)].content = op.content

Removing == \A i \in 1..Len(op.steps) : op.steps[i].content = Absent

WillBeGone(path) == disk[path] = Absent \/ \E i \in 1..Len(op.steps) : op.steps[i].path = path

DeleteSound ==
    /\ Removing
    /\ \E slug \in Slug : op.on = DraftPath(slug) /\ WillBeGone(ShareSettingsPath(slug))

WipeSound == Removing /\ \A slug \in Slug : WillBeGone(ShareSettingsPath(slug))

OpSound ==
    /\ op.what = "none" => op.steps = <<>>
    /\ op.what = "save" => SaveSound
    /\ op.what = "delete" => DeleteSound
    /\ op.what = "wipe" => WipeSound

SharedSound == \A slug \in Slug :
    /\ disk[ShareSettingsPath(slug)] \in Enabled => slug \in shared
    /\ \A i \in 1..Len(op.steps) :
           op.steps[i].path = ShareSettingsPath(slug) /\ op.steps[i].content \in Enabled
               => slug \in shared

StoreInv == StoreTypeOK /\ OpSound /\ SharedSound

-----------------------------------------------------------------------------
LEMMA PathFacts ==
    /\ IdentityPath \in Path
    /\ \A slug \in Slug : /\ DraftPath(slug) \in Path /\ PublishedPath(slug) \in Path
                          /\ ShareSettingsPath(slug) \in Path
                          /\ ShareSettingsPath(slug)[1] = "sharing"
                          /\ ShareSettingsPath(slug)[2] = slug
                          /\ DraftPath(slug)[2] = slug
    /\ \A path \in Path : path[1] = "sharing" => path[2] \in Slug /\ path = ShareSettingsPath(path[2])
BY DEF IdentityPath, DraftPath, PublishedPath, ShareSettingsPath, Path

LEMMA ContentFacts ==
    ASSUME NEW path \in Path
    PROVE  /\ Content(path) \subseteq Whole \cup Spoilt
           /\ ContentOf(path) \subseteq Whole
           /\ path[1] = "sharing" => ContentOf(path) = Setting
           /\ path[1] # "sharing" => ContentOf(path) \cap Setting = {}
BY DataStoreAssumption DEF Content, ContentOf, Whole

LEMMA SpoiltFacts == Spoilt \cap Whole = {} /\ Spoilt \cap Enabled = {} /\ Spoilt \cap Identity = {}
BY DataStoreAssumption DEF Spoilt, Whole

LEMMA PutIsStep ==
    ASSUME NEW path \in Path, NEW content \in Content(path)
    PROVE  Put(path, content) \in Step
BY ContentFacts DEF Put, Step

LEMMA NoOpIsOperation == NoOp \in Operation /\ NoOp.steps = <<>> /\ NoOp.what = "none"
BY PathFacts, EmptySeq DEF NoOp, Operation, Spoilt

(* An enabled collection is one whose settings are whole on the disk.       *)
LEMMA ServesEnabled ==
    ASSUME NEW slug \in Slug, Serves(slug)
    PROVE  disk[ShareSettingsPath(slug)] \in Enabled
BY DEF Serves, LoadShareSettings, ReadJson, None, Err, Some

-----------------------------------------------------------------------------
(* What a wipe lists: each file that is there.                              *)
LEMMA PathFinite == IsFiniteSet(Path)
<1>1. \A x, y, z : IsFiniteSet({x}) /\ IsFiniteSet({x, y, z})
  <2> SUFFICES ASSUME NEW x, NEW y, NEW z PROVE IsFiniteSet({x}) /\ IsFiniteSet({x, y, z})
      OBVIOUS
  <2>1. {x, y, z} = ({x} \cup {y}) \cup {z}
      OBVIOUS
  <2>2. IsFiniteSet({x})
      BY FS_Singleton
  <2>3. IsFiniteSet({x} \cup {y})
      BY <2>2, FS_AddElement
  <2>4. IsFiniteSet(({x} \cup {y}) \cup {z})
      BY <2>3, FS_AddElement
  <2> QED
      BY <2>1, <2>2, <2>4
<1>2. /\ IsFiniteSet({"collections", "published", "sharing"} \X Slug)
      /\ IsFiniteSet({"contacts"} \X Peer)
      /\ IsFiniteSet({"settings", "groups", "watches"} \X {"json"})
    BY <1>1, DataStoreAssumption, FS_Product
<1> QED
    BY <1>1, <1>2, FS_Union DEF Path

LEMMA ListsAll ==
    ASSUME NEW S, IsFiniteSet(S)
    PROVE  SetToSeq(S) \in Seq(S) /\ \A x \in S : \E i \in 1..Len(SetToSeq(S)) : SetToSeq(S)[i] = x
<1> DEFINE n == Cardinality(S)
<1>1. n \in Nat /\ ExistsBijection(1..n, S)
    BY FS_CardinalityType
<1>2. \E f \in [1..n -> S] : IsInjective(f)
    BY <1>1 DEF ExistsBijection, Bijection, Injection
<1>3. SetToSeq(S) \in [1..n -> S] /\ IsInjective(SetToSeq(S))
    BY <1>2 DEF SetToSeq
<1>4. SetToSeq(S) \in Injection(1..n, S)
    BY <1>3 DEF Injection
<1>5. IsFiniteSet(1..n) /\ Cardinality(1..n) = n
    BY <1>1, FS_Interval
<1>6. SetToSeq(S) \in Surjection(1..n, S)
    BY <1>1, <1>4, <1>5, FS_Injection
<1>7. SetToSeq(S) \in Seq(S) /\ Len(SetToSeq(S)) = n
    BY <1>1, <1>3
<1> QED
    BY <1>6, <1>7 DEF Surjection

LEMMA ConcatKeeps ==
    ASSUME NEW S, NEW s \in Seq(S), NEW t \in Seq(S), NEW x,
           (\E i \in 1..Len(s) : s[i] = x) \/ (\E i \in 1..Len(t) : t[i] = x)
    PROVE  \E i \in 1..Len(s \o t) : (s \o t)[i] = x
<1>1. /\ Len(s) \in Nat /\ Len(t) \in Nat /\ Len(s \o t) = Len(s) + Len(t)
      /\ \A i \in 1..Len(s) + Len(t) : (s \o t)[i] = IF i <= Len(s) THEN s[i] ELSE t[i - Len(s)]
    BY ConcatProperties, LenProperties
<1>2. CASE \E i \in 1..Len(s) : s[i] = x
    <2>1. PICK i \in 1..Len(s) : s[i] = x
        BY <1>2
    <2>2. i \in 1..Len(s \o t) /\ (s \o t)[i] = x
        BY <1>1, <2>1
    <2> QED
        BY <2>2
<1>3. CASE \E i \in 1..Len(t) : t[i] = x
    <2>1. PICK i \in 1..Len(t) : t[i] = x
        BY <1>3
    <2>2. Len(s) + i \in 1..Len(s \o t) /\ (s \o t)[Len(s) + i] = x
        BY <1>1, <2>1
    <2> QED
        BY <2>2
<1> QED
    BY <1>2, <1>3

Has(s, x) == \E i \in 1..Len(s) : s[i] = x

LEMMA WipeListsAll ==
    /\ WipeOrder \in Seq(Path)
    /\ \A path \in Path : disk[path] # Absent => Has(WipeOrder, path)
<1> DEFINE There(directory) == {path \in Path : path[1] = directory /\ disk[path] # Absent}
<1>1. \A directory : /\ Listed(directory) \in Seq(Path)
                     /\ \A path \in There(directory) : Has(Listed(directory), path)
  <2> SUFFICES ASSUME NEW directory
               PROVE  /\ Listed(directory) \in Seq(Path)
                      /\ \A path \in There(directory) : Has(Listed(directory), path)
      OBVIOUS
  <2>1. IsFiniteSet(There(directory)) /\ There(directory) \subseteq Path
      BY PathFinite, FS_Subset
  <2>2. Listed(directory) = SetToSeq(There(directory))
      BY DEF Listed
  <2>3. Listed(directory) \in Seq(There(directory))
      BY <2>1, <2>2, ListsAll
  <2>4. Listed(directory) \in Seq(Path)
      BY <2>1, <2>3, SeqMonotonic
  <2>5. \A path \in There(directory) : Has(SetToSeq(There(directory)), path)
      BY <2>1, ListsAll DEF Has
  <2> HIDE DEF Has, There
  <2> QED
      BY <2>2, <2>4, <2>5
<1>2. \A s, t \in Seq(Path) : s \o t \in Seq(Path)
    BY ConcatProperties
<1>3. ASSUME NEW s \in Seq(Path), NEW t \in Seq(Path), NEW path, Has(s, path) \/ Has(t, path)
      PROVE  Has(s \o t, path)
    BY <1>3, ConcatKeeps DEF Has
<1>4. WipeOrder \in Seq(Path)
    BY <1>1, <1>2 DEF WipeOrder
<1>5. ASSUME NEW path \in Path, disk[path] # Absent
      PROVE  Has(WipeOrder, path)
    <2>1. path[1] \in {"identity", "collections", "published", "contacts", "sharing",
                       "settings", "groups", "watches"}
        BY DEF Path
    <2>2. path \in There(path[1])
        BY <1>5
    <2>3. Has(Listed(path[1]), path)
        BY <1>1, <2>2
    <2> HIDE DEF Has
    <2> QED
        BY <1>1, <1>2, <1>3, <2>1, <2>3 DEF WipeOrder
<1> QED
    BY <1>4, <1>5

LEMMA RemoveType ==
    ASSUME NEW paths \in Seq(Path)
    PROVE  /\ RemoveSteps(paths) \in Seq(Step)
           /\ Len(RemoveSteps(paths)) = Len(paths)
           /\ \A i \in 1..Len(paths) : /\ RemoveSteps(paths)[i].path = paths[i]
                                       /\ RemoveSteps(paths)[i].content = Absent
<1>1. Len(paths) \in Nat /\ paths \in [1..Len(paths) -> Path]
    BY LenProperties
<1>2. \A i \in 1..Len(paths) : Put(paths[i], Absent) \in Step
    BY <1>1, PutIsStep DEF Content, Spoilt
<1>3. RemoveSteps(paths) \in [1..Len(paths) -> Step]
    BY <1>2 DEF RemoveSteps
<1>4. RemoveSteps(paths) \in Seq(Step) /\ Len(RemoveSteps(paths)) = Len(paths)
    BY <1>1, <1>3
<1> QED
    BY <1>4 DEF RemoveSteps, Put

-----------------------------------------------------------------------------
(* The operations.                                                          *)
LEMMA EndKeepsStore ==
    ASSUME StoreInv, op' = NoOp, UNCHANGED <<disk, shared>>
    PROVE  StoreInv'
<1>1. StoreTypeOK'
    BY NoOpIsOperation DEF StoreInv, StoreTypeOK
<1>2. OpSound'
    BY NoOpIsOperation DEF OpSound
<1>3. SharedSound'
    BY NoOpIsOperation DEF StoreInv, SharedSound
<1> QED
    BY <1>1, <1>2, <1>3 DEF StoreInv

LEMMA StartSaveKeepsStore ==
    ASSUME StoreInv, NEW path, NEW content, StartSave(path, content)
    PROVE  StoreInv'
<1>0. path \in Path /\ content \in ContentOf(path)
    BY DataStoreAssumption DEF StartSave
<1> DEFINE steps == WriteSteps(path, content)
<1>1. /\ Put(path, Empty) \in Step /\ Put(path, Torn) \in Step /\ Put(path, content) \in Step
      /\ content \in Whole
    BY <1>0, PutIsStep, ContentFacts DEF Content, Spoilt
<1>2. /\ steps \in Seq(Step) /\ Len(steps) = 3 /\ steps # <<>>
      /\ steps[1] = Put(path, Empty) /\ steps[2] = Put(path, Torn) /\ steps[3] = Put(path, content)
    BY <1>1 DEF WriteSteps
<1>3. op' = [what |-> "save", on |-> path, content |-> content, steps |-> steps]
      /\ disk' = disk
    BY DEF StartSave
<1> HIDE DEF steps
<1>4. StoreTypeOK'
    BY <1>0, <1>1, <1>2, <1>3 DEF StoreInv, StoreTypeOK, Operation
<1>5. \A i \in 1..3 : steps[i].path = path /\ (i = 3 => steps[i].content = content)
                       /\ (i # 3 => steps[i].content \notin Enabled)
    BY <1>2, SpoiltFacts DEF Put, Spoilt
<1>6. OpSound'
  <2>1. /\ op'.what = "save" /\ op'.on = path /\ op'.content = content /\ op'.steps = steps
      BY <1>3
  <2>2. /\ \A i \in 1..Len(op'.steps) : op'.steps[i].path = op'.on
        /\ op'.steps # <<>> /\ op'.steps[Len(op'.steps)].content = op'.content
    <3>1. Len(steps) = 3 /\ 3 \in 1..3 /\ steps # <<>>
        BY <1>2
    <3>2. \A i \in 1..Len(steps) : steps[i].path = path
        BY <1>5, <3>1
    <3>3. steps[Len(steps)].content = content
        BY <1>5, <3>1
    <3> QED
        BY <2>1, <3>1, <3>2, <3>3, Zenon
  <2>3. op'.content \in ContentOf(op'.on)
      BY <1>0, <2>1
  <2>4. SaveSound'
      BY <2>2, <2>3 DEF SaveSound
  <2> QED
      BY <2>1, <2>4 DEF OpSound
<1>7. SharedSound'
  <2> SUFFICES ASSUME NEW slug \in Slug
               PROVE  /\ disk[ShareSettingsPath(slug)] \in Enabled => slug \in shared'
                      /\ path = ShareSettingsPath(slug) /\ content \in Enabled => slug \in shared'
      BY <1>2, <1>3, <1>5 DEF SharedSound, ShareSettingsPath
  <2>1. shared \subseteq shared' /\ (content \in Enabled => path[2] \in shared')
      BY DEF StartSave
  <2> QED
      BY <2>1, PathFacts DEF StoreInv, SharedSound
<1> QED
    BY <1>4, <1>6, <1>7 DEF StoreInv

LEMMA StartRemovalKeepsStore ==
    ASSUME StoreInv, UNCHANGED <<disk, shared>>, NEW paths \in Seq(Path), NEW what, NEW on \in Path,
           op' = [what |-> what, on |-> on, content |-> Absent, steps |-> RemoveSteps(paths)],
           \/ /\ what = "delete"
              /\ \E slug \in Slug : on = DraftPath(slug) /\ Has(paths, ShareSettingsPath(slug))
           \/ /\ what = "wipe"
              /\ \A path \in Path : disk[path] # Absent => Has(paths, path)
    PROVE  StoreInv'
<1> DEFINE steps == RemoveSteps(paths)
<1>1. /\ steps \in Seq(Step) /\ Len(steps) = Len(paths) /\ Len(paths) \in Nat
      /\ \A i \in 1..Len(steps) : steps[i].path = paths[i] /\ steps[i].content = Absent
    BY RemoveType, LenProperties
<1>2. op' = [what |-> what, on |-> on, content |-> Absent, steps |-> steps]
    OBVIOUS
<1> HIDE DEF steps
<1>3. StoreTypeOK'
    BY <1>1, <1>2 DEF StoreInv, StoreTypeOK, Operation, Spoilt
<1>4. Removing'
    BY <1>1, <1>2 DEF Removing
<1>5. \A path \in Path : Has(paths, path) => WillBeGone(path)'
    BY <1>1, <1>2 DEF Has, WillBeGone
<1>6. OpSound'
  <2>1. CASE what = "delete"
      BY <1>2, <1>4, <1>5, <2>1, PathFacts DEF OpSound, DeleteSound
  <2>2. CASE what = "wipe"
    <3>1. \A slug \in Slug : WillBeGone(ShareSettingsPath(slug))'
        BY <1>5, <2>2, PathFacts DEF WillBeGone
    <3> QED
        BY <1>2, <1>4, <2>2, <3>1 DEF OpSound, WipeSound
  <2> QED
      BY <2>1, <2>2
<1>7. SharedSound'
    BY <1>1, <1>2, SpoiltFacts DEF StoreInv, SharedSound, Spoilt
<1> QED
    BY <1>3, <1>6, <1>7 DEF StoreInv

LEMMA StartDeleteKeepsStore ==
    ASSUME StoreInv, NEW slug \in Slug, StartDelete(slug)
    PROVE  StoreInv'
<1> DEFINE paths == <<DraftPath(slug), PublishedPath(slug), ShareSettingsPath(slug)>>
<1>1. paths \in Seq(Path) /\ Len(paths) = 3 /\ paths[3] = ShareSettingsPath(slug)
    BY PathFacts
<1>2. Has(paths, ShareSettingsPath(slug))
    BY <1>1 DEF Has
<1>3. op' = [what |-> "delete", on |-> DraftPath(slug), content |-> Absent,
             steps |-> RemoveSteps(paths)]
    BY DEF StartDelete, DeleteSteps
<1>4. UNCHANGED <<disk, shared>>
    BY DEF StartDelete
<1> HIDE DEF paths
<1> QED
    BY <1>1, <1>2, <1>3, <1>4, PathFacts, StartRemovalKeepsStore

LEMMA StartWipeKeepsStore ==
    ASSUME StoreInv, StartWipe
    PROVE  StoreInv'
<1>1. op' = [what |-> "wipe", on |-> IdentityPath, content |-> Absent,
             steps |-> RemoveSteps(WipeOrder)]
    BY DEF StartWipe, WipeSteps
<1>2. UNCHANGED <<disk, shared>>
    BY DEF StartWipe
<1> QED
    BY <1>1, <1>2, PathFacts, WipeListsAll, StartRemovalKeepsStore

LEMMA StepKeepsStore ==
    ASSUME StoreInv, StepOp
    PROVE  StoreInv'
<1> DEFINE steps == op.steps
           first == Head(steps)
           rest == Tail(steps)
<1>0. op \in Operation /\ steps \in Seq(Step) /\ steps # <<>>
    BY DEF StoreInv, StoreTypeOK, Operation, StepOp
<1>1. /\ first \in Step /\ rest \in Seq(Step) /\ Len(steps) \in Nat \ {0}
      /\ Len(rest) = Len(steps) - 1 /\ first = steps[1]
      /\ \A i \in 1..Len(rest) : rest[i] = steps[i + 1]
      /\ rest = <<>> <=> Len(steps) = 1
  <2>1. /\ first \in Step /\ rest \in Seq(Step) /\ Len(rest) = Len(steps) - 1
        /\ \A i \in 1..Len(rest) : rest[i] = steps[i + 1]
      BY <1>0, HeadTailProperties
  <2>2. Len(steps) \in Nat \ {0} /\ first = steps[1]
      BY <1>0, EmptySeq
  <2>3. rest = <<>> <=> Len(rest) = 0
      BY <2>1, EmptySeq
  <2> QED
      BY <2>1, <2>2, <2>3
<1>2. op' = [op EXCEPT !.steps = rest] /\ disk' = [disk EXCEPT ![first.path] = first.content]
      /\ shared' = shared
    BY DEF StepOp
<1>3. op'.steps = rest /\ op'.what = op.what /\ op'.on = op.on /\ op'.content = op.content
      /\ op' \in Operation
    BY <1>0, <1>1, <1>2 DEF Operation
<1>4. /\ first.path \in Path /\ first.content \in Content(first.path)
      /\ first.content \in Whole \cup Spoilt
    BY <1>1 DEF Step
<1>5. /\ disk \in [Path -> Whole \cup Spoilt]
      /\ \A path \in Path : disk[path] \in Content(path)
      /\ \A path \in Path : disk'[path] = IF path = first.path THEN first.content ELSE disk[path]
    BY <1>2 DEF StoreInv, StoreTypeOK
<1>6. /\ \A i \in 1..Len(rest) : i + 1 \in 1..Len(steps) /\ rest[i] = steps[i + 1]
      /\ \A i \in 1..Len(steps) : i # 1 => i - 1 \in 1..Len(rest) /\ rest[i - 1] = steps[i]
      /\ 1 \in 1..Len(steps)
    BY <1>1
<1> HIDE DEF first, rest
<1>7. StoreTypeOK'
    BY <1>2, <1>3, <1>4, <1>5 DEF StoreTypeOK
<1>8. \A path \in Path : Removing /\ WillBeGone(path) => WillBeGone(path)'
  <2> SUFFICES ASSUME NEW path \in Path, Removing, WillBeGone(path)
               PROVE  disk'[path] = Absent \/ \E i \in 1..Len(rest) : rest[i].path = path
      BY <1>3 DEF WillBeGone
  <2>1. CASE first.path = path
      BY <1>1, <1>5, <1>6, <2>1 DEF Removing
  <2>2. CASE first.path # path
      BY <1>1, <1>5, <1>6, <2>2 DEF WillBeGone
  <2> QED
      BY <2>1, <2>2
<1>9. Removing => Removing'
  <2>1. ASSUME Removing, NEW i \in 1..Len(rest) PROVE rest[i].content = steps[i + 1].content
      BY <1>6, Zenon
  <2> QED
      BY <1>3, <1>6, <2>1 DEF Removing
<1>10. OpSound'
  <2>1. op.what = "none" => FALSE
      BY <1>0 DEF StoreInv, OpSound
  <2>2. ASSUME op.what = "save" PROVE SaveSound'
    <3>1. SaveSound
        BY <2>2 DEF StoreInv, OpSound
    <3>2. \A i \in 1..Len(rest) : rest[i].path = op.on
        BY <1>6, <3>1 DEF SaveSound
    <3>3. CASE rest = <<>>
      <4>1. first.path = op.on /\ first.content = op.content
          BY <1>0, <1>1, <1>6, <3>1, <3>3 DEF SaveSound
      <4> QED
          BY <1>3, <1>4, <1>5, <3>1, <3>2, <3>3, <4>1 DEF SaveSound
    <3>4. CASE rest # <<>>
      <4>1. Len(steps) # 1 /\ Len(steps) \in 1..Len(steps) /\ Len(steps) - 1 = Len(rest)
          BY <1>1, <3>4
      <4>2. rest[Len(rest)].content = op.content
          BY <1>0, <1>6, <3>1, <4>1 DEF SaveSound
      <4> QED
          BY <1>3, <3>1, <3>2, <3>4, <4>2 DEF SaveSound
    <3> QED
        BY <3>3, <3>4
  <2>3. ASSUME op.what = "delete" PROVE DeleteSound'
      BY <1>3, <1>8, <1>9, <2>3, PathFacts DEF StoreInv, OpSound, DeleteSound
  <2>4. ASSUME op.what = "wipe" PROVE WipeSound'
      BY <1>3, <1>8, <1>9, <2>4, PathFacts DEF StoreInv, OpSound, WipeSound
  <2> QED
      BY <1>3, <2>1, <2>2, <2>3, <2>4 DEF OpSound
<1>11. SharedSound'
  <2> SUFFICES ASSUME NEW slug \in Slug
               PROVE  /\ disk'[ShareSettingsPath(slug)] \in Enabled => slug \in shared
                      /\ \A i \in 1..Len(rest) :
                             rest[i].path = ShareSettingsPath(slug) /\ rest[i].content \in Enabled
                                 => slug \in shared
      BY <1>2, <1>3 DEF SharedSound, ShareSettingsPath
  <2>1. /\ disk[ShareSettingsPath(slug)] \in Enabled => slug \in shared
        /\ \A i \in 1..Len(steps) :
               steps[i].path = ShareSettingsPath(slug) /\ steps[i].content \in Enabled
                   => slug \in shared
      BY DEF StoreInv, SharedSound
  <2>2. disk'[ShareSettingsPath(slug)] \in Enabled => slug \in shared
      BY <1>1, <1>5, <1>6, <2>1, PathFacts
  <2>3. ASSUME NEW i \in 1..Len(rest), rest[i].path = ShareSettingsPath(slug),
               rest[i].content \in Enabled
        PROVE  slug \in shared
    <3>1. i + 1 \in 1..Len(steps) /\ rest[i] = steps[i + 1]
        BY <1>6
    <3> QED
        BY <2>1, <2>3, <3>1
  <2> QED
      BY <2>2, <2>3
<1> QED
    BY <1>7, <1>10, <1>11 DEF StoreInv

LEMMA FinishKeepsStore ==
    ASSUME StoreInv, FinishOp
    PROVE  StoreInv'
<1>0. op \in Operation /\ op.steps = <<>> /\ disk' = disk /\ op' = NoOp /\ op.what # "none"
    BY DEF StoreInv, StoreTypeOK, FinishOp, Idle
<1>1. StoreTypeOK' /\ OpSound'
    BY <1>0, NoOpIsOperation DEF StoreInv, StoreTypeOK, OpSound
<1>2. ASSUME NEW slug \in Slug, disk[ShareSettingsPath(slug)] \in Enabled
      PROVE  slug \in shared'
  <2>0. slug \in shared
      BY <1>2 DEF StoreInv, SharedSound
  <2>1. CASE op.what = "save" /\ op.content \in Setting \ Enabled
    <3>1. SaveSound
        BY <2>1 DEF StoreInv, OpSound
    <3>2. op.on \in Path /\ op.on[1] = "sharing" /\ disk[op.on] \notin Enabled
        BY <1>0, <2>1, <3>1, ContentFacts DEF SaveSound, Operation
    <3>3. op.on[2] # slug
        BY <1>2, <3>2, PathFacts
    <3> QED
        BY <2>0, <2>1, <3>3 DEF FinishOp
  <2>2. CASE op.what = "delete"
    <3>1. PICK gone \in Slug : op.on = DraftPath(gone) /\ WillBeGone(ShareSettingsPath(gone))
        BY <2>2 DEF StoreInv, OpSound, DeleteSound
    <3>2. disk[ShareSettingsPath(gone)] = Absent
        BY <1>0, <3>1, EmptySeq DEF WillBeGone
    <3>3. gone # slug
        BY <1>2, <3>2, SpoiltFacts DEF Spoilt
    <3> QED
        BY <2>0, <2>2, <3>1, <3>3, PathFacts DEF FinishOp
  <2>3. CASE op.what = "wipe"
    <3>1. WillBeGone(ShareSettingsPath(slug))
        BY <2>3 DEF StoreInv, OpSound, WipeSound
    <3>2. disk[ShareSettingsPath(slug)] = Absent
        BY <1>0, <3>1, EmptySeq DEF WillBeGone
    <3> QED
        BY <1>2, <3>2, SpoiltFacts DEF Spoilt
  <2>4. CASE op.what = "save" /\ op.content \notin Setting \ Enabled
      BY <2>0, <2>4 DEF FinishOp
  <2> QED
      BY <1>0, <2>1, <2>2, <2>3, <2>4 DEF Operation
<1>3. SharedSound'
  <2>1. op'.steps = <<>> /\ Len(op'.steps) = 0
      BY <1>0, NoOpIsOperation, EmptySeq
  <2>2. disk' = disk
      BY <1>0
  <2>3. \A i \in 1..Len(op'.steps) : FALSE
      BY <2>1
  <2>4. \A slug \in Slug : disk'[ShareSettingsPath(slug)] \in Enabled => slug \in shared'
      BY <1>2, <2>2
  <2> QED
      BY <2>3, <2>4, Zenon DEF SharedSound, ShareSettingsPath
<1> QED
    BY <1>1, <1>3 DEF StoreInv

-----------------------------------------------------------------------------
(***************************************************************************)
(* The session.                                                            *)
(***************************************************************************)
Event == [id : Identity, addr : Node, age : Nat]

Loop == {l \in [phase : {"sleep", "endpoint", "publish", "ended"}, due : Nat,
                 id : Identity \cup {NoIdentity}, addr : Node \cup {NoNode}] :
             /\ l.phase = "sleep" => l.due <= Refresh
             /\ l.phase = "publish" => l.due <= Wait}

MemoryTypeOK ==
    /\ running \in BOOLEAN
    /\ identity \in Identity \cup {NoIdentity}
    /\ endpoint \in Node \cup {NoNode}
    /\ starts \in [Identity -> {"none", "binding", "bound"}]
    /\ loop \in Loop
    /\ loop.phase \in {"endpoint", "publish"} => loop.id \in Identity
    /\ loop.phase = "publish" => loop.addr \in Node

RelaysTypeOK ==
    /\ published \in [Npub -> Event \cup {NoEvent}]
    /\ missed \in 0..MaxMissed
    /\ steady \in 0..(LongEnough + 1)

Own == published[NpubOf[identity]]

(* within this time the loop has next tried to publish                      *)
Due ==
    CASE loop.phase = "sleep" -> loop.due + Wait
      [] loop.phase = "publish" -> loop.due
      [] OTHER -> Wait

(* what the loop has in hand is what the peers should find, or it is what    *)
(* was in its hands when the session settled, and it is soon done with it   *)
Clean ==
    /\ loop.phase = "endpoint" => loop.id = identity
    /\ loop.phase = "publish" => \/ loop.id = identity /\ loop.addr = endpoint
                                 \/ steady + loop.due <= Wait

(* an event that much younger than the settled time was sealed in it        *)
YoungIsOwn ==
    Own # NoEvent /\ Own.age + Wait < steady => Own.id = identity /\ Own.addr = endpoint

(* each failure in a row costs one more refresh, and what the attempt takes, *)
(* before the next: of the settled time while none has succeeded in it, then *)
(* of the age                                                               *)
Lapse(m) == Wait + (Refresh + Wait) * (m + 1)

InTime ==
    \/ steady + Due <= Lapse(missed) + Wait
    \/ /\ Own # NoEvent /\ Own.id = identity /\ Own.addr = endpoint
       /\ Own.age + Due <= Lapse(missed)

SettledInv == steady > 0 => Settled /\ Clean /\ YoungIsOwn /\ InTime

SessionInv == StoreInv /\ MemoryTypeOK /\ RelaysTypeOK /\ SettledInv

LEMMA LapseFacts ==
    /\ LongEnough \in Nat /\ LongEnough <= Ttl + Wait /\ Ttl \in Nat
    /\ Wait \in Nat /\ Refresh \in Nat
    /\ \A m \in 0..MaxMissed : /\ Lapse(m) \in Nat /\ Refresh + Wait <= Lapse(m)
                              /\ Lapse(m) <= Ttl /\ Lapse(m) + Wait <= LongEnough
    /\ \A m \in Nat : Lapse(m + 1) = Lapse(m) + Refresh + Wait
    /\ Lapse(0) = Wait + Refresh + Wait
<1> DEFINE cycle == Refresh + Wait
<1>1. Refresh \in Nat /\ Wait \in Nat /\ MaxMissed \in Nat /\ cycle \in Nat /\ Ttl \in Nat
    BY SessionAssumption
<1>2. /\ LongEnough = 2 * Wait + cycle * (MaxMissed + 1)
      /\ \A m : Lapse(m) = Wait + cycle * (m + 1)
      /\ Wait + cycle * (MaxMissed + 1) <= Ttl
    BY SessionAssumption DEF LongEnough, Lapse
<1>3. cycle = Refresh + Wait
    OBVIOUS
<1> HIDE DEF cycle
<1>4. \A m \in Nat : /\ cycle * (m + 1) \in Nat /\ cycle * m \in Nat
                     /\ cycle * (m + 1) = cycle * m + cycle
    BY <1>1
<1>5. \A m \in 0..MaxMissed : cycle * (m + 1) <= cycle * (MaxMissed + 1)
    BY <1>1
<1>6. LongEnough \in Nat /\ LongEnough <= Ttl + Wait
    BY <1>1, <1>2, <1>4
<1>7. \A m \in 0..MaxMissed : /\ Lapse(m) \in Nat /\ cycle <= Lapse(m)
                              /\ Lapse(m) <= Ttl /\ Lapse(m) + Wait <= LongEnough
    BY <1>1, <1>2, <1>4, <1>5
<1>8. \A m \in Nat : Lapse(m) \in Nat /\ Lapse(m + 1) = Lapse(m) + cycle
  <2> SUFFICES ASSUME NEW m \in Nat PROVE Lapse(m) \in Nat /\ Lapse(m + 1) = Lapse(m) + cycle
      OBVIOUS
  <2>1. cycle * ((m + 1) + 1) = cycle * (m + 1) + cycle /\ cycle * (m + 1) \in Nat
      BY <1>4
  <2> QED
      BY <1>1, <1>2, <2>1
<1>9. Lapse(0) = Wait + cycle
  <2>1. cycle * (0 + 1) = cycle
      BY <1>1
  <2> QED
      BY <1>2, <2>1
<1> QED
    BY <1>1, <1>3, <1>6, <1>7, <1>8, <1>9

-----------------------------------------------------------------------------
LEMMA Kept ==
    ASSUME RelaysTypeOK, KeepSteady, steady' > 0
    PROVE  steady' = steady /\ Settled /\ Settled' /\ identity' = identity /\ endpoint' = endpoint
BY DEF RelaysTypeOK, KeepSteady, Settled

LEMMA SteadyType ==
    ASSUME RelaysTypeOK, KeepSteady
    PROVE  steady' \in 0..(LongEnough + 1)
BY LapseFacts DEF RelaysTypeOK, KeepSteady

(* a step that leaves the loop and the relays alone *)
LEMMA QuietKeepsSettled ==
    ASSUME RelaysTypeOK, SettledInv, KeepSteady, UNCHANGED <<loop, relays>>
    PROVE  RelaysTypeOK' /\ SettledInv'
<1>1. RelaysTypeOK'
    BY SteadyType DEF RelaysTypeOK, relays
<1>2. ASSUME steady' > 0 PROVE Settled' /\ Clean' /\ YoungIsOwn' /\ InTime'
    BY <1>2, Kept DEF SettledInv, Clean, YoungIsOwn, InTime, Own, Due, relays
<1> QED
    BY <1>1, <1>2 DEF SettledInv

LEMMA RestoredType == StoreInv => Restored \in Identity \cup {NoIdentity}
<1> SUFFICES ASSUME StoreInv, LoadIdentity.is = "some"
             PROVE  LoadIdentity.content \in Identity
    BY DEF Restored
<1>1. disk[IdentityPath] \in Identity \cup Spoilt
    BY PathFacts DEF StoreInv, StoreTypeOK, Content, ContentOf, IdentityPath
<1>2. disk[IdentityPath] \in Whole /\ LoadIdentity.content = disk[IdentityPath]
    BY DEF LoadIdentity, ReadJson, None, Some, Err
<1> QED
    BY <1>1, <1>2, SpoiltFacts

LEMMA LaunchKeepsInv == SessionInv /\ Launch => SessionInv'
<1> SUFFICES ASSUME SessionInv, Launch PROVE SessionInv'
    OBVIOUS
<1>1. StoreInv'
    BY DEF SessionInv, Launch, store, StoreInv, StoreTypeOK, OpSound, SaveSound, DeleteSound,
       WipeSound, Removing, WillBeGone, SharedSound
<1>2. MemoryTypeOK'
    BY RestoredType DEF SessionInv, Launch, StartsWith, MemoryTypeOK
<1>3. RelaysTypeOK' /\ SettledInv'
    BY QuietKeepsSettled DEF SessionInv, Launch
<1> QED
    BY <1>1, <1>2, <1>3 DEF SessionInv

LEMMA AsleepType ==
    ASSUME NEW due \in 0..Refresh
    PROVE  Asleep(due) \in Loop /\ Asleep(due).phase = "sleep" /\ Asleep(due).due = due
BY SessionAssumption DEF Asleep, Loop

(* the invariant does not say more of a session that is not settled         *)
LEMMA UnsettledKeepsSettled ==
    ASSUME RelaysTypeOK, KeepSteady, UNCHANGED relays, ~Settled'
    PROVE  RelaysTypeOK' /\ SettledInv'
BY LapseFacts DEF RelaysTypeOK, KeepSteady, relays, SettledInv

LEMMA CrashKeepsInv == SessionInv /\ Crash => SessionInv'
<1> SUFFICES ASSUME SessionInv, Crash PROVE SessionInv'
    OBVIOUS
<1>1. StoreInv'
    BY EndKeepsStore DEF SessionInv, Crash
<1>2. MemoryTypeOK'
  <2>1. 0 \in 0..Refresh
      BY SessionAssumption
  <2>2. loop' \in Loop /\ loop'.phase = "sleep"
      BY <2>1, AsleepType DEF Crash
  <2>3. starts' \in [Identity -> {"none", "binding", "bound"}]
      BY DEF Crash, NoStarts
  <2>4. running' = FALSE /\ identity' = NoIdentity /\ endpoint' = NoNode
      BY DEF Crash
  <2> QED
      BY <2>2, <2>3, <2>4 DEF MemoryTypeOK
<1>3. steady' = 0
    BY DEF Crash, KeepSteady, Settled
<1>4. RelaysTypeOK' /\ SettledInv'
    BY <1>3, LapseFacts DEF SessionInv, Crash, RelaysTypeOK, SettledInv, relays
<1> QED
    BY <1>1, <1>2, <1>4 DEF SessionInv

LEMMA CommandKeepsInv == SessionInv /\ Command => SessionInv'
<1> SUFFICES ASSUME SessionInv, Command PROVE SessionInv'
    OBVIOUS
<1>1. StoreInv'
    BY StartSaveKeepsStore, StartDeleteKeepsStore, StartWipeKeepsStore DEF SessionInv, Command
<1>2. MemoryTypeOK'
    BY DEF SessionInv, Command, memory, MemoryTypeOK
<1>3. RelaysTypeOK' /\ SettledInv'
    BY QuietKeepsSettled DEF SessionInv, Command
<1> QED
    BY <1>1, <1>2, <1>3 DEF SessionInv

LEMMA StoreStepKeepsInv == SessionInv /\ StoreStep => SessionInv'
<1> SUFFICES ASSUME SessionInv, StoreStep PROVE SessionInv'
    OBVIOUS
<1>1. StoreInv'
    BY StepKeepsStore, FinishKeepsStore, EndKeepsStore DEF SessionInv, StoreStep, FailOp
<1>2. /\ identity' \in Identity \cup {NoIdentity}
      /\ endpoint' \in Node \cup {NoNode}
      /\ starts' \in [Identity -> {"none", "binding", "bound"}]
  <2>1. CASE UNCHANGED <<identity, endpoint, starts>>
      BY <2>1 DEF SessionInv, MemoryTypeOK
  <2>2. CASE TakeUp /\ op.what = "save" /\ op.on = IdentityPath
    <3>1. op.content \in Identity
        BY <2>2 DEF SessionInv, StoreInv, OpSound, SaveSound, ContentOf, IdentityPath
    <3>2. identity' = op.content /\ starts' = StartsWith(op.content) /\ endpoint' = endpoint
        BY <2>2 DEF TakeUp
    <3> QED
        BY <3>1, <3>2 DEF StartsWith, SessionInv, MemoryTypeOK
  <2>3. CASE TakeUp /\ op.what = "wipe"
      BY <2>3 DEF TakeUp, SessionInv, MemoryTypeOK
  <2>4. CASE TakeUp /\ ~(op.what = "save" /\ op.on = IdentityPath) /\ op.what # "wipe"
      BY <2>1, <2>4 DEF TakeUp
  <2> QED
      BY <2>1, <2>2, <2>3, <2>4 DEF StoreStep
<1>3. MemoryTypeOK'
    BY <1>2 DEF SessionInv, StoreStep, MemoryTypeOK
<1>4. RelaysTypeOK' /\ SettledInv'
    BY QuietKeepsSettled DEF SessionInv, StoreStep
<1> QED
    BY <1>1, <1>3, <1>4 DEF SessionInv

LEMMA StoreUnchanged == StoreInv /\ UNCHANGED store => StoreInv'
BY DEF store, StoreInv, StoreTypeOK, OpSound, SaveSound, DeleteSound, WipeSound, Removing,
   WillBeGone, SharedSound

LEMMA BindKeepsInv ==
    ASSUME NEW i \in Identity
    PROVE  SessionInv /\ (Bind(i) \/ Install(i)) => SessionInv'
<1> SUFFICES ASSUME SessionInv, Bind(i) \/ Install(i) PROVE SessionInv'
    OBVIOUS
<1>1. StoreInv'
    BY StoreUnchanged DEF SessionInv, Bind, Install
<1>2. starts' \in [Identity -> {"none", "binding", "bound"}]
    BY DEF SessionInv, MemoryTypeOK, Bind, Install
<1>3. endpoint' \in Node \cup {NoNode}
    BY SessionAssumption DEF SessionInv, MemoryTypeOK, Bind, Install
<1>4. MemoryTypeOK'
    BY <1>2, <1>3 DEF SessionInv, MemoryTypeOK, Bind, Install
<1>5. RelaysTypeOK' /\ SettledInv'
    BY QuietKeepsSettled DEF SessionInv, Bind, Install
<1> QED
    BY <1>1, <1>4, <1>5 DEF SessionInv

LEMMA InTimeNext ==
    ASSUME \/ steady' + Due' <= Lapse(missed') + Wait
           \/ /\ Own' # NoEvent /\ Own'.id = identity' /\ Own'.addr = endpoint'
              /\ Own'.age + Due' <= Lapse(missed')
    PROVE  InTime'
BY DEF InTime, Lapse

(* the same events, and the next attempt no later *)
LEMMA LaterIsFine ==
    ASSUME MemoryTypeOK, RelaysTypeOK, InTime, identity' = identity, identity \in Identity,
           endpoint' = endpoint, published' = published, missed' = missed, steady' = steady,
           Due \in Nat, Due' \in Nat, Due' <= Due
    PROVE  InTime'
<1>1. Own' = Own /\ Lapse(missed') = Lapse(missed) /\ Lapse(missed) \in Nat /\ Wait \in Nat
    BY LapseFacts DEF Own, RelaysTypeOK
<1>2. Own # NoEvent => Own.age \in Nat
    BY SessionAssumption DEF RelaysTypeOK, Own, Event
<1>3. steady \in Nat
    BY LapseFacts DEF RelaysTypeOK
<1>4. \/ steady' + Due' <= Lapse(missed') + Wait
      \/ /\ Own' # NoEvent /\ Own'.id = identity' /\ Own'.addr = endpoint'
         /\ Own'.age + Due' <= Lapse(missed')
    BY <1>1, <1>2, <1>3 DEF InTime
<1> QED
    BY <1>4, InTimeNext

(* The loop's own turns: what it does with the relays and how long it then   *)
(* sleeps are all that SettledInv has to be looked at again for.            *)
LEMMA SnapshotKeepsInv == SessionInv /\ Snapshot => SessionInv'
<1> SUFFICES ASSUME SessionInv, Snapshot PROVE SessionInv'
    OBVIOUS
<1> USE DEF SessionInv
<1>1. StoreInv'
    BY StoreUnchanged DEF Snapshot
<1>2. Refresh \in Nat /\ Wait \in Nat /\ 0 \in 0..Refresh /\ Refresh \in 0..Refresh
    BY SessionAssumption
<1>3. /\ loop' \in Loop
      /\ loop'.phase \in {"sleep", "endpoint"}
      /\ loop'.phase = "endpoint" => loop'.id = identity /\ identity # NoIdentity
      /\ identity # NoIdentity => loop'.phase = "endpoint"
  <2>1. CASE identity = NoIdentity
    <3>1. loop' = Asleep(Refresh)
        BY <2>1 DEF Snapshot
    <3> QED
        BY <1>2, <2>1, <3>1, AsleepType
  <2>2. CASE identity # NoIdentity
    <3>1. loop' = [phase |-> "endpoint", due |-> 0, id |-> identity, addr |-> NoNode]
        BY <2>2 DEF Snapshot, Asleep
    <3>2. identity \in Identity
        BY <2>2 DEF MemoryTypeOK
    <3> QED
        BY <2>2, <3>1, <3>2 DEF Loop
  <2> QED
      BY <2>1, <2>2
<1>4. MemoryTypeOK'
    BY <1>3 DEF Snapshot, memory, MemoryTypeOK
<1>5. RelaysTypeOK'
    BY SteadyType DEF Snapshot, relays, RelaysTypeOK
<1>6. ASSUME steady' > 0 PROVE Settled' /\ Clean' /\ YoungIsOwn' /\ InTime'
  <2>1. steady' = steady /\ steady > 0 /\ Settled' /\ identity' = identity /\ endpoint' = endpoint
        /\ identity # NoIdentity
      BY <1>6, Kept DEF Snapshot, Settled
  <2>2. published' = published /\ missed' = missed
      BY DEF Snapshot, relays
  <2>3. Clean'
      BY <1>3, <2>1 DEF Clean
  <2>4. YoungIsOwn'
      BY <2>1, <2>2 DEF SettledInv, YoungIsOwn, Own
  <2>5. Due' = Wait /\ Due \in Nat /\ Wait <= Due
      BY <1>2, <1>3, <2>1 DEF Due, MemoryTypeOK, Loop, Snapshot
  <2>6. InTime'
    <3>1. InTime /\ identity \in Identity /\ Due' \in Nat /\ Due' <= Due
        BY <1>2, <2>1, <2>5 DEF SettledInv, MemoryTypeOK
    <3> QED
        BY <2>1, <2>2, <2>5, <3>1, LaterIsFine
  <2> QED
      BY <2>1, <2>3, <2>4, <2>6
<1> QED
    BY <1>1, <1>4, <1>5, <1>6 DEF SettledInv

(* told to stop, the loop leaves the session unsettled for good *)
LEMMA StopLoopKeepsInv == SessionInv /\ StopLoop => SessionInv'
<1> SUFFICES ASSUME SessionInv, StopLoop PROVE SessionInv'
    OBVIOUS
<1> USE DEF SessionInv
<1>1. StoreInv'
    BY StoreUnchanged DEF StopLoop
<1>2. loop' \in Loop /\ loop'.phase = "ended"
    BY DEF StopLoop, Asleep, Loop
<1>3. MemoryTypeOK'
    BY <1>2 DEF StopLoop, memory, MemoryTypeOK
<1>4. RelaysTypeOK' /\ SettledInv'
    BY <1>2, UnsettledKeepsSettled DEF StopLoop, Settled
<1> QED
    BY <1>1, <1>3, <1>4

LEMMA ReadEndpointKeepsInv == SessionInv /\ ReadEndpoint => SessionInv'
<1> SUFFICES ASSUME SessionInv, ReadEndpoint PROVE SessionInv'
    OBVIOUS
<1> USE DEF SessionInv
<1>1. StoreInv'
    BY StoreUnchanged DEF ReadEndpoint
<1>2. Refresh \in Nat /\ Wait \in Nat /\ 0 \in 0..Refresh /\ Refresh \in 0..Refresh
    BY SessionAssumption
<1>3. loop \in Loop /\ loop.phase = "endpoint" /\ loop.id \in Identity
    BY DEF ReadEndpoint, MemoryTypeOK
<1>4. CASE endpoint = NoNode
  <2>1. loop' = Asleep(Refresh) /\ loop' \in Loop /\ loop'.phase = "sleep"
      BY <1>2, <1>4, AsleepType DEF ReadEndpoint
  <2>2. MemoryTypeOK'
      BY <2>1 DEF ReadEndpoint, memory, MemoryTypeOK
  <2>3. ~Settled'
      BY <1>4, SessionAssumption, BindingAssumption
      DEF ReadEndpoint, memory, MemoryTypeOK, Settled
  <2> QED
      BY <1>1, <2>2, <2>3, UnsettledKeepsSettled DEF ReadEndpoint
<1>5. CASE endpoint # NoNode
  <2>1. loop' = [loop EXCEPT !.phase = "publish", !.addr = endpoint, !.due = Wait]
      BY <1>5 DEF ReadEndpoint
  <2>2. /\ loop' \in Loop /\ loop'.phase = "publish" /\ loop'.due = Wait
        /\ loop'.id = loop.id /\ loop'.addr = endpoint /\ endpoint \in Node
    <3>1. endpoint \in Node
        BY <1>5 DEF MemoryTypeOK
    <3>2. loop' = [phase |-> "publish", due |-> Wait, id |-> loop.id, addr |-> endpoint]
        BY <1>3, <2>1 DEF Loop
    <3> QED
        BY <1>2, <1>3, <3>1, <3>2 DEF Loop
  <2>3. MemoryTypeOK'
      BY <1>3, <2>2 DEF ReadEndpoint, memory, MemoryTypeOK
  <2>4. RelaysTypeOK'
      BY SteadyType DEF ReadEndpoint, relays, RelaysTypeOK
  <2>5. ASSUME steady' > 0 PROVE Settled' /\ Clean' /\ YoungIsOwn' /\ InTime'
    <3>1. steady' = steady /\ steady > 0 /\ Settled' /\ identity' = identity
          /\ endpoint' = endpoint /\ identity \in Identity
        BY <2>5, Kept DEF ReadEndpoint, Settled, MemoryTypeOK
    <3>2. published' = published /\ missed' = missed
        BY DEF ReadEndpoint, relays
    <3>3. Clean'
        BY <1>3, <2>2, <3>1 DEF SettledInv, Clean
    <3>4. YoungIsOwn'
        BY <3>1, <3>2 DEF SettledInv, YoungIsOwn, Own
    <3>5. Due' = Wait /\ Due = Wait
        BY <1>3, <2>2 DEF Due
    <3>6. InTime'
        BY <1>2, <3>1, <3>2, <3>5, LaterIsFine DEF SettledInv
    <3> QED
        BY <3>1, <3>3, <3>4, <3>6
  <2> QED
      BY <1>1, <2>3, <2>4, <2>5 DEF SettledInv
<1> QED
    BY <1>4, <1>5

(* what the relays hold of the npub after a publication that succeeded *)
LEMMA PublishFacts ==
    ASSUME MemoryTypeOK, RelaysTypeOK, loop.phase = "publish", NEW age \in 0..(Wait - loop.due),
           Publish([id |-> loop.id, addr |-> loop.addr, age |-> age])
    PROVE  LET n == NpubOf[loop.id]
           IN /\ published' \in [Npub -> Event \cup {NoEvent}] /\ n \in Npub
              /\ \A m \in Npub \ {n} : published'[m] = published[m]
              /\ published'[n] # NoEvent /\ published'[n].age \in Nat /\ published'[n].age <= age
              /\ \/ published'[n] = published[n]
                 \/ /\ published'[n].id = loop.id /\ published'[n].addr = loop.addr
                    /\ published'[n].age = age
<1> DEFINE n == NpubOf[loop.id]
           fresh == [id |-> loop.id, addr |-> loop.addr, age |-> age]
<1>1. n \in Npub /\ fresh \in Event /\ fresh # NoEvent /\ age \in Nat
  <2>1. loop.id \in Identity /\ loop.addr \in Node /\ loop.due \in Nat /\ Wait \in Nat
      BY SessionAssumption DEF MemoryTypeOK, Loop
  <2> QED
      BY <2>1, SessionAssumption DEF Event
<1>2. PICK event \in Newest(published[n], fresh) : published' = [published EXCEPT ![n] = event]
    BY DEF Publish
<1>3. /\ published[n] \in Event \cup {NoEvent}
      /\ published[n] # NoEvent => published[n].age \in Nat
    BY <1>1 DEF RelaysTypeOK, Event
<1>4. /\ event \in Event /\ event # NoEvent /\ event.age \in Nat /\ event.age <= age
      /\ event = published[n] \/ event = fresh
  <2> DEFINE held == published[n]
  <2>1. fresh.age = age
      OBVIOUS
  <2>2. CASE held = NoEvent \/ age < held.age
      BY <1>1, <1>2, <2>1, <2>2 DEF Newest
  <2>3. CASE held # NoEvent /\ ~(age < held.age)
    <3>1. held \in Event /\ held.age \in Nat /\ held.age <= age
        BY <1>1, <1>3, <2>3
    <3>2. event = held \/ event = fresh
        BY <1>2, <2>1, <2>3 DEF Newest
    <3> QED
        BY <1>1, <2>1, <2>3, <3>1, <3>2
  <2> QED
      BY <2>2, <2>3
<1>5. published' = [published EXCEPT ![n] = event] /\ published \in [Npub -> Event \cup {NoEvent}]
    BY <1>2 DEF RelaysTypeOK
<1> QED
    BY <1>1, <1>4, <1>5

LEMMA PublishKeepsInv == SessionInv /\ PublishPresence => SessionInv'
<1> SUFFICES ASSUME SessionInv, PublishPresence PROVE SessionInv'
    OBVIOUS
<1> USE DEF SessionInv
<1> DEFINE n == NpubOf[loop.id]
           Success == /\ \E age \in 0..(Wait - loop.due) :
                             Publish([id |-> loop.id, addr |-> loop.addr, age |-> age])
                      /\ missed' = 0
           Failure == missed < MaxMissed /\ missed' = missed + 1 /\ UNCHANGED published
<1>1. StoreInv'
    BY StoreUnchanged DEF PublishPresence
<1>2. Success \/ Failure
    BY DEF PublishPresence
<1>3. /\ loop' = Asleep(Refresh) /\ Refresh \in 0..Refresh /\ Refresh \in Nat /\ Wait \in Nat
      /\ loop.phase = "publish" /\ loop.id \in Identity /\ loop.addr \in Node
      /\ loop.due \in Nat /\ loop.due <= Wait
    BY SessionAssumption DEF PublishPresence, NextDelay, MemoryTypeOK, Loop
<1>4. loop' \in Loop /\ loop'.phase = "sleep" /\ loop'.due = Refresh
    BY <1>3, AsleepType
<1>5. MemoryTypeOK'
    BY <1>4 DEF PublishPresence, memory, MemoryTypeOK
<1>6. Success =>
          \E age \in 0..(Wait - loop.due) :
              /\ published' \in [Npub -> Event \cup {NoEvent}] /\ n \in Npub
              /\ \A m \in Npub \ {n} : published'[m] = published[m]
              /\ published'[n] # NoEvent /\ published'[n].age \in Nat /\ published'[n].age <= age
              /\ \/ published'[n] = published[n]
                 \/ /\ published'[n].id = loop.id /\ published'[n].addr = loop.addr
                    /\ published'[n].age = age
    BY <1>3, PublishFacts
<1>7. missed' \in 0..MaxMissed
    BY <1>2, SessionAssumption DEF RelaysTypeOK
<1>8. published' \in [Npub -> Event \cup {NoEvent}]
    BY <1>2, <1>6 DEF RelaysTypeOK
<1>9. RelaysTypeOK'
    BY <1>7, <1>8, SteadyType DEF PublishPresence, RelaysTypeOK
<1> HIDE DEF Success
<1>10. ASSUME steady' > 0 PROVE Settled' /\ Clean' /\ YoungIsOwn' /\ InTime'
  <2>1. steady' = steady /\ steady > 0 /\ Settled /\ Settled' /\ identity' = identity
        /\ endpoint' = endpoint /\ steady \in Nat /\ identity \in Identity
      BY <1>10, Kept DEF PublishPresence, RelaysTypeOK, Settled, MemoryTypeOK
  <2>2. /\ YoungIsOwn /\ InTime
        /\ (loop.id = identity /\ loop.addr = endpoint) \/ steady + loop.due <= Wait
      BY <1>3, <2>1 DEF SettledInv, Clean
  <2>3. Clean'
      BY <1>4 DEF Clean
  <2>4. Due = loop.due /\ Due' = Refresh + Wait
      BY <1>3, <1>4 DEF Due
  <2>5. NpubOf[identity] \in Npub /\ Own = published[NpubOf[identity]]
        /\ Own' = published'[NpubOf[identity]]
      BY <2>1, SessionAssumption DEF Own
  <2>6. /\ Own # NoEvent => Own.age \in Nat
        /\ Own' # NoEvent => Own'.age \in Nat
      BY <1>8, <2>5 DEF RelaysTypeOK, Event
  <2>7. CASE Success /\ loop.id = identity /\ loop.addr = endpoint
    <3>1. PICK age \in 0..(Wait - loop.due) :
              /\ Own' # NoEvent /\ Own'.age <= age
              /\ Own' = Own \/ (Own'.id = identity /\ Own'.addr = endpoint)
      <4>1. n = NpubOf[identity]
          BY <2>7
      <4>2. PICK age \in 0..(Wait - loop.due) :
                /\ published'[n] # NoEvent /\ published'[n].age <= age
                /\ \/ published'[n] = published[n]
                   \/ published'[n].id = loop.id /\ published'[n].addr = loop.addr
          BY <1>6, <2>7
      <4> QED
          BY <2>5, <2>7, <4>1, <4>2
    <3>2. YoungIsOwn'
        BY <2>1, <2>2, <3>1 DEF YoungIsOwn
    <3>3. Own'.age \in Nat /\ Own'.age <= Wait
        BY <1>3, <2>6, <3>1
    <3>4. missed' = 0 /\ Lapse(missed') = Wait + Refresh + Wait
        BY <2>7, LapseFacts DEF Success
    <3>5. ASSUME Own'.id = identity, Own'.addr = endpoint PROVE InTime'
      <4>1. Own'.age + Due' <= Lapse(missed')
          BY <1>3, <2>4, <3>3, <3>4
      <4> QED
          BY <2>1, <3>1, <3>5, <4>1, InTimeNext
    <3>6. ASSUME ~(Own'.id = identity /\ Own'.addr = endpoint) PROVE InTime'
      <4>1. Own' = Own /\ ~(Own.age + Wait < steady)
          BY <2>2, <3>1, <3>6 DEF YoungIsOwn
      <4>2. steady' + Due' <= Lapse(missed') + Wait
          BY <1>3, <2>1, <2>4, <2>6, <3>3, <3>4, <4>1
      <4> QED
          BY <4>2, InTimeNext
    <3> QED
        BY <2>1, <2>3, <3>2, <3>5, <3>6
  <2>8. CASE Success /\ steady + loop.due <= Wait
    <3>1. missed' = 0 /\ Lapse(missed') = Wait + Refresh + Wait
        BY <2>8, LapseFacts DEF Success
    <3>2. steady' + Due' <= Lapse(missed') + Wait
        BY <1>3, <2>1, <2>4, <2>8, <3>1
    <3>3. InTime'
        BY <3>2, InTimeNext
    <3>4. ASSUME Own' # NoEvent PROVE ~(Own'.age + Wait < steady')
        BY <1>3, <2>1, <2>6, <2>8, <3>4
    <3>5. YoungIsOwn'
        BY <3>4 DEF YoungIsOwn
    <3> QED
        BY <2>1, <2>3, <3>3, <3>5
  <2>9. CASE Failure
    <3>1. Own' = Own
        BY <2>5, <2>9
    <3>2. YoungIsOwn'
        BY <2>1, <2>2, <3>1 DEF YoungIsOwn
    <3>3. Lapse(missed') = Lapse(missed) + Refresh + Wait /\ Lapse(missed) \in Nat
        BY <2>9, LapseFacts DEF RelaysTypeOK
    <3>4. \/ steady' + Due' <= Lapse(missed') + Wait
          \/ /\ Own' # NoEvent /\ Own'.id = identity' /\ Own'.addr = endpoint'
             /\ Own'.age + Due' <= Lapse(missed')
        BY <1>3, <2>1, <2>2, <2>4, <2>6, <3>1, <3>3 DEF InTime
    <3>5. InTime'
        BY <3>4, InTimeNext
    <3> QED
        BY <2>1, <2>3, <3>2, <3>5
  <2> QED
      BY <1>2, <2>2, <2>7, <2>8, <2>9
<1> QED
    BY <1>1, <1>5, <1>9, <1>10 DEF SettledInv

LEMMA OlderFacts ==
    ASSUME NEW event \in Event \cup {NoEvent}
    PROVE  /\ Older(event) \in Event \cup {NoEvent}
           /\ Older(event) = NoEvent <=> event = NoEvent
           /\ event # NoEvent => /\ event.age \in Nat
                                 /\ Older(event).id = event.id /\ Older(event).addr = event.addr
                                 /\ Older(event).age = IF event.age > Ttl THEN event.age
                                                       ELSE event.age + 1
<1>1. NoEvent \notin Event
    BY SessionAssumption DEF Event
<1>2. CASE event = NoEvent
    BY <1>2 DEF Older
<1>3. CASE event # NoEvent
  <2>1. event \in Event /\ event.age \in Nat /\ event.age + 1 \in Nat /\ Ttl \in Nat
      BY <1>3, LapseFacts DEF Event
  <2>2. [event EXCEPT !.age = @ + 1] = [id |-> event.id, addr |-> event.addr, age |-> event.age + 1]
      BY <2>1 DEF Event
  <2> QED
      BY <1>1, <1>3, <2>1, <2>2 DEF Older, Event
<1> QED
    BY <1>2, <1>3

LEMMA TickKeepsInv == SessionInv /\ Tick => SessionInv'
<1> SUFFICES ASSUME SessionInv, Tick PROVE SessionInv'
    OBVIOUS
<1> USE DEF SessionInv
<1>1. StoreInv'
    BY StoreUnchanged DEF Tick
<1>2. /\ loop' = IF Ticking THEN [loop EXCEPT !.due = @ - 1] ELSE loop
      /\ Ticking => loop.phase \in {"sleep", "publish"} /\ loop.due > 0
      /\ loop \in Loop /\ loop.due \in Nat /\ Refresh \in Nat /\ Wait \in Nat
    BY SessionAssumption DEF Tick, MemoryTypeOK, Loop
<1>3. loop' \in Loop /\ loop'.phase = loop.phase /\ loop'.id = loop.id /\ loop'.addr = loop.addr
      /\ (Ticking => loop'.due = loop.due - 1)
  <2>1. CASE Ticking
    <3>1. loop.due - 1 \in Nat
        BY <1>2, <2>1
    <3>2. /\ loop.phase = "sleep" => loop.due <= Refresh
          /\ loop.phase = "publish" => loop.due <= Wait
        BY <1>2 DEF Loop
    <3> QED
        BY <1>2, <2>1, <3>1, <3>2 DEF Loop
  <2>2. CASE ~Ticking
      BY <1>2, <2>2
  <2> QED
      BY <2>1, <2>2
<1>4. MemoryTypeOK'
    BY <1>3 DEF Tick, memory, MemoryTypeOK
<1>5. published' \in [Npub -> Event \cup {NoEvent}]
    BY OlderFacts DEF Tick, RelaysTypeOK
<1>6. steady \in 0..(LongEnough + 1) /\ steady' \in 0..(LongEnough + 1)
    BY LapseFacts DEF Tick, RelaysTypeOK
<1>7. RelaysTypeOK'
    BY <1>5, <1>6 DEF Tick, RelaysTypeOK
<1>8. ASSUME steady' > 0 PROVE Settled' /\ Clean' /\ YoungIsOwn' /\ InTime'
  <2>1. /\ Settled /\ identity \in Identity
        /\ steady' = IF steady <= LongEnough THEN steady + 1 ELSE steady
      BY <1>6, <1>8 DEF Tick, SettledInv, Settled, MemoryTypeOK
  <2>2. identity' = identity /\ endpoint' = endpoint /\ Settled' /\ missed' = missed /\ Ticking
      BY <1>3, <2>1 DEF Tick, memory, Settled, Ticking
  <2>3. /\ LongEnough \in Nat /\ Ttl \in Nat /\ LongEnough <= Ttl + Wait
        /\ Lapse(missed) \in Nat /\ Refresh + Wait <= Lapse(missed)
        /\ Lapse(missed) <= Ttl /\ Lapse(missed) + Wait <= LongEnough
      BY LapseFacts DEF RelaysTypeOK
  <2>4. /\ Due \in Nat /\ Due' = Due - 1 /\ Due <= Refresh + Wait /\ 0 < Due
        /\ loop.phase = "publish" => Due = loop.due /\ Due <= Wait
      BY <1>2, <1>3, <2>2 DEF Due, Loop
  <2>6. Clean'
    <3>1. loop.phase # "endpoint"
        BY <1>2, <2>2
    <3>2. ASSUME loop.phase = "publish"
          PROVE  (loop.id = identity /\ loop.addr = endpoint) \/ steady' + loop'.due <= Wait
      <4>1. loop'.due = loop.due - 1 /\ loop.due \in Nat /\ loop.due <= Wait
          BY <1>2, <1>3, <2>2, <2>4, <3>2
      <4>2. CASE steady = 0
          BY <1>2, <2>1, <2>3, <4>1, <4>2
      <4>3. CASE steady > 0
        <5>1. (loop.id = identity /\ loop.addr = endpoint) \/ steady + loop.due <= Wait
            BY <3>2, <4>3 DEF SettledInv, Clean
        <5> QED
            BY <1>2, <1>6, <2>1, <2>3, <4>1, <5>1
      <4> QED
          BY <1>6, <4>2, <4>3
    <3> QED
        BY <1>3, <2>2, <3>1, <3>2 DEF Clean
  <2>7. Own \in Event \cup {NoEvent} /\ Own' = Older(Own)
      BY <2>1, <2>2, SessionAssumption DEF Own, Tick, RelaysTypeOK
  <2>8. /\ Own' = NoEvent <=> Own = NoEvent
        /\ Own # NoEvent => /\ Own.age \in Nat
                            /\ Own'.id = Own.id /\ Own'.addr = Own.addr
                            /\ Own'.age = IF Own.age > Ttl THEN Own.age ELSE Own.age + 1
      BY <2>7, OlderFacts
  <2>9. YoungIsOwn'
    <3> SUFFICES ASSUME Own' # NoEvent, Own'.age + Wait < steady'
                 PROVE  Own'.id = identity /\ Own'.addr = endpoint
        BY <2>2 DEF YoungIsOwn
    <3>1. Own # NoEvent /\ Own.age + Wait < steady /\ steady > 0
        BY <1>2, <1>6, <2>1, <2>3, <2>8
    <3> QED
        BY <2>8, <3>1 DEF SettledInv, YoungIsOwn
  <2>10. \/ steady' + Due' <= Lapse(missed) + Wait
         \/ /\ Own' # NoEvent /\ Own'.id = identity /\ Own'.addr = endpoint
            /\ Own'.age + Due' <= Lapse(missed)
    <3>1. CASE steady = 0
        BY <1>2, <2>1, <2>3, <2>4, <3>1
    <3>2. CASE steady > 0 /\ steady + Due <= Lapse(missed) + Wait
        BY <1>2, <1>6, <2>1, <2>3, <2>4, <3>2
    <3>3. CASE Own # NoEvent /\ Own.id = identity /\ Own.addr = endpoint
               /\ Own.age + Due <= Lapse(missed)
      <4>1. Own'.age = Own.age + 1
          BY <2>3, <2>4, <2>8, <3>3
      <4> QED
          BY <2>3, <2>4, <2>8, <3>3, <4>1
    <3> QED
        BY <1>6, <3>1, <3>2, <3>3 DEF SettledInv, InTime
  <2>11. InTime'
      BY <2>2, <2>10, InTimeNext
  <2> QED
      BY <2>2, <2>6, <2>9, <2>11
<1> QED
    BY <1>1, <1>4, <1>7, <1>8 DEF SettledInv

LEMMA InitSessionInv == SessionInit => SessionInv
<1> SUFFICES ASSUME SessionInit PROVE SessionInv
    OBVIOUS
<1> USE DEF SessionInit
<1>1. 0 \in 0..Refresh /\ 0 \in 0..MaxMissed /\ 0 \in 0..(LongEnough + 1)
    BY LapseFacts, SessionAssumption
<1>2. Absent \in Spoilt /\ \A path \in Path : Absent \in Content(path)
    BY DEF Spoilt, Content
<1>3. op \in Operation /\ op.what = "none" /\ op.steps = <<>> /\ Len(op.steps) = 0
    BY NoOpIsOperation, EmptySeq
<1>4. \A path \in Path : disk[path] = Absent
    OBVIOUS
<1>5. StoreTypeOK
    BY <1>2, <1>3 DEF StoreTypeOK
<1>6. OpSound
    BY <1>3 DEF OpSound, NoOp
<1>7. \A slug \in Slug : disk[ShareSettingsPath(slug)] \notin Enabled
    BY <1>2, <1>4, PathFacts, SpoiltFacts
<1>8. \A i \in 1..Len(op.steps) : FALSE
    BY <1>3
<1>9. SharedSound
    BY <1>7, <1>8, Zenon DEF SharedSound
<1>10. MemoryTypeOK
    BY <1>1, AsleepType DEF MemoryTypeOK, NoStarts
<1>11. RelaysTypeOK /\ SettledInv
    BY <1>1 DEF RelaysTypeOK, SettledInv
<1> QED
    BY <1>5, <1>6, <1>9, <1>10, <1>11 DEF SessionInv, StoreInv

LEMMA NextSessionInv == SessionInv /\ [SessionNext]_sessionVars => SessionInv'
<1> SUFFICES ASSUME SessionInv, [SessionNext]_sessionVars PROVE SessionInv'
    OBVIOUS
<1>1. CASE Launch
    BY <1>1, LaunchKeepsInv
<1>2. CASE Crash
    BY <1>2, CrashKeepsInv
<1>3. CASE Command
    BY <1>3, CommandKeepsInv
<1>4. CASE StoreStep
    BY <1>4, StoreStepKeepsInv
<1>5. ASSUME NEW i \in Identity, Bind(i) \/ Install(i) PROVE SessionInv'
    BY <1>5, BindKeepsInv
<1>6. CASE Snapshot \/ StopLoop
    BY <1>6, SnapshotKeepsInv, StopLoopKeepsInv
<1>7. CASE ReadEndpoint
    BY <1>7, ReadEndpointKeepsInv
<1>8. CASE PublishPresence
    BY <1>8, PublishKeepsInv
<1>9. CASE Tick
    BY <1>9, TickKeepsInv
<1>10. CASE UNCHANGED sessionVars
  <2>1. UNCHANGED store /\ UNCHANGED <<memory, loop, relays, steady>>
      BY <1>10 DEF sessionVars
  <2>2. StoreInv'
      BY <2>1, StoreUnchanged DEF SessionInv
  <2>3. MemoryTypeOK' /\ RelaysTypeOK'
      BY <2>1 DEF SessionInv, memory, relays, MemoryTypeOK, RelaysTypeOK
  <2>4. SettledInv'
      BY <2>1 DEF SessionInv, memory, relays, SettledInv, Settled, Clean, YoungIsOwn, InTime, Own,
         Due
  <2> QED
      BY <2>2, <2>3, <2>4 DEF SessionInv
<1> QED
    BY <1>1, <1>2, <1>3, <1>4, <1>5, <1>6, <1>7, <1>8, <1>9, <1>10 DEF SessionNext

(* The invariant of the session: what the operation in progress still has to *)
(* do, the types of the memory and of the relays, and what the time since    *)
(* the endpoint became the identity's says of the newest presence.          *)
THEOREM SessionInvariant == SessionSpec => []SessionInv
<1>1. SessionInit => SessionInv
    BY InitSessionInv
<1>2. SessionInv /\ [SessionNext]_sessionVars => SessionInv'
    BY NextSessionInv
<1> QED
    BY <1>1, <1>2, PTL DEF SessionSpec

-----------------------------------------------------------------------------
(* Nobody is served a collection once its deletion, its disabling or the     *)
(* wipe was reported to have succeeded, until it is enabled again            *)
(* (serve_transfer, delete_collection, save_share_settings, wipe).          *)
THEOREM ServedOnPurposeTheorem == SessionSpec => []ServedOnPurpose
<1>1. SessionInv => ServedOnPurpose
    BY ServesEnabled DEF SessionInv, StoreInv, SharedSound, ServedOnPurpose
<1> QED
    BY <1>1, SessionInvariant, PTL

(* the fields of what the app publishes *)
LEMMA PresenceFacts ==
    ASSUME NEW event \in Event
    PROVE  LET p == Presence(event)
           IN /\ p.signed = TRUE /\ p.kind = "presence" /\ p.npub = NpubOf[event.id]
              /\ p.version = 1 /\ p.created = 0 - event.age /\ p.expires = (0 - event.age) + Ttl
              /\ p.node = NodeOf[event.id] /\ p.crypto = 1
              /\ p.sealed = [key |-> KeyOf[event.id], addrs |-> <<event.addr>>]
<1>1. Ttl \in Nat /\ MaxBindingTtl \in Nat /\ ~(Ttl > MaxBindingTtl)
    BY SessionAssumption, BindingAssumption
<1>2. <<event.addr>> # <<>>
    OBVIOUS
<1> QED
    BY <1>1, <1>2 DEF Presence, BuildBinding, SealAddrs, SchemaV, CryptoV

(* Of what the relays may answer with, only what the app itself sealed under *)
(* that npub is dialled, and only when the address and the key in it are     *)
(* those of one identity (resolve_peer_addr, vouches_for).                  *)
THEOREM DialsOwnNodeTheorem == SessionSpec => []DialsOwnNode
<1>1. SessionInv => DialsOwnNode
  <2> SUFFICES ASSUME RelaysTypeOK, NEW code \in ShareCode, NEW contact \in BrowseKey \cup {NoKey},
                      NEW event \in Fetched(code.npub), Dialled(event, code, contact) # NoNode
               PROVE  \E i \in Identity : /\ NpubOf[i] = code.npub
                                          /\ NodeOf[i] = Dialled(event, code, contact)
                                          /\ KeyOf[i] = PeerBrowseKey(code, contact)
      BY DEF SessionInv, DialsOwnNode
  <2> DEFINE key == PeerBrowseKey(code, contact)
             own == {Presence(published[n]) : n \in {m \in Npub : published[m] # NoEvent}}
  <2>1. Dialled(event, code, contact) = ResolvePeerAddr(event, code.npub, key, 0)
      BY DEF Dialled, RequestDials
  <2>2. /\ event.signed /\ event.npub = code.npub /\ Unseals(event, key)
        /\ VouchesFor(event, Head(event.sealed.addrs))
        /\ Dialled(event, code, contact) = Head(event.sealed.addrs)
      BY <2>1 DEF ResolvePeerAddr, VerifyBinding
  <2>3. event \in own
    <3>1. \A e \in own : [e EXCEPT !.npub = code.npub, !.signed = FALSE].signed = FALSE
      <4> SUFFICES ASSUME NEW n \in Npub, published[n] # NoEvent
                   PROVE  [Presence(published[n]) EXCEPT !.npub = code.npub, !.signed = FALSE].signed
                          = FALSE
          OBVIOUS
      <4>1. published[n] \in Event
          BY DEF RelaysTypeOK
      <4>2. ~(Ttl > MaxBindingTtl)
          BY SessionAssumption, BindingAssumption
      <4> QED
          BY <4>1, <4>2 DEF Presence, BuildBinding
    <3> QED
        BY <2>2, <3>1 DEF Fetched
  <2>4. PICK n \in Npub : published[n] # NoEvent /\ event = Presence(published[n])
      BY <2>3
  <2>5. published[n] \in Event
      BY <2>4 DEF RelaysTypeOK
  <2> DEFINE i == published[n].id
  <2>6. i \in Identity /\ event.npub = NpubOf[i] /\ event.node = NodeOf[i] /\ event.crypto = 1
        /\ event.sealed.key = KeyOf[i]
    <3>1. /\ event.npub = NpubOf[i] /\ event.node = NodeOf[i] /\ event.crypto = 1
          /\ event.sealed = [key |-> KeyOf[i], addrs |-> <<published[n].addr>>]
        BY <2>4, <2>5, PresenceFacts, Zenon
    <3>2. event.sealed.key = KeyOf[i]
        BY <3>1
    <3>3. i \in Identity
        BY <2>5 DEF Event
    <3> QED
        BY <3>1, <3>2, <3>3
  <2>7. NodeOf[i] = Dialled(event, code, contact)
      BY <2>2, <2>6 DEF VouchesFor
  <2>8. KeyOf[i] = key
      BY <2>2, <2>6 DEF Unseals, ReadSealedAddr
  <2> QED
      BY <2>2, <2>6, <2>7, <2>8
<1> QED
    BY <1>1, SessionInvariant, PTL

(* While the endpoint stays the identity's and the loop is not told to stop, *)
(* connecting and publishing end within Wait and no more publications in a   *)
(* row fail than the ttl outlasts, its presence never lapses once that has   *)
(* been so for LongEnough (run_presence_loop, PRESENCE_TTL_SECS).            *)
THEOREM NoLapseTheorem == SessionSpec => []NoLapse
<1>1. SessionInv => NoLapse
  <2> SUFFICES ASSUME SessionInv, steady > LongEnough
               PROVE  /\ Own # NoEvent
                      /\ Dialled(Presence(Own), [npub |-> NpubOf[identity], key |-> KeyOf[identity]],
                                 NoKey) = endpoint
      BY DEF NoLapse, Own
  <2> USE DEF SessionInv
  <2>1. /\ LongEnough \in Nat /\ steady \in Nat /\ steady > 0 /\ Ttl \in Nat /\ Wait \in Nat
        /\ Lapse(missed) \in Nat /\ Lapse(missed) + Wait <= LongEnough /\ Lapse(missed) <= Ttl
      BY LapseFacts DEF RelaysTypeOK
  <2>2. identity \in Identity /\ endpoint = NodeOf[identity] /\ InTime
      BY <2>1 DEF SettledInv, Settled, MemoryTypeOK
  <2>3. Due \in Nat
      BY SessionAssumption DEF Due, MemoryTypeOK, Loop
  <2>4. Own # NoEvent /\ Own.id = identity /\ Own.addr = endpoint /\ Own.age + Due <= Lapse(missed)
      BY <2>1, <2>2, <2>3 DEF InTime
  <2>5. Own \in Event /\ Own.age \in Nat /\ Own.age <= Ttl
      BY <2>1, <2>2, <2>3, <2>4, SessionAssumption DEF Own, Event, RelaysTypeOK
  <2>6. Own.id = identity /\ Own.addr = endpoint
      BY <2>4
  <2> DEFINE p == Presence(Own)
             key == KeyOf[identity]
             npub == NpubOf[identity]
  <2>7. /\ p.signed = TRUE /\ p.kind = "presence" /\ p.npub = npub
        /\ p.version = 1 /\ p.created = 0 - Own.age /\ p.expires = (0 - Own.age) + Ttl
        /\ p.node = endpoint /\ p.crypto = 1
        /\ p.sealed = [key |-> key, addrs |-> <<endpoint>>]
      BY <2>2, <2>5, <2>6, PresenceFacts
  <2>8. endpoint \in Node /\ key \in BrowseKey /\ key # NoKey /\ endpoint # NoNode
      BY <2>2, SessionAssumption, BindingAssumption
  <2>9. <<endpoint>> \in Seq(Node \cup {NoNode}) /\ <<endpoint>> # <<>> /\ Head(<<endpoint>>) = endpoint
      BY <2>8
  <2>10. p.sealed # NoSeal
    <3>1. [key |-> key, addrs |-> <<endpoint>>]
              \in [key : BrowseKey, addrs : Seq(Node \cup {NoNode})]
        BY <2>8, <2>9
    <3> QED
        BY <2>7, <3>1, BindingAssumption
  <2> HIDE DEF p, key, npub
  <2>11. VerifyBinding(p, npub, 0)
    <3>1. Skew \in Nat /\ MaxBindingTtl \in Nat /\ Ttl <= MaxBindingTtl
        BY BindingAssumption, SessionAssumption
    <3>2. p.created <= 0 + Skew /\ p.expires - p.created <= MaxBindingTtl /\ 0 <= p.expires
        BY <2>1, <2>5, <2>7, <3>1
    <3> QED
        BY <2>7, <2>8, <3>2 DEF VerifyBinding, SchemaV
  <2>12. Unseals(p, key)
      BY <2>7, <2>10 DEF Unseals, ReadSealedAddr, CryptoV
  <2>13. p.sealed.addrs # <<>> /\ Head(p.sealed.addrs) = endpoint
         /\ VouchesFor(p, Head(p.sealed.addrs))
      BY <2>7, <2>8, <2>9 DEF VouchesFor
  <2>14. ResolvePeerAddr(p, npub, key, 0) = endpoint
      BY <2>11, <2>12, <2>13 DEF ResolvePeerAddr
  <2>15. Dialled(p, [npub |-> npub, key |-> key], NoKey) = endpoint
      BY <2>8, <2>14 DEF Dialled, RequestDials, PeerBrowseKey
  <2> QED
      BY <2>4, <2>15 DEF p, key, npub
<1> QED
    BY <1>1, SessionInvariant, PTL
=============================================================================
