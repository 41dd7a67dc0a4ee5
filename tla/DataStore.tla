------------------------------- MODULE DataStore -------------------------------
(***************************************************************************)
(* The app's data directory (from-hb-app/store.rs).  Every file is written  *)
(* in place, truncated first, so a process that dies or a disk that fills   *)
(* up leaves it empty or torn; a delete or a wipe removes one file after    *)
(* the other and stops at the first that cannot be removed.                 *)
(***************************************************************************)
EXTENDS Naturals, Sequences, SequencesExt

CONSTANTS Slug,
          Peer,            \* npub_hash of a contact
          Identity,        \* StoredIdentity: what AppIdentity::to_stored makes of one
          Setting,         \* ShareSettings
          Enabled,         \* those with `enabled`
          Other,           \* the content of any other file
          Absent, Empty, Torn,
          Savable          \* the files that are saved: a bound

Path == {<<"identity", "own">>}
        \cup ({"collections", "published", "sharing"} \X Slug)
        \cup ({"contacts"} \X Peer)
        \cup ({"settings", "groups", "watches"} \X {"json"})

Whole == Identity \cup Setting \cup {Other}

ContentOf(path) ==
    CASE path[1] = "identity" -> Identity
      [] path[1] = "sharing" -> Setting
      [] OTHER -> {Other}

\* the kinds of content are told apart by their type
ASSUME DataStoreAssumption ==
    /\ IsFiniteSet(Slug) /\ IsFiniteSet(Peer)
    /\ Enabled \subseteq Setting /\ Savable \subseteq Path
    /\ {Absent, Empty, Torn} \cap Whole = {}
    /\ Setting \cap (Identity \cup {Other}) = {}

IdentityPath == <<"identity", "own">>
DraftPath(slug) == <<"collections", slug>>
PublishedPath(slug) == <<"published", slug>>
ShareSettingsPath(slug) == <<"sharing", slug>>

VARIABLES disk,      \* the content of each file
          op,        \* the store's operation in progress
          shared     \* history: the collections the user may expect to be served

store == <<disk, op, shared>>

(* what: the operation; on: the file or the collection it is about; steps:  *)
(* what it has still to do to the directory                                 *)
NoOp == [what |-> "none", on |-> IdentityPath, content |-> Absent, steps |-> <<>>]

(***************************************************************************)
(* Reading.  None stands for Ok(None), Err for an error.                   *)
(***************************************************************************)
None == [is |-> "none"]
Err == [is |-> "error"]
Some(content) == [is |-> "some", content |-> content]

ReadJson(path) ==
    CASE disk[path] = Absent -> None
      [] disk[path] \in Whole -> Some(disk[path])
      [] OTHER -> Err

LoadIdentity == IF disk[IdentityPath] = Empty THEN None ELSE ReadJson(IdentityPath)

LoadShareSettings(slug) == ReadJson(ShareSettingsPath(slug))

(***************************************************************************)
(* Writing.                                                                *)
(***************************************************************************)
Put(path, content) == [path |-> path, content |-> content]

(* fs::write, write_all on a file opened with `truncate` *)
WriteSteps(path, content) == <<Put(path, Empty), Put(path, Torn), Put(path, content)>>

RemoveSteps(paths) == [i \in 1..Len(paths) |-> Put(paths[i], Absent)]

\* Mutant: a deleted collection keeps its share settings
DeleteStepsShort(slug) == RemoveSteps(<<DraftPath(slug), PublishedPath(slug)>>)

DeleteSteps(slug) ==
    RemoveSteps(<<DraftPath(slug), PublishedPath(slug), ShareSettingsPath(slug)>>)

(* what remove_dir_all finds in a directory, in the order it happens to be  *)
Listed(directory) == SetToSeq({path \in Path : path[1] = directory /\ disk[path] # Absent})

(* directory by directory, then file by file *)
WipeOrder ==
    Listed("identity") \o Listed("collections") \o Listed("published") \o Listed("contacts")
    \o Listed("sharing") \o Listed("settings") \o Listed("groups") \o Listed("watches")

WipeSteps == RemoveSteps(WipeOrder)

Idle == op.what = "none"

StartSave(path, content) ==
    /\ Idle
    /\ path \in Savable /\ content \in ContentOf(path)
    /\ op' = [what |-> "save", on |-> path, content |-> content,
              steps |-> WriteSteps(path, content)]
    /\ shared' = IF content \in Enabled THEN shared \cup {path[2]} ELSE shared
    /\ UNCHANGED disk

StartDelete(slug) ==
    /\ Idle
    /\ op' = [what |-> "delete", on |-> DraftPath(slug), content |-> Absent,
              steps |-> DeleteSteps(slug)]
    /\ UNCHANGED <<disk, shared>>

StartWipe ==
    /\ Idle
    /\ op' = [what |-> "wipe", on |-> IdentityPath, content |-> Absent, steps |-> WipeSteps]
    /\ UNCHANGED <<disk, shared>>

StepOp ==
    /\ op.steps # <<>>
    /\ disk' = [disk EXCEPT ![Head(op.steps).path] = Head(op.steps).content]
    /\ op' = [op EXCEPT !.steps = Tail(@)]
    /\ UNCHANGED shared

(* Ok(()): what the user is told *)
FinishOp ==
    /\ ~Idle /\ op.steps = <<>>
    /\ shared' = CASE op.what = "save" /\ op.content \in Setting \ Enabled -> shared \ {op.on[2]}
                   [] op.what = "delete" -> shared \ {op.on[2]}
                   [] op.what = "wipe" -> {}
                   [] OTHER -> shared
    /\ op' = NoOp
    /\ UNCHANGED disk

(* a file cannot be written or removed: `?` *)
FailOp ==
    /\ op.steps # <<>>
    /\ op' = NoOp
    /\ UNCHANGED <<disk, shared>>
=============================================================================
