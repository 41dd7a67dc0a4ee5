-------------------------------- MODULE Session --------------------------------
(***************************************************************************)
(* A session of the app (from-hb-app lib.rs, presence.rs, identity_state.rs) *)
(* over its data directory: the identity in memory, the endpoint bound to    *)
(* its node key, the loop that publishes a sealed presence, and a peer that  *)
(* resolves it.  Time is counted in the ages of the published events and in  *)
(* what the loop sleeps.  The commands layer, most of which is not part of   *)
(* the repository, is external: one command at a time, each calling the      *)
(* store and then start_iroh_endpoint as the comments of lib.rs say.         *)
(***************************************************************************)
EXTENDS DataStore, Binding, FiniteSets

CONSTANTS NpubOf, NodeOf, KeyOf,   \* the three keys of an identity
          NoIdentity, NoEvent,
          Ttl,             \* PRESENCE_TTL_SECS
          Refresh,         \* PRESENCE_REFRESH_SECS
          Wait,            \* how long connecting and publishing may take
          MaxMissed,       \* publications that fail one after the other
          MaxOps, MaxCrashes

\* from_nsec keeps the npub and mints the other two anew
ASSUME SessionAssumption ==
    /\ NpubOf \in [Identity -> Npub]
    /\ NodeOf \in [Identity -> Node] /\ KeyOf \in [Identity -> BrowseKey]
    /\ \A i, j \in Identity : NodeOf[i] = NodeOf[j] \/ KeyOf[i] = KeyOf[j] => i = j
    /\ NoIdentity \notin Identity /\ NoEvent \notin [id : Identity, addr : Node, age : Nat]
    /\ Refresh \in Nat \ {0} /\ Wait \in Nat /\ MaxMissed \in Nat
    /\ Ttl \in Nat /\ Ttl <= MaxBindingTtl
    /\ Wait + (Refresh + Wait) * (MaxMissed + 1) <= Ttl
    /\ MaxOps \in Nat /\ MaxCrashes \in Nat

VARIABLES running,
          identity,    \* SharedIdentity
          endpoint,    \* SharedEndpoint: the node key it is bound to
          starts,      \* the start_iroh_endpoint in flight, of each identity
          loop,        \* run_presence_loop
          published,   \* the newest presence of each npub that the relays hold
          missed,      \* publications failed in a row
          steady,      \* history: for how long the session has been settled
          ops, crashes

memory == <<running, identity, endpoint, starts>>
relays == <<published, missed>>
bounds == <<ops, crashes>>
sessionVars == <<store, memory, loop, relays, steady, bounds>>

Asleep(due) == [phase |-> "sleep", due |-> due, id |-> NoIdentity, addr |-> NoNode]

NoStarts == [i \in Identity |-> "none"]

SessionInit ==
    /\ disk = [path \in Path |-> Absent] /\ op = NoOp /\ shared = {}
    /\ running = FALSE /\ identity = NoIdentity /\ endpoint = NoNode /\ starts = NoStarts
    /\ loop = Asleep(0)
    /\ published = [n \in Npub |-> NoEvent] /\ missed = 0
    /\ steady = 0 /\ ops = 0 /\ crashes = 0

(* the endpoint is the identity's, no other is on its way, the loop runs *)
Settled ==
    /\ running /\ identity # NoIdentity /\ endpoint = NodeOf[identity] /\ starts = NoStarts
    /\ loop.phase # "ended"

KeepSteady == steady' = IF Settled /\ Settled' /\ identity' = identity THEN steady ELSE 0

-----------------------------------------------------------------------------
(* The process *)

\* AppIdentity::from_stored of what is on the disk, or none
Restored == IF LoadIdentity.is = "some" THEN LoadIdentity.content ELSE NoIdentity

StartsWith(id) == IF id = NoIdentity THEN starts ELSE [starts EXCEPT ![id] = "binding"]

(* setup: the identity is restored before either task is spawned *)
Launch ==
    /\ ~running
    /\ running' = TRUE
    /\ identity' = Restored
    /\ starts' = StartsWith(Restored)
    /\ UNCHANGED <<store, endpoint, loop, relays, bounds>> /\ KeepSteady

(* the process is killed, or quit from the tray *)
Crash ==
    /\ running /\ crashes < MaxCrashes
    /\ crashes' = crashes + 1
    /\ running' = FALSE /\ identity' = NoIdentity /\ endpoint' = NoNode
    /\ starts' = NoStarts /\ loop' = Asleep(0) /\ op' = NoOp
    /\ UNCHANGED <<disk, shared, relays, ops>> /\ KeepSteady

Command ==
    /\ running /\ ops < MaxOps
    /\ ops' = ops + 1
    /\ \/ \E path \in Savable : \E content \in ContentOf(path) : StartSave(path, content)
       \/ \E slug \in Slug : StartDelete(slug)
       \/ StartWipe
    /\ UNCHANGED <<memory, loop, relays, crashes>> /\ KeepSteady

(* What a command does to the memory when the store has answered Ok: a      *)
(* saved identity is taken up and its endpoint started, a wipe clears both. *)
TakeUp ==
    CASE op.what = "save" /\ op.on = IdentityPath ->
             /\ identity' = op.content
             /\ starts' = StartsWith(op.content)
             /\ UNCHANGED endpoint
      [] op.what = "wipe" -> identity' = NoIdentity /\ endpoint' = NoNode /\ UNCHANGED starts
      [] OTHER -> UNCHANGED <<identity, endpoint, starts>>

StoreStep ==
    /\ running
    /\ \/ (StepOp \/ FailOp) /\ UNCHANGED <<identity, endpoint, starts>>
       \/ FinishOp /\ TakeUp
    /\ UNCHANGED <<running, loop, relays, bounds>> /\ KeepSteady

-----------------------------------------------------------------------------
(* start_iroh_endpoint: the socket is bound before the lock is taken, so of *)
(* two starts either may be the one that stays.                             *)

Bind(i) ==
    /\ starts[i] = "binding"
    /\ \E result \in {"bound", "none"} : starts' = [starts EXCEPT ![i] = result]
    /\ UNCHANGED <<store, running, identity, endpoint, loop, relays, bounds>> /\ KeepSteady

Install(i) ==
    /\ starts[i] = "bound"
    /\ endpoint' = NodeOf[i]
    /\ starts' = [starts EXCEPT ![i] = "none"]
    /\ UNCHANGED <<store, running, identity, loop, relays, bounds>> /\ KeepSteady

-----------------------------------------------------------------------------
(* run_presence_loop *)

\* when the delay is over, or earlier when the channel wakes the loop
Snapshot ==
    /\ running /\ loop.phase = "sleep"
    /\ loop' = IF identity = NoIdentity THEN Asleep(Refresh)
               ELSE [Asleep(0) EXCEPT !.phase = "endpoint", !.id = identity]
    /\ UNCHANGED <<store, memory, relays, bounds>> /\ KeepSteady

\* `true` on the channel, which is only looked at while the loop sleeps
StopLoop ==
    /\ running /\ loop.phase = "sleep"
    /\ loop' = [Asleep(0) EXCEPT !.phase = "ended"]
    /\ UNCHANGED <<store, memory, relays, bounds>> /\ KeepSteady

\* from here connecting and publishing take up to Wait
ReadEndpoint ==
    /\ loop.phase = "endpoint"
    /\ loop' = IF endpoint = NoNode THEN Asleep(Refresh)
               ELSE [loop EXCEPT !.phase = "publish", !.addr = endpoint, !.due = Wait]
    /\ UNCHANGED <<store, memory, relays, bounds>> /\ KeepSteady

\* Mutant: the loop sleeps for as long as a presence is valid, and then some
NextDelayLong == Ttl + 1

NextDelay == Refresh

(* publish_presence, of an event made since the endpoint was read.  Relays  *)
(* keep the newest of an npub; of two of the same age either.               *)
Newest(held, fresh) ==
    IF held = NoEvent \/ fresh.age < held.age THEN {fresh}
    ELSE IF fresh.age = held.age THEN {held, fresh} ELSE {held}

Publish(fresh) ==
    LET n == NpubOf[fresh.id]
    IN \E event \in Newest(published[n], fresh) :
           published' = [published EXCEPT ![n] = event]

PublishPresence ==
    /\ loop.phase = "publish"
    /\ \/ /\ \E age \in 0..(Wait - loop.due) :
                Publish([id |-> loop.id, addr |-> loop.addr, age |-> age])
          /\ missed' = 0
       \/ missed < MaxMissed /\ missed' = missed + 1 /\ UNCHANGED published
    /\ loop' = Asleep(NextDelay)
    /\ UNCHANGED <<store, memory, bounds>> /\ KeepSteady

-----------------------------------------------------------------------------
(* Time.  The loop is prompt: a delay that is over ends within the same unit *)
(* of time, and a publication within Wait.                                  *)

\* a stale publication, one that ties with it, and all that may fail
LongEnough == 2 * Wait + (Refresh + Wait) * (MaxMissed + 1)

Older(event) ==
    IF event = NoEvent \/ event.age > Ttl THEN event ELSE [event EXCEPT !.age = @ + 1]

Ticking == running /\ loop.phase # "ended"

Tick ==
    /\ Ticking => loop.phase \in {"sleep", "publish"} /\ loop.due > 0
    /\ loop' = IF Ticking THEN [loop EXCEPT !.due = @ - 1] ELSE loop
    /\ published' = [n \in Npub |-> Older(published[n])]
    /\ steady' = IF Settled /\ steady <= LongEnough THEN steady + 1 ELSE steady
    /\ UNCHANGED <<store, memory, missed, bounds>>

SessionNext ==
    \/ Launch \/ Crash \/ Command \/ StoreStep
    \/ \E i \in Identity : Bind(i) \/ Install(i)
    \/ Snapshot \/ StopLoop \/ ReadEndpoint \/ PublishPresence
    \/ Tick

SessionSpec == SessionInit /\ [][SessionNext]_sessionVars

-----------------------------------------------------------------------------
(* The peer: a fetch, and what relays may answer it with.  Now is 0.        *)

Presence(event) ==
    BuildBinding(NpubOf[event.id], NodeOf[event.id], <<event.addr>>, KeyOf[event.id],
                 0 - event.age, Ttl)

(* what the app published, of whichever npub, or the same passed off as     *)
(* another's, which its signature does not cover                            *)
Fetched(npub) ==
    LET own == {Presence(published[n]) : n \in {m \in Npub : published[m] # NoEvent}}
    IN own \cup {[e EXCEPT !.npub = npub, !.signed = FALSE] : e \in own}

Dialled(event, code, contact) == RequestDials(event, code, contact, 0)

Serves(slug) == LoadShareSettings(slug).is = "some" /\ LoadShareSettings(slug).content \in Enabled

(* Nobody is served a collection once its deletion, its disabling or the     *)
(* wipe of all data was reported to have succeeded and nothing has enabled   *)
(* it since: other operations that fail or are killed half-way, and          *)
(* restarts, do not bring it back.  Of a removal that itself failed or was   *)
(* killed nothing is said (delete_collection, save_share_settings, wipe; the *)
(* gate of serve_transfer asks load_share_settings only).                   *)
ServedOnPurpose == \A slug \in Slug : Serves(slug) => slug \in shared

(* Whoever asks for a peer's file dials the node of the identity that the   *)
(* npub and the browse-key belong to, although the loop reads the identity   *)
(* and the endpoint at two moments and may seal the address of one under the *)
(* key of another, although relays may pass off one event for another, and   *)
(* whichever key the share code or the saved contact holds.                 *)
DialsOwnNode ==
    \A code \in ShareCode : \A contact \in BrowseKey \cup {NoKey} :
        \A event \in Fetched(code.npub) :
            LET node == Dialled(event, code, contact)
            IN node # NoNode =>
                   \E i \in Identity : /\ NpubOf[i] = code.npub /\ NodeOf[i] = node
                                      /\ KeyOf[i] = PeerBrowseKey(code, contact)

(* While the endpoint stays the identity's and the loop is not told to stop, *)
(* connecting and publishing end within Wait and no more of them in a row    *)
(* fail than the ttl outlasts, holders of the share code can always dial it: *)
(* the presence never lapses between two refreshes, and one published from a *)
(* stale snapshot is soon replaced (PRESENCE_TTL_SECS against                *)
(* PRESENCE_REFRESH_SECS and what a cycle takes besides).                    *)
NoLapse ==
    steady > LongEnough =>
        LET n == NpubOf[identity]
        IN /\ published[n] # NoEvent
           /\ Dialled(Presence(published[n]), [npub |-> n, key |-> KeyOf[identity]], NoKey)
              = endpoint
=============================================================================
