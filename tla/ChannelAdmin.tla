---------------------------- MODULE ChannelAdmin ----------------------------
(***************************************************************************)
(* The admin API's handlers that change channels, mappings and keys        *)
(* (apps/server/src/admin.rs), the rows they change in SQLite              *)
(* (crates/storage-sqlite/src/lib.rs) and what they share with the model   *)
(* router: the channel snapshot, the API-key overrides and the health map. *)
(*                                                                         *)
(* Handlers run concurrently and await between their statements, so every  *)
(* SQL statement and every access to a shared map is a step of its own.    *)
(* After a change a handler reloads: it lists the channels, lists the      *)
(* mappings of each, and swaps the snapshot.                               *)
(*                                                                         *)
(* The health columns of the rows are in ChannelHealthDb.  Priority, name, *)
(* quota columns and pricing travel like enabled and are left out.         *)
(***************************************************************************)
EXTENDS Naturals, FiniteSets

CONSTANTS Channels, Mappings, Clients,   \* row ids and client model names
          Keys, NoKey,                   \* NoKey: the empty key, no entry
          ProtocolNames, NoForce,
          Absent,                        \* no such row
          Keep,                          \* a field a partial update leaves out
          InitialChannels,               \* the channel rows at the start
          InitialMappings,               \* the mapping rows at the start
          ChannelBodies,                 \* bodies of PUT /admin/channels/{id}
          NewMappings,                   \* bodies of POST /admin/model-mappings
          MappingBodies,                 \* bodies of PUT /admin/model-mappings/{id}
          Handlers,                      \* admin requests in flight at once
          MaxCalls,                      \* admin requests in a behaviour
          StorageMayFail                 \* whether a statement may fail

ChannelRows == [enabled : BOOLEAN, key : Keys \cup {NoKey},
                protocols : SUBSET ProtocolNames,
                force : ProtocolNames \cup {NoForce}]

MappingRows == [channel : Channels, client : Clients, enabled : BOOLEAN]

SnapRows == [enabled : BOOLEAN, key : Keys \cup {NoKey}, protocols : SUBSET ProtocolNames,
             force : ProtocolNames \cup {NoForce}, models : SUBSET (Mappings \X Clients)]

ASSUME AdminRowAssumption ==
  /\ Absent \notin ChannelRows \cup MappingRows /\ Absent \notin SnapRows
  /\ InitialChannels \in [Channels -> ChannelRows \cup {Absent}]
  /\ InitialMappings \in [Mappings -> MappingRows \cup {Absent}]
  /\ \A m \in Mappings : InitialMappings[m] # Absent
       => InitialChannels[InitialMappings[m].channel] # Absent
ASSUME AdminInputAssumption ==
  /\ MaxCalls \in Nat /\ NewMappings \subseteq MappingRows
  /\ NoKey \notin Keys /\ StorageMayFail \in BOOLEAN
  /\ Keep \notin BOOLEAN /\ Keep \notin Clients
  /\ Keep \notin ProtocolNames /\ \A ps \in SUBSET ProtocolNames : Keep # ps
  /\ ChannelBodies \subseteq [enabled : BOOLEAN \cup {Keep},
                              protocols : {Keep} \cup SUBSET ProtocolNames,
                              force : ProtocolNames \cup {Keep}]
  /\ MappingBodies \subseteq [client : Clients \cup {Keep}, enabled : BOOLEAN \cup {Keep}]

VARIABLES db,       \* the channels table
          mappings, \* the model_mappings table
          snap,     \* the router's snapshot (channels_swap)
          keymap,   \* the router's key overrides (api_key_map)
          resting,  \* channels the health map says are in cooldown
          adm,      \* the handlers in flight
          touched,  \* history: channels whose stored data has ever changed
          calls,    \* admin requests so far
          fresh,    \* history: the last reload was neither outdated nor given up
          keyed     \* history: channels whose last key update overlapped no other
                    \* and was not given up half-way

vars == <<db, mappings, snap, keymap, resting, adm, touched, calls, fresh, keyed>>

-----------------------------------------------------------------------------
(* Rows and snapshot rows *)

\* A snapshot row: the stored row and its enabled mappings.
SnapRow(row, models) ==
  [enabled |-> row.enabled, key |-> row.key, protocols |-> row.protocols,
   force |-> row.force, models |-> models]

\* The enabled mappings of a channel, as list_mappings returns them now.
Models(c) ==
  {<<m, mappings[m].client>> : m \in {n \in Mappings :
      mappings[n] # Absent /\ mappings[n].channel = c /\ mappings[n].enabled}}

\* A channel without protocols is skipped when the snapshot is built.
Routable(row) == row # Absent /\ row.protocols # {}

\* What the tables say the snapshot row of a channel is.
Stored(c) == IF Routable(db[c]) THEN SnapRow(db[c], Models(c)) ELSE Absent

EmptySnap == [c \in Channels |-> Absent]

\* A partial update: the fields that are given replace the stored ones.
Merge(row, body) ==
  [f \in DOMAIN row |->
     IF f \in DOMAIN body /\ body[f] # Keep THEN body[f] ELSE row[f]]

Idle == [pc |-> "idle", op |-> "none", channel |-> Absent, mapping |-> Absent,
         data |-> Absent, rows |-> EmptySnap, todo |-> {}, built |-> EmptySnap]

\* The key the router would send for a channel.
RouterKey(c) ==
  IF keymap[c] # NoKey THEN keymap[c]
  ELSE IF snap[c] # Absent THEN snap[c].key ELSE NoKey

-----------------------------------------------------------------------------
(* Steps that all handlers share *)

Begin(h) == adm[h].pc = "idle" /\ calls < MaxCalls /\ calls' = calls + 1

Finish(h) == adm' = [adm EXCEPT ![h] = Idle]

Goto(h, pc) == adm' = [adm EXCEPT ![h].pc = pc]

\* History.  Another handler's reload has read the tables and not stored its
\* snapshot yet; a change of the tables outdates what it read.
Overtakes(h) == \E g \in Handlers \ {h} : adm[g].pc = "mappings"

Outdates(h) == fresh' = (fresh /\ ~Overtakes(h))

\* from_storage: the snapshot and the key overrides the router starts with.
StoredSnapshot == [c \in Channels |-> Stored(c)]

StoredKeys == [c \in Channels |-> IF Routable(db[c]) THEN db[c].key ELSE NoKey]

Init ==
  /\ db = InitialChannels
  /\ mappings = InitialMappings
  /\ touched = {} /\ fresh = TRUE /\ keyed = Channels
  /\ snap = StoredSnapshot
  /\ keymap = StoredKeys
  /\ resting = {}
  /\ adm = [h \in Handlers |-> Idle]
  /\ calls = 0

\* The process stops, whatever its handlers are doing, and starts again on the
\* same database.
Restart ==
  /\ snap' = StoredSnapshot
  /\ keymap' = StoredKeys
  /\ resting' = {}
  /\ adm' = [h \in Handlers |-> Idle]
  /\ fresh' = TRUE /\ keyed' = Channels
  /\ UNCHANGED <<db, mappings, touched, calls>>

\* reload_channels_from_storage: list_channels(None) ...
ListChannels(h) ==
  /\ adm[h].pc = "list"
  /\ adm' = [adm EXCEPT ![h].pc = "mappings", ![h].rows = db,
                        ![h].todo = {c \in Channels : Routable(db[c])}]
  /\ fresh' = (fresh \/ ~Overtakes(h))
  /\ UNCHANGED <<db, mappings, snap, keymap, resting, touched, calls, keyed>>

\* ... list_mappings of each listed channel (the order, by priority, is left
\* open) ...
ListMappings(h, c) ==
  /\ adm[h].pc = "mappings" /\ c \in adm[h].todo
  /\ adm' = [adm EXCEPT ![h] = [adm[h] EXCEPT
       !.todo = adm[h].todo \ {c}, !.built[c] = SnapRow(adm[h].rows[c], Models(c))]]
  /\ UNCHANGED <<db, mappings, snap, keymap, resting, touched, calls, fresh, keyed>>

\* ... and the swap, the handler's last step.
Swap(h) ==
  /\ adm[h].pc = "mappings" /\ adm[h].todo = {}
  /\ snap' = adm[h].built
  /\ Finish(h)
  /\ UNCHANGED <<db, mappings, keymap, resting, touched, calls, fresh, keyed>>

\* Mutant: a reload whose list_mappings fails goes on with no mappings.
StorageErrorReloadGoesOn(h) ==
  /\ StorageMayFail
  /\ adm[h].pc = "mappings"
  /\ \E c \in adm[h].todo :
       adm' = [adm EXCEPT ![h].todo = @ \ {c},
                          ![h].built[c] = SnapRow(adm[h].rows[c], {})]
  /\ UNCHANGED <<db, mappings, snap, keymap, resting, touched, calls, fresh, keyed>>

\* A statement fails (pool timeout, busy database): the handler returns the
\* error; reload_channels logs it and leaves the old snapshot in place.  At "list" it
\* is also the SELECT with which update_channel reads the changed row back: the
\* UPDATE stands and the reload is not reached.
StorageError(h) ==
  /\ StorageMayFail
  /\ \/ adm[h].pc \in {"write", "upsert", "list", "get"}
     \/ adm[h].pc = "mappings" /\ adm[h].todo # {}
  /\ Finish(h)
  /\ fresh' = (fresh /\ adm[h].pc \notin {"list", "mappings"})
  /\ UNCHANGED <<db, mappings, snap, keymap, resting, touched, calls, keyed>>

\* The client goes away and the server drops the handler at the statement or the probe
\* it awaits.  A statement on its way is still carried out (spawn_blocking): for a change
\* this is the step after it.
ClientGone(h) ==
  /\ \/ adm[h].pc \in {"write", "upsert", "list", "get", "keymap", "models", "probing"}
     \/ adm[h].pc = "mappings" /\ adm[h].todo # {}
  /\ Finish(h)
  /\ fresh' = (fresh /\ adm[h].pc \notin {"list", "mappings"})
  /\ keyed' = IF adm[h].pc = "keymap" THEN keyed \ {adm[h].channel} ELSE keyed
  /\ UNCHANGED <<db, mappings, snap, keymap, resting, touched, calls>>

-----------------------------------------------------------------------------
(* PUT and DELETE /admin/channels/{id} *)

\* update_channel, up to the statement: a given force_protocol must be among the
\* given protocols, or else among the stored ones.
UpdateChannel(h, c, body) ==
  /\ Begin(h)
  /\ \/ body.force = Keep
     \/ body.protocols # Keep /\ body.force \in body.protocols
     \/ body.protocols = Keep /\ db[c] # Absent /\ body.force \in db[c].protocols
  /\ adm' = [adm EXCEPT ![h] = [Idle EXCEPT !.pc = "write", !.op = "update_channel",
                                            !.channel = c, !.data = body]]
  /\ UNCHANGED <<db, mappings, snap, keymap, resting, touched, fresh, keyed>>

\* The UPDATE of update_channel and the SELECT that reads the row back.
WriteChannel(h) ==
  LET c == adm[h].channel
  IN  /\ adm[h].pc = "write" /\ adm[h].op = "update_channel"
      /\ IF db[c] = Absent
         THEN Finish(h) /\ UNCHANGED <<db, touched, fresh>>   \* NotFound
         ELSE /\ db' = [db EXCEPT ![c] = Merge(db[c], adm[h].data)]
              /\ touched' = touched \cup {c}
              /\ Outdates(h)
              /\ Goto(h, "list")
      /\ UNCHANGED <<mappings, snap, keymap, resting, calls, keyed>>

\* Mutant: delete_channel answers without reloading.
DeleteChannelNoReload(h, c) ==
  /\ Begin(h) /\ db[c] # Absent
  /\ db' = [db EXCEPT ![c] = Absent]
  /\ mappings' = [m \in Mappings |->
       IF mappings[m] # Absent /\ mappings[m].channel = c THEN Absent ELSE mappings[m]]
  /\ touched' = touched \cup {c}
  /\ Outdates(h)
  /\ UNCHANGED <<snap, keymap, resting, adm, keyed>>

\* delete_channel; the mappings go with the row (ON DELETE CASCADE), the key
\* override and the health entry stay.
DeleteChannel(h, c) ==
  /\ Begin(h) /\ db[c] # Absent
  /\ db' = [db EXCEPT ![c] = Absent]
  /\ mappings' = [m \in Mappings |->
       IF mappings[m] # Absent /\ mappings[m].channel = c THEN Absent ELSE mappings[m]]
  /\ touched' = touched \cup {c}
  /\ adm' = [adm EXCEPT ![h] = [Idle EXCEPT !.pc = "list", !.op = "delete_channel"]]
  /\ Outdates(h)
  /\ UNCHANGED <<snap, keymap, resting, keyed>>

-----------------------------------------------------------------------------
(* PUT /admin/channels/{id}/api-key and POST /admin/channels/{id}/probe *)

\* set_channel_api_key: the UPDATE.
SetChannelApiKey(h, c, k) ==
  /\ Begin(h) /\ db[c] # Absent
  /\ db' = [db EXCEPT ![c].key = k]
  /\ touched' = touched \cup {c}
  /\ adm' = [adm EXCEPT ![h] = [Idle EXCEPT !.pc = "keymap", !.op = "set_key",
                                            !.channel = c, !.data = k]]
  /\ keyed' = IF \E g \in Handlers \ {h} : adm[g].pc = "keymap" /\ adm[g].channel = c
              THEN keyed \ {c} ELSE keyed \cup {c}
  /\ UNCHANGED <<mappings, snap, keymap, resting, fresh>>

\* Mutant: the new key is left to the next restart.
PublishKeyNot(h) ==
  /\ adm[h].pc = "keymap"
  /\ Goto(h, IF adm[h].data = NoKey THEN "keyless" ELSE "get")
  /\ UNCHANGED <<db, mappings, snap, keymap, resting, touched, calls, fresh, keyed>>

\* api_key_map.remove or insert.
PublishKey(h) ==
  /\ adm[h].pc = "keymap"
  /\ keymap' = [keymap EXCEPT ![adm[h].channel] = adm[h].data]
  /\ Goto(h, IF adm[h].data = NoKey THEN "keyless" ELSE "get")
  /\ UNCHANGED <<db, mappings, snap, resting, touched, calls, fresh, keyed>>

\* A cleared key: the health entry is marked unhealthy.
MarkKeyless(h) ==
  /\ adm[h].pc = "keyless"
  /\ resting' = resting \cup {adm[h].channel}
  /\ Finish(h)
  /\ UNCHANGED <<db, mappings, snap, keymap, touched, calls, fresh, keyed>>

ProbeChannelHandler(h, c) ==
  /\ Begin(h)
  /\ adm' = [adm EXCEPT ![h] = [Idle EXCEPT !.pc = "get", !.op = "probe", !.channel = c]]
  /\ UNCHANGED <<db, mappings, snap, keymap, resting, touched, fresh, keyed>>

\* get_channel, for the probe that follows.
GetChannel(h) ==
  /\ adm[h].pc = "get"
  /\ IF db[adm[h].channel] = Absent THEN Finish(h)   \* NotFound
     ELSE Goto(h, IF db[adm[h].channel].protocols = {} THEN "no_probe" ELSE "models")
  /\ UNCHANGED <<db, mappings, snap, keymap, resting, touched, calls, fresh, keyed>>

\* find_cheapest_model and build_probe_request: nothing to send without an enabled
\* mapping whose model is known, when the query fails, or in an unknown protocol.
FindCheapestModel(h) ==
  /\ adm[h].pc = "models"
  /\ \/ Goto(h, "no_probe")
     \/ Models(adm[h].channel) # {} /\ Goto(h, "probing")
  /\ UNCHANGED <<db, mappings, snap, keymap, resting, touched, calls, fresh, keyed>>

\* send_probe ends well (2xx, or 429): the health entry is removed.
ProbeHealthy(h) ==
  /\ adm[h].pc = "probing"
  /\ resting' = resting \ {adm[h].channel}
  /\ Finish(h)
  /\ UNCHANGED <<db, mappings, snap, keymap, touched, calls, fresh, keyed>>

\* Any other answer or none: unhealthy.
ProbeUnhealthy(h) ==
  /\ adm[h].pc = "probing"
  /\ resting' = resting \cup {adm[h].channel}
  /\ Finish(h)
  /\ UNCHANGED <<db, mappings, snap, keymap, touched, calls, fresh, keyed>>

\* NoModels or NoProtocols: unhealthy after set_channel_api_key, unchanged after
\* probe_channel_handler.
ProbeImpossible(h) ==
  /\ adm[h].pc = "no_probe"
  /\ resting' = IF adm[h].op = "set_key" THEN resting \cup {adm[h].channel} ELSE resting
  /\ Finish(h)
  /\ UNCHANGED <<db, mappings, snap, keymap, touched, calls, fresh, keyed>>

-----------------------------------------------------------------------------
(* /admin/model-mappings *)

\* create_model_mapping: the whole row comes from the body.
CreateModelMapping(h, m, row) ==
  /\ Begin(h)
  /\ adm' = [adm EXCEPT ![h] = [Idle EXCEPT !.pc = "upsert", !.op = "mapping",
                                            !.mapping = m, !.data = row]]
  /\ UNCHANGED <<db, mappings, snap, keymap, resting, touched, fresh, keyed>>

\* update_model_mapping: read the row, merge the body, write the whole row later.
UpdateModelMapping(h, m, body) ==
  /\ Begin(h) /\ mappings[m] # Absent
  /\ adm' = [adm EXCEPT ![h] = [Idle EXCEPT !.pc = "upsert", !.op = "mapping",
                                  !.mapping = m, !.data = Merge(mappings[m], body)]]
  /\ UNCHANGED <<db, mappings, snap, keymap, resting, touched, fresh, keyed>>

\* Mutant: the foreign key is not enforced.
UpsertMappingOrphan(h) ==
  LET m   == adm[h].mapping
      row == adm[h].data
  IN  /\ adm[h].pc = "upsert"
      /\ mappings' = [mappings EXCEPT ![m] = row]
      /\ touched' = touched \cup {row.channel}
      /\ Outdates(h)
      /\ Goto(h, "list")
      /\ UNCHANGED <<db, snap, keymap, resting, calls, keyed>>

\* upsert_mapping; the foreign key refuses a channel that is gone.
UpsertMapping(h) ==
  LET m   == adm[h].mapping
      row == adm[h].data
  IN  /\ adm[h].pc = "upsert"
      /\ IF db[row.channel] = Absent
         THEN Finish(h) /\ UNCHANGED <<mappings, touched, fresh>>   \* NotFound
         ELSE /\ mappings' = [mappings EXCEPT ![m] = row]
              /\ touched' = touched \cup {row.channel} \cup
                   (IF mappings[m] # Absent THEN {mappings[m].channel} ELSE {})
              /\ Outdates(h)
              /\ Goto(h, "list")
      /\ UNCHANGED <<db, snap, keymap, resting, calls, keyed>>

DeleteModelMapping(h, m) ==
  /\ Begin(h) /\ mappings[m] # Absent
  /\ mappings' = [mappings EXCEPT ![m] = Absent]
  /\ touched' = touched \cup {mappings[m].channel}
  /\ adm' = [adm EXCEPT ![h] = [Idle EXCEPT !.pc = "list", !.op = "mapping"]]
  /\ Outdates(h)
  /\ UNCHANGED <<db, snap, keymap, resting, keyed>>

-----------------------------------------------------------------------------

\* A cooldown of the health map ends.
CooldownEnds(c) ==
  /\ c \in resting
  /\ resting' = resting \ {c}
  /\ UNCHANGED <<db, mappings, snap, keymap, adm, touched, calls, fresh, keyed>>

ReloadStep(h) ==
  \/ ListChannels(h)
  \/ \E c \in Channels : ListMappings(h, c)
  \/ Swap(h)

ChannelStep(h) ==
  \/ \E c \in Channels, body \in ChannelBodies : UpdateChannel(h, c, body)
  \/ WriteChannel(h)
  \/ \E c \in Channels : DeleteChannel(h, c)

KeyStep(h) ==
  \/ \E c \in Channels, k \in Keys \cup {NoKey} : SetChannelApiKey(h, c, k)
  \/ PublishKey(h) \/ MarkKeyless(h)
  \/ \E c \in Channels : ProbeChannelHandler(h, c)
  \/ GetChannel(h) \/ FindCheapestModel(h)
  \/ ProbeHealthy(h) \/ ProbeUnhealthy(h) \/ ProbeImpossible(h)

MappingStep(h) ==
  \/ \E m \in Mappings, row \in NewMappings : CreateModelMapping(h, m, row)
  \/ \E m \in Mappings, body \in MappingBodies : UpdateModelMapping(h, m, body)
  \/ UpsertMapping(h)
  \/ \E m \in Mappings : DeleteModelMapping(h, m)

Next ==
  \/ Restart
  \/ \E c \in Channels : CooldownEnds(c)
  \/ \E h \in Handlers : ReloadStep(h) \/ StorageError(h) \/ ClientGone(h)
                         \/ ChannelStep(h) \/ KeyStep(h) \/ MappingStep(h)

Spec == Init /\ [][Next]_vars

-----------------------------------------------------------------------------
(* Properties *)

\* The tables, the snapshot and the reloads in progress keep their types; a
\* mapping never outlives its channel (the foreign key of the mappings table).
TypeOK ==
  /\ db \in [Channels -> ChannelRows \cup {Absent}]
  /\ mappings \in [Mappings -> MappingRows \cup {Absent}]
  /\ \A m \in Mappings : mappings[m] # Absent => db[mappings[m].channel] # Absent
  /\ snap \in [Channels -> SnapRows \cup {Absent}]
  /\ keymap \in [Channels -> Keys \cup {NoKey}]
  /\ resting \subseteq Channels
  /\ touched \subseteq Channels
  /\ calls \in 0..MaxCalls /\ fresh \in BOOLEAN /\ keyed \subseteq Channels
  /\ \A h \in Handlers : /\ adm[h].rows \in [Channels -> ChannelRows \cup {Absent}]
                         /\ adm[h].built \in [Channels -> SnapRows \cup {Absent}]
                         /\ adm[h].todo \subseteq {c \in Channels : Routable(adm[h].rows[c])}

Quiet == \A h \in Handlers : adm[h].pc = "idle"

\* The parts of a snapshot row other than its key, which is published apart.
Config(row) == IF row = Absent THEN Absent ELSE [row EXCEPT !.key = NoKey]

\* "changes take effect immediately": when no admin request is in progress, the
\* router works on what the tables say, unless the last reload failed, was not
\* reached, or the tables changed under it; a later reload makes up for that.
SnapshotCurrent ==
  Quiet /\ fresh => \A c \in Channels : Config(snap[c]) = Config(Stored(c))

\* "admin API key updates take effect immediately": when no admin request is in
\* progress, a channel with a stored key is used with that key, whether it was
\* loaded, reloaded or set, unless two updates of its key overlapped or the last one
\* was given up by its client.
NewKeyTakesEffect ==
  Quiet /\ fresh =>
    \A c \in keyed : Routable(db[c]) /\ db[c].key # NoKey => RouterKey(c) = db[c].key

\* A channel nobody has changed is routed exactly as it is stored, at every
\* moment: not by a reload for another channel that sees the tables change
\* under it, nor by one that fails half-way, nor by a restart in between.
UntouchedChannelServed ==
  \A c \in Channels \ touched : snap[c] = Stored(c) /\ (Routable(db[c]) => RouterKey(c) = db[c].key)

\* "Channels without any key are permanently excluded from selection": once the
\* stored key is cleared, the router has no key for the channel.
ClearedKeyExcluded ==
  Quiet => \A c \in Channels : db[c] # Absent /\ db[c].key = NoKey => RouterKey(c) = NoKey

=============================================================================
