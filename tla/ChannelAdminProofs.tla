------------------------- MODULE ChannelAdminProofs -------------------------
(***************************************************************************)
(* Proofs about ChannelAdmin, for any tables, any number of handlers in    *)
(* flight and whatever the bodies of their requests are.                   *)
(***************************************************************************)
EXTENDS ChannelAdmin, TLAPS

USE AdminRowAssumption, AdminInputAssumption

-----------------------------------------------------------------------------
(* The inductive invariant *)

Stages == {"idle", "write", "keymap", "keyless", "get", "models", "no_probe", "probing",
           "upsert", "list", "mappings"}

\* The stages that come after a key was published, or after a probe was asked for.
ProbeStages == {"keyless", "get", "models", "no_probe", "probing"}

HandlerStates ==
  [pc : Stages, op : {"none", "update_channel", "delete_channel", "set_key", "probe", "mapping"},
   channel : Channels \cup {Absent}, mapping : Mappings \cup {Absent},
   data : ChannelBodies \cup Keys \cup {NoKey} \cup MappingRows \cup {Absent},
   rows : [Channels -> ChannelRows \cup {Absent}], todo : SUBSET Channels,
   built : [Channels -> SnapRows \cup {Absent}]]

\* A handler has, at each stage, what its next statement needs.
HandlerOK(a) ==
  /\ a \in HandlerStates
  /\ \A c \in a.todo : Routable(a.rows[c])
  /\ a.pc = "write" => a.channel \in Channels /\ a.data \in ChannelBodies
  /\ a.pc = "keymap" => a.channel \in Channels /\ a.data \in Keys \cup {NoKey}
  /\ a.pc \in ProbeStages => a.channel \in Channels
  /\ a.pc = "upsert" => a.mapping \in Mappings /\ a.data \in MappingRows
  /\ a.pc # "mappings" => a.built = EmptySnap /\ a.todo = {}

Tables ==
  /\ db \in [Channels -> ChannelRows \cup {Absent}]
  /\ mappings \in [Mappings -> MappingRows \cup {Absent}]
  /\ \A m \in Mappings : mappings[m] # Absent => db[mappings[m].channel] # Absent

Shared ==
  /\ snap \in [Channels -> SnapRows \cup {Absent}]
  /\ keymap \in [Channels -> Keys \cup {NoKey}]
  /\ resting \subseteq Channels

Histories ==
  /\ touched \subseteq Channels
  /\ calls \in 0..MaxCalls /\ fresh \in BOOLEAN /\ keyed \subseteq Channels

HandlersOK ==
  /\ adm = [h \in Handlers |-> adm[h]]
  /\ \A h \in Handlers : HandlerOK(adm[h])

Shapes == Tables /\ Shared /\ Histories /\ HandlersOK

\* A reload in progress has the channel as it is stored.
Faithful(a, c) ==
  /\ a.rows[c] = db[c]
  /\ c \notin a.todo => a.built[c] = Stored(c)

\* What nobody changed is as stored in the snapshot, in the overrides and in every
\* reload, and nobody is about to publish a key for it.
UntouchedInv ==
  /\ \A c \in Channels \ touched : /\ snap[c] = Stored(c)
                                   /\ Routable(db[c]) => keymap[c] = db[c].key
  /\ \A h \in Handlers : adm[h].pc = "keymap" => adm[h].channel \in touched
  /\ \A h \in Handlers : adm[h].pc = "mappings" =>
       \A c \in Channels \ touched : Faithful(adm[h], c)

\* Two channel rows, and two snapshot rows, that differ at most in their keys.
SameRow(r, s) ==
  IF r = Absent THEN s = Absent
  ELSE /\ s # Absent
       /\ r.enabled = s.enabled /\ r.protocols = s.protocols /\ r.force = s.force

SameSnap(r, s) == SameRow(r, s) /\ (r # Absent => r.models = s.models)

\* A reload in progress has what the tables say, but for the keys.
Current(a, c) ==
  /\ SameRow(a.rows[c], db[c])
  /\ c \notin a.todo => SameSnap(a.built[c], Stored(c))

Reloading(a) == a.pc \in {"list", "mappings"}

\* While the history says fresh no reload is outdated, and the snapshot is current
\* unless a reload is still to come.
FreshInv ==
  fresh => /\ \A h \in Handlers : adm[h].pc = "mappings" =>
                \A c \in Channels : Current(adm[h], c)
           /\ \/ \E h \in Handlers : Reloading(adm[h])
              \/ \A c \in Channels : SameSnap(snap[c], Stored(c))

Publishes(a, c) == a.pc = "keymap" /\ a.channel = c

\* A reload in progress has no other key than the stored one.
KeyAsListed(a, c) ==
  a.pc = "mappings" => /\ a.rows[c] # Absent => a.rows[c].key = db[c].key
                       /\ a.built[c] # Absent => a.built[c].key = db[c].key

\* The override is the stored key, or there never was one and the snapshot's key,
\* now and after any reload, is the stored one.
KeyInForce(c) ==
  \/ keymap[c] = db[c].key
  \/ /\ keymap[c] = NoKey
     /\ snap[c] # Absent => snap[c].key = db[c].key
     /\ \A h \in Handlers : KeyAsListed(adm[h], c)

\* A channel whose key updates did not overlap has one handler at most that is to
\* publish its key, and that is the stored one.
KeyInv ==
  \A c \in keyed :
    /\ \A g, h \in Handlers : Publishes(adm[g], c) /\ Publishes(adm[h], c) => g = h
    /\ db[c] # Absent =>
         /\ \A h \in Handlers : Publishes(adm[h], c) => adm[h].data = db[c].key
         /\ (\A h \in Handlers : ~Publishes(adm[h], c)) => KeyInForce(c)

AdminInv == Shapes /\ UntouchedInv /\ FreshInv /\ KeyInv

-----------------------------------------------------------------------------
(* Rows *)

\* A partial update of a channel leaves its key alone.
LEMMA MergeChannel ==
  ASSUME NEW row \in ChannelRows, NEW body \in ChannelBodies
  PROVE  Merge(row, body) \in ChannelRows /\ Merge(row, body).key = row.key
  <1>1. DOMAIN row = {"enabled", "key", "protocols", "force"}
    BY DEF ChannelRows
  <1>2. DOMAIN body = {"enabled", "protocols", "force"}
    OBVIOUS
  <1>3. /\ body.enabled # Keep => body.enabled \in BOOLEAN
        /\ body.protocols # Keep => body.protocols \in SUBSET ProtocolNames
        /\ body.force # Keep => body.force \in ProtocolNames
    OBVIOUS
  <1> DEFINE new == Merge(row, body)
  <1>4. /\ DOMAIN new = {"enabled", "key", "protocols", "force"}
        /\ new = [f \in DOMAIN new |-> new[f]]
    BY <1>1 DEF Merge
  <1>5. /\ new.enabled = IF body.enabled # Keep THEN body.enabled ELSE row.enabled
        /\ new.key = row.key
        /\ new.protocols = IF body.protocols # Keep THEN body.protocols ELSE row.protocols
        /\ new.force = IF body.force # Keep THEN body.force ELSE row.force
    BY <1>1, <1>2 DEF Merge
  <1>6. /\ row.enabled \in BOOLEAN /\ row.key \in Keys \cup {NoKey}
        /\ row.protocols \in SUBSET ProtocolNames
        /\ row.force \in ProtocolNames \cup {NoForce}
    BY DEF ChannelRows
  <1> HIDE DEF new
  <1>7. /\ new.enabled \in BOOLEAN /\ new.key \in Keys \cup {NoKey}
        /\ new.protocols \in SUBSET ProtocolNames
        /\ new.force \in ProtocolNames \cup {NoForce}
    BY <1>3, <1>5, <1>6
  <1>8. new \in ChannelRows
    BY <1>4, <1>7 DEF ChannelRows
  <1> QED
    BY <1>5, <1>8 DEF new

\* A partial update of a mapping leaves its channel alone.
LEMMA MergeMapping ==
  ASSUME NEW row \in MappingRows, NEW body \in MappingBodies
  PROVE  Merge(row, body) \in MappingRows
  <1>1. DOMAIN row = {"channel", "client", "enabled"}
    BY DEF MappingRows
  <1>2. DOMAIN body = {"client", "enabled"}
    OBVIOUS
  <1>3. /\ body.client # Keep => body.client \in Clients
        /\ body.enabled # Keep => body.enabled \in BOOLEAN
    OBVIOUS
  <1> DEFINE new == Merge(row, body)
  <1>4. /\ DOMAIN new = {"channel", "client", "enabled"}
        /\ new = [f \in DOMAIN new |-> new[f]]
    BY <1>1 DEF Merge
  <1>5. /\ new.channel = row.channel
        /\ new.client = IF body.client # Keep THEN body.client ELSE row.client
        /\ new.enabled = IF body.enabled # Keep THEN body.enabled ELSE row.enabled
    BY <1>1, <1>2 DEF Merge
  <1>6. row.channel \in Channels /\ row.client \in Clients /\ row.enabled \in BOOLEAN
    BY DEF MappingRows
  <1> HIDE DEF new
  <1>7. new.channel \in Channels /\ new.client \in Clients /\ new.enabled \in BOOLEAN
    BY <1>3, <1>5, <1>6
  <1>8. new \in MappingRows
    BY <1>4, <1>7 DEF MappingRows
  <1> QED
    BY <1>8 DEF new

\* What a reload makes of a channel row and its mappings.
LEMMA SnapRowType ==
  ASSUME NEW row \in ChannelRows, NEW models \in SUBSET (Mappings \X Clients)
  PROVE  /\ SnapRow(row, models) \in SnapRows /\ SnapRow(row, models) # Absent
         /\ SnapRow(row, models).key = row.key
         /\ SnapRow(row, models).enabled = row.enabled
         /\ SnapRow(row, models).protocols = row.protocols
         /\ SnapRow(row, models).force = row.force
         /\ SnapRow(row, models).models = models
  <1>1. SnapRow(row, models) \in SnapRows
    BY DEF SnapRow, SnapRows, ChannelRows
  <1> QED
    BY <1>1 DEF SnapRow

\* The mappings a reload lists are pairs of a mapping and a client model name.
LEMMA ModelsType ==
  ASSUME Tables, NEW c \in Channels
  PROVE  Models(c) \in SUBSET (Mappings \X Clients)
  BY DEF Tables, Models, MappingRows

LEMMA StoredType ==
  ASSUME Tables, NEW c \in Channels
  PROVE  /\ Stored(c) \in SnapRows \cup {Absent}
         /\ Stored(c) = Absent <=> ~Routable(db[c])
         /\ Routable(db[c]) => Stored(c).key = db[c].key
  BY ModelsType, SnapRowType DEF Tables, Stored, Routable

\* The mappings of a channel are the same if all that changed belong elsewhere.
LEMMA ModelsKept ==
  ASSUME Tables, Tables', NEW c \in Channels,
         \A m \in Mappings : \/ mappings'[m] = mappings[m]
                             \/ /\ mappings[m] # Absent => mappings[m].channel # c
                                /\ mappings'[m] # Absent => mappings'[m].channel # c
  PROVE  Models(c)' = Models(c)
  BY DEF Models

-----------------------------------------------------------------------------
(* Steps *)

LEMMA IdleOK == HandlerOK(Idle) /\ Idle.pc = "idle"
  BY DEF HandlerOK, HandlerStates, Idle, EmptySnap, Stages, ProbeStages

\* One handler's state is replaced, the others stay.
LEMMA HandlerReplaced ==
  ASSUME HandlersOK, NEW h \in Handlers, NEW a, adm' = [adm EXCEPT ![h] = a]
  PROVE  /\ adm'[h] = a /\ adm' = [g \in Handlers |-> adm'[g]]
         /\ \A g \in Handlers \ {h} : adm'[g] = adm[g]
         /\ HandlerOK(a) => HandlersOK'
  BY DEF HandlersOK

\* While the tables do not change, neither does what they say of a channel.
LEMMA StoredKept ==
  ASSUME UNCHANGED <<db, mappings>>
  PROVE  \A c \in Channels : Stored(c)' = Stored(c) /\ Models(c)' = Models(c)
  BY DEF Stored, Models, Routable

\* A handler moves on, and only it does: not to a key to be published, and to a reload
\* never; if it gives a reload up the snapshot is not fresh, if it gives a key up the
\* channel no longer counts as keyed.
LEMMA QuietMove ==
  ASSUME AdminInv, NEW h \in Handlers, NEW a, HandlerOK(a),
         adm' = [adm EXCEPT ![h] = a],
         a.pc \notin {"list", "mappings", "keymap"},
         keyed' \subseteq keyed, adm[h].pc = "keymap" => adm[h].channel \notin keyed',
         UNCHANGED <<db, mappings, snap, keymap, touched>>,
         resting' \subseteq Channels, calls' \in 0..MaxCalls, fresh' \in BOOLEAN,
         fresh' => fresh /\ ~Reloading(adm[h])
  PROVE  AdminInv'
  <1>1. /\ adm'[h] = a /\ HandlersOK'
        /\ \A g \in Handlers \ {h} : adm'[g] = adm[g]
    BY HandlerReplaced DEF AdminInv, Shapes
  <1>2. Shapes'
    BY <1>1 DEF AdminInv, Shapes, Tables, Shared, Histories
  <1>3. \A c \in Channels : Stored(c)' = Stored(c)
    BY StoredKept
  <1>4. UntouchedInv'
    BY <1>1, <1>3 DEF AdminInv, UntouchedInv, Faithful, Routable
  <1>5. FreshInv'
    <2> SUFFICES ASSUME fresh' PROVE FreshInv'
      BY DEF FreshInv
    <2>1. \A g \in Handlers : adm'[g].pc = "mappings" => \A c \in Channels : Current(adm[g], c)'
      BY <1>1, <1>3 DEF AdminInv, FreshInv, Current
    <2>2. \/ \E g \in Handlers : Reloading(adm'[g])
          \/ \A c \in Channels : SameSnap(snap'[c], Stored(c)')
      BY <1>1, <1>3 DEF AdminInv, FreshInv, Reloading
    <2> QED
      BY <2>1, <2>2 DEF FreshInv, Reloading
  <1>6. KeyInv'
    <2> SUFFICES ASSUME NEW c \in keyed'
                 PROVE  /\ \A f, g \in Handlers :
                             Publishes(adm'[f], c) /\ Publishes(adm'[g], c) => f = g
                        /\ db[c] # Absent =>
                             /\ \A g \in Handlers :
                                  Publishes(adm'[g], c) => adm'[g].data = db[c].key
                             /\ (\A g \in Handlers : ~Publishes(adm'[g], c)) => KeyInForce(c)'
      BY DEF KeyInv
    <2>1. \A g \in Handlers : /\ Publishes(adm'[g], c) <=> Publishes(adm[g], c)
                              /\ Publishes(adm[g], c) => adm'[g] = adm[g]
      BY <1>1 DEF Publishes
    <2>2. \A g \in Handlers : KeyAsListed(adm[g], c) => KeyAsListed(adm[g], c)'
      BY <1>1 DEF KeyAsListed
    <2> QED
      BY <2>1, <2>2 DEF AdminInv, KeyInv, KeyInForce
  <1> QED
    BY <1>2, <1>4, <1>5, <1>6 DEF AdminInv

\* A handler changes a table and is then to reload.  Whatever it changed belongs to
\* channels that count as touched, and no key is changed.
LEMMA TableChange ==
  ASSUME AdminInv, NEW h \in Handlers, NEW a, HandlerOK(a), a.pc = "list",
         adm' = [adm EXCEPT ![h] = a], adm[h].pc \notin {"keymap", "mappings"},
         Tables', UNCHANGED <<snap, keymap, resting, keyed>>,
         calls' \in 0..MaxCalls, touched \subseteq touched', touched' \subseteq Channels,
         Outdates(h),
         \A c \in Channels \ touched' : db'[c] = db[c] /\ Models(c)' = Models(c),
         \A c \in Channels : db'[c] # Absent => db[c] # Absent /\ db'[c].key = db[c].key
  PROVE  AdminInv'
  <1>1. /\ adm'[h] = a /\ HandlersOK'
        /\ \A g \in Handlers \ {h} : adm'[g] = adm[g]
    BY HandlerReplaced DEF AdminInv, Shapes
  <1>2. Shapes'
    BY <1>1 DEF AdminInv, Shapes, Shared, Histories, Outdates, Overtakes
  <1>3. \A c \in Channels \ touched' : Stored(c)' = Stored(c)
    BY DEF Stored, Routable
  <1>4. UntouchedInv'
    BY <1>1, <1>3 DEF AdminInv, UntouchedInv, Faithful, Routable
  <1>5. FreshInv'
    <2>1. Reloading(adm'[h]) /\ adm'[h].pc # "mappings"
      BY <1>1 DEF Reloading
    <2>2. fresh' => \A g \in Handlers \ {h} : adm'[g].pc # "mappings"
      BY <1>1 DEF Outdates, Overtakes
    <2> QED
      BY <2>1, <2>2 DEF FreshInv
  <1>6. KeyInv'
    <2> SUFFICES ASSUME NEW c \in keyed
                 PROVE  /\ \A f, g \in Handlers :
                             Publishes(adm'[f], c) /\ Publishes(adm'[g], c) => f = g
                        /\ db'[c] # Absent =>
                             /\ \A g \in Handlers :
                                  Publishes(adm'[g], c) => adm'[g].data = db'[c].key
                             /\ (\A g \in Handlers : ~Publishes(adm'[g], c)) => KeyInForce(c)'
      BY DEF KeyInv
    <2>0. c \in Channels
      BY DEF AdminInv, Shapes, Histories
    <2>1. \A g \in Handlers : /\ Publishes(adm'[g], c) <=> Publishes(adm[g], c)
                              /\ Publishes(adm[g], c) => adm'[g] = adm[g]
      BY <1>1 DEF Publishes
    <2>2. ASSUME db'[c] # Absent, NEW g \in Handlers, KeyAsListed(adm[g], c)
          PROVE  KeyAsListed(adm[g], c)'
      BY <1>1, <2>0, <2>2 DEF KeyAsListed
    <2> QED
      BY <2>0, <2>1, <2>2 DEF AdminInv, KeyInv, KeyInForce
  <1> QED
    BY <1>2, <1>4, <1>5, <1>6 DEF AdminInv

\* A reload lists the channels: it has them as they are, and nothing else yet.
LEMMA ListStep ==
  ASSUME AdminInv, NEW h \in Handlers, ListChannels(h)
  PROVE  AdminInv'
  <1> DEFINE a == [adm[h] EXCEPT !.pc = "mappings", !.rows = db,
                                 !.todo = {c \in Channels : Routable(db[c])}]
  <1>1. adm' = [adm EXCEPT ![h] = a]
    BY DEF ListChannels, AdminInv, Shapes, HandlersOK
  <1>2. /\ HandlerOK(a) /\ a.pc = "mappings" /\ a.rows = db
        /\ a.todo = {c \in Channels : Routable(db[c])} /\ a.built = EmptySnap
    <2>1. adm[h] \in HandlerStates /\ adm[h].built = EmptySnap
      BY DEF ListChannels, AdminInv, Shapes, HandlersOK, HandlerOK
    <2>2. db \in [Channels -> ChannelRows \cup {Absent}]
      BY DEF AdminInv, Shapes, Tables
    <2>3. /\ a \in HandlerStates /\ a.pc = "mappings" /\ a.rows = db
          /\ a.todo = {c \in Channels : Routable(db[c])} /\ a.built = EmptySnap
      BY <2>1, <2>2 DEF HandlerStates, Stages
    <2> QED
      BY <2>3 DEF HandlerOK, ProbeStages
  <1>3. /\ adm'[h] = a /\ HandlersOK'
        /\ \A g \in Handlers \ {h} : adm'[g] = adm[g]
    BY <1>1, <1>2, HandlerReplaced DEF AdminInv, Shapes
  <1> HIDE DEF a
  <1>u. /\ UNCHANGED <<db, mappings, snap, keymap, resting, touched, calls, keyed>>
        /\ adm[h].pc = "list" /\ fresh' = (fresh \/ ~Overtakes(h))
    BY DEF ListChannels
  <1>4. Shapes'
    BY <1>3, <1>u DEF AdminInv, Shapes, Tables, Shared, Histories, Overtakes
  <1>5. \A c \in Channels : Stored(c)' = Stored(c)
    BY StoredKept DEF ListChannels
  <1>6. \A c \in Channels : /\ a.rows[c] = db[c]
                            /\ c \notin a.todo => a.built[c] = Stored(c) /\ Stored(c) = Absent
    BY <1>2 DEF EmptySnap, Stored
  <1>7. UntouchedInv'
    BY <1>2, <1>3, <1>5, <1>6, <1>u DEF AdminInv, UntouchedInv, Faithful, Routable
  <1>8. FreshInv'
    <2> SUFFICES ASSUME fresh', NEW g \in Handlers, adm'[g].pc = "mappings",
                        NEW c \in Channels
                 PROVE  Current(adm[g], c)'
      BY <1>2, <1>3 DEF FreshInv, Reloading
    <2>1. CASE g = h
      BY <1>3, <1>5, <1>6, <1>u, <2>1 DEF Current, SameRow, SameSnap
    <2>2. CASE g # h
      <3>1. fresh /\ adm[g].pc = "mappings" /\ adm'[g] = adm[g]
        BY <1>3, <1>u, <2>2 DEF Overtakes
      <3> QED
        BY <1>5, <1>u, <3>1 DEF AdminInv, FreshInv, Current
    <2> QED
      BY <2>1, <2>2
  <1>9. KeyInv'
    <2> SUFFICES ASSUME NEW c \in keyed
                 PROVE  /\ \A f, g \in Handlers :
                             Publishes(adm'[f], c) /\ Publishes(adm'[g], c) => f = g
                        /\ db[c] # Absent =>
                             /\ \A g \in Handlers :
                                  Publishes(adm'[g], c) => adm'[g].data = db[c].key
                             /\ (\A g \in Handlers : ~Publishes(adm'[g], c)) => KeyInForce(c)'
      BY DEF KeyInv, ListChannels
    <2>0. c \in Channels /\ UNCHANGED <<db, keymap, snap>>
      BY DEF AdminInv, Shapes, Histories, ListChannels
    <2>1. \A g \in Handlers : /\ Publishes(adm'[g], c) <=> Publishes(adm[g], c)
                              /\ Publishes(adm[g], c) => adm'[g] = adm[g]
      BY <1>2, <1>3 DEF Publishes, ListChannels
    <2>2. \A g \in Handlers : KeyAsListed(adm[g], c) => KeyAsListed(adm[g], c)'
      BY <1>2, <1>3, <2>0 DEF KeyAsListed, EmptySnap
    <2> QED
      BY <2>0, <2>1, <2>2 DEF AdminInv, KeyInv, KeyInForce
  <1> QED
    BY <1>4, <1>7, <1>8, <1>9 DEF AdminInv

\* It lists the mappings of one of them.
LEMMA MappingsStep ==
  ASSUME AdminInv, NEW h \in Handlers, NEW d \in Channels, ListMappings(h, d)
  PROVE  AdminInv'
  <1> DEFINE row == SnapRow(adm[h].rows[d], Models(d))
             a == [adm[h] EXCEPT !.todo = @ \ {d}, !.built[d] = row]
  <1>0. HandlerOK(adm[h]) /\ adm[h].pc = "mappings" /\ d \in adm[h].todo
    BY DEF ListMappings, AdminInv, Shapes, HandlersOK
  <1>r. adm[h].rows[d] \in ChannelRows /\ Routable(adm[h].rows[d])
    BY <1>0 DEF HandlerOK, HandlerStates, Routable
  <1>1. adm' = [adm EXCEPT ![h] = a]
    BY DEF ListMappings, row, a
  <1>s. /\ row \in SnapRows /\ row # Absent
        /\ row.key = adm[h].rows[d].key /\ row.enabled = adm[h].rows[d].enabled
        /\ row.protocols = adm[h].rows[d].protocols /\ row.force = adm[h].rows[d].force
        /\ row.models = Models(d)
    BY <1>r, ModelsType, SnapRowType DEF AdminInv, Shapes
  <1> HIDE DEF row
  <1>2. /\ HandlerOK(a) /\ a.pc = "mappings" /\ a.rows = adm[h].rows
        /\ a.todo = adm[h].todo \ {d}
        /\ a.built[d] = row
        /\ \A c \in Channels \ {d} : a.built[c] = adm[h].built[c]
    BY <1>0, <1>s DEF HandlerOK, HandlerStates, ProbeStages
  <1>3. /\ adm'[h] = a /\ HandlersOK'
        /\ \A g \in Handlers \ {h} : adm'[g] = adm[g]
    BY <1>1, <1>2, HandlerReplaced DEF AdminInv, Shapes
  <1> HIDE DEF a
  <1>u. UNCHANGED <<db, mappings, snap, keymap, resting, touched, calls, fresh, keyed>>
    BY DEF ListMappings
  <1>4. Shapes'
    BY <1>3, <1>u DEF AdminInv, Shapes, Tables, Shared, Histories
  <1>5. \A c \in Channels : Stored(c)' = Stored(c)
    BY StoredKept DEF ListMappings
  <1>6. UntouchedInv'
    <2>1. ASSUME d \notin touched PROVE row = Stored(d)
      BY <1>0, <1>r, <2>1 DEF row, AdminInv, UntouchedInv, Faithful, Stored
    <2>2. \A c \in Channels \ touched : Faithful(a, c)
      BY <1>0, <1>2, <2>1 DEF AdminInv, UntouchedInv, Faithful
    <2> QED
      BY <1>2, <1>3, <1>5, <1>u, <2>2 DEF AdminInv, UntouchedInv, Faithful, Routable
  <1>7. FreshInv'
    <2> SUFFICES ASSUME fresh', NEW g \in Handlers, adm'[g].pc = "mappings",
                        NEW c \in Channels
                 PROVE  Current(adm[g], c)'
      BY <1>2, <1>3 DEF FreshInv, Reloading
    <2>0. db' = db /\ fresh
      BY <1>u
    <2>1. CASE g = h
      <3>1. Current(adm[h], c)
        BY <1>0, <2>0 DEF AdminInv, FreshInv
      <3>2. CASE c = d
        <4>1. SameRow(adm[h].rows[d], db[d])
          BY <3>1, <3>2 DEF Current
        <4>2. Routable(db[d]) /\ db[d] \in ChannelRows
          BY <1>r, <4>1 DEF SameRow, Routable, AdminInv, Shapes, Tables
        <4>3. /\ Stored(d) # Absent /\ Stored(d).models = Models(d)
              /\ Stored(d).enabled = db[d].enabled /\ Stored(d).force = db[d].force
              /\ Stored(d).protocols = db[d].protocols
          BY <4>2, ModelsType, SnapRowType DEF Stored, AdminInv, Shapes
        <4>4. SameSnap(row, Stored(d))
          BY <1>r, <1>s, <4>1, <4>3 DEF SameSnap, SameRow, Routable
        <4> QED
          BY <1>2, <1>3, <1>5, <2>0, <2>1, <3>2, <4>1, <4>4 DEF Current
      <3>3. CASE c # d
        BY <1>2, <1>3, <1>5, <2>0, <2>1, <3>1, <3>3 DEF Current
      <3> QED
        BY <3>2, <3>3
    <2>2. CASE g # h
      BY <1>3, <1>5, <2>0, <2>2 DEF AdminInv, FreshInv, Current
    <2> QED
      BY <2>1, <2>2
  <1>8. KeyInv'
    <2> SUFFICES ASSUME NEW c \in keyed
                 PROVE  /\ \A f, g \in Handlers :
                             Publishes(adm'[f], c) /\ Publishes(adm'[g], c) => f = g
                        /\ db[c] # Absent =>
                             /\ \A g \in Handlers :
                                  Publishes(adm'[g], c) => adm'[g].data = db[c].key
                             /\ (\A g \in Handlers : ~Publishes(adm'[g], c)) => KeyInForce(c)'
      BY DEF KeyInv, ListMappings
    <2>0. c \in Channels /\ UNCHANGED <<db, keymap, snap>>
      BY DEF AdminInv, Shapes, Histories, ListMappings
    <2>1. \A g \in Handlers : /\ Publishes(adm'[g], c) <=> Publishes(adm[g], c)
                              /\ Publishes(adm[g], c) => adm'[g] = adm[g]
      BY <1>0, <1>2, <1>3 DEF Publishes
    <2>2. \A g \in Handlers : KeyAsListed(adm[g], c) => KeyAsListed(adm[g], c)'
      BY <1>0, <1>2, <1>3, <1>r, <1>s, <2>0 DEF KeyAsListed, Routable
    <2> QED
      BY <2>0, <2>1, <2>2 DEF AdminInv, KeyInv, KeyInForce
  <1> QED
    BY <1>4, <1>6, <1>7, <1>8 DEF AdminInv

\* It swaps the snapshot: complete, and current if the history says fresh.
LEMMA SwapStep ==
  ASSUME AdminInv, NEW h \in Handlers, Swap(h)
  PROVE  AdminInv'
  <1>0. /\ HandlerOK(adm[h]) /\ adm[h].pc = "mappings" /\ adm[h].todo = {}
        /\ adm' = [adm EXCEPT ![h] = Idle] /\ snap' = adm[h].built
        /\ UNCHANGED <<db, mappings, keymap, resting, touched, calls, fresh, keyed>>
    BY DEF Swap, Finish, AdminInv, Shapes, HandlersOK
  <1>1. /\ adm'[h] = Idle /\ Idle.pc = "idle" /\ HandlersOK'
        /\ \A g \in Handlers \ {h} : adm'[g] = adm[g]
    BY <1>0, IdleOK, HandlerReplaced DEF AdminInv, Shapes
  <1>2. Shapes'
    BY <1>0, <1>1 DEF AdminInv, Shapes, Tables, Shared, Histories, HandlerOK, HandlerStates
  <1>3. \A c \in Channels : Stored(c)' = Stored(c)
    BY <1>0, StoredKept
  <1>4. UntouchedInv'
    BY <1>0, <1>1, <1>3 DEF AdminInv, UntouchedInv, Faithful, Routable
  <1>5. FreshInv'
    BY <1>0, <1>1, <1>3 DEF AdminInv, FreshInv, Current
  <1>6. KeyInv'
    <2> SUFFICES ASSUME NEW c \in keyed
                 PROVE  /\ \A f, g \in Handlers :
                             Publishes(adm'[f], c) /\ Publishes(adm'[g], c) => f = g
                        /\ db[c] # Absent =>
                             /\ \A g \in Handlers :
                                  Publishes(adm'[g], c) => adm'[g].data = db[c].key
                             /\ (\A g \in Handlers : ~Publishes(adm'[g], c)) => KeyInForce(c)'
      BY <1>0 DEF KeyInv
    <2>1. \A g \in Handlers : /\ Publishes(adm'[g], c) <=> Publishes(adm[g], c)
                              /\ Publishes(adm[g], c) => adm'[g] = adm[g]
      BY <1>0, <1>1 DEF Publishes
    <2>2. \A g \in Handlers : KeyAsListed(adm[g], c) => KeyAsListed(adm[g], c)'
      BY <1>0, <1>1 DEF KeyAsListed
    <2>3. KeyInForce(c) => KeyInForce(c)'
      BY <1>0, <2>2 DEF KeyInForce, KeyAsListed
    <2> QED
      BY <2>1, <2>3 DEF AdminInv, KeyInv
  <1> QED
    BY <1>2, <1>4, <1>5, <1>6 DEF AdminInv

\* A key is stored: the channel is touched, and only the handler that stored it, if
\* no other is at it, will publish it.
LEMMA SetKeyStep ==
  ASSUME AdminInv, NEW h \in Handlers, NEW d \in Channels, NEW k \in Keys \cup {NoKey},
         SetChannelApiKey(h, d, k)
  PROVE  AdminInv'
  <1> DEFINE a == [Idle EXCEPT !.pc = "keymap", !.op = "set_key", !.channel = d, !.data = k]
  <1>0. /\ adm[h].pc = "idle" /\ db[d] # Absent /\ calls' \in 0..MaxCalls
        /\ adm' = [adm EXCEPT ![h] = a] /\ db' = [db EXCEPT ![d].key = k]
        /\ touched' = touched \cup {d}
        /\ UNCHANGED <<mappings, snap, keymap, resting, fresh>>
        /\ keyed' = IF \E g \in Handlers \ {h} : Publishes(adm[g], d)
                    THEN keyed \ {d} ELSE keyed \cup {d}
    BY DEF SetChannelApiKey, Begin, AdminInv, Shapes, Histories, Publishes
  <1>1. HandlerOK(a) /\ a.pc = "keymap" /\ a.channel = d /\ a.data = k
    <2>1. Idle \in HandlerStates /\ Idle.todo = {} /\ Idle.built = EmptySnap
      BY IdleOK DEF HandlerOK
    <2>2. a \in HandlerStates /\ a.todo = {} /\ a.built = EmptySnap
          /\ a.pc = "keymap" /\ a.channel = d /\ a.data = k
      BY <2>1 DEF HandlerStates, Stages
    <2> QED
      BY <2>2 DEF HandlerOK, ProbeStages
  <1>2. /\ adm'[h] = a /\ HandlersOK'
        /\ \A g \in Handlers \ {h} : adm'[g] = adm[g]
    BY <1>0, <1>1, HandlerReplaced DEF AdminInv, Shapes
  <1> HIDE DEF a
  <1>3. db[d] \in ChannelRows
    BY <1>0 DEF AdminInv, Shapes, Tables
  <1>4. /\ db'[d] \in ChannelRows /\ db'[d].key = k
        /\ db'[d].enabled = db[d].enabled /\ db'[d].protocols = db[d].protocols
        /\ db'[d].force = db[d].force
        /\ \A c \in Channels \ {d} : db'[c] = db[c]
    BY <1>0, <1>3 DEF AdminInv, Shapes, Tables, ChannelRows
  <1>5. db' \in [Channels -> ChannelRows \cup {Absent}]
    BY <1>0, <1>4 DEF AdminInv, Shapes, Tables
  <1>6. Tables'
    BY <1>0, <1>4, <1>5 DEF AdminInv, Shapes, Tables
  <1>7. Shapes'
    BY <1>0, <1>2, <1>6 DEF AdminInv, Shapes, Shared, Histories
  <1>8. \A c \in Channels \ {d} : Stored(c)' = Stored(c)
    BY <1>0, <1>4 DEF Stored, Models, Routable
  <1>9. SameRow(db[d], db'[d]) /\ SameRow(Stored(d), Stored(d)')
           /\ (Stored(d) # Absent => Stored(d).models = Stored(d)'.models)
    <2>1. Models(d)' = Models(d)
      BY <1>0 DEF Models
    <2>2. Routable(db[d]) <=> Routable(db'[d])
      BY <1>0, <1>3, <1>4 DEF Routable
    <2>3. CASE Routable(db[d])
      <3>1. Stored(d) = SnapRow(db[d], Models(d)) /\ Stored(d)' = SnapRow(db'[d], Models(d))
        BY <2>1, <2>2, <2>3 DEF Stored
      <3>2. Models(d) \in SUBSET (Mappings \X Clients)
        BY ModelsType DEF AdminInv, Shapes
      <3>3. /\ Stored(d) # Absent /\ Stored(d).enabled = db[d].enabled
            /\ Stored(d).protocols = db[d].protocols /\ Stored(d).force = db[d].force
            /\ Stored(d).models = Models(d)
        BY <1>3, <3>1, <3>2, SnapRowType
      <3>4. /\ Stored(d)' # Absent /\ Stored(d)'.enabled = db'[d].enabled
            /\ Stored(d)'.protocols = db'[d].protocols /\ Stored(d)'.force = db'[d].force
            /\ Stored(d)'.models = Models(d)
        BY <1>4, <3>1, <3>2, SnapRowType
      <3> QED
        BY <1>0, <1>3, <1>4, <3>3, <3>4 DEF SameRow
    <2>4. CASE ~Routable(db[d])
      BY <1>0, <1>3, <1>4, <2>2, <2>4 DEF Stored, SameRow
    <2> QED
      BY <2>3, <2>4
  <1>10. UntouchedInv'
    BY <1>0, <1>1, <1>2, <1>4, <1>8 DEF AdminInv, UntouchedInv, Faithful, Routable
  <1>11. FreshInv'
    <2> SUFFICES ASSUME fresh
                 PROVE  /\ \A g \in Handlers : adm'[g].pc = "mappings" =>
                             \A c \in Channels : Current(adm[g], c)'
                        /\ \/ \E g \in Handlers : Reloading(adm'[g])
                           \/ \A c \in Channels : SameSnap(snap'[c], Stored(c)')
      BY <1>0 DEF FreshInv, Reloading
    <2>1. \A c \in Channels : /\ \A r : SameRow(r, db[c]) => SameRow(r, db'[c])
                              /\ \A r : SameSnap(r, Stored(c)) => SameSnap(r, Stored(c)')
      BY <1>4, <1>8, <1>9 DEF SameRow, SameSnap
    <2>2. \A g \in Handlers : adm'[g].pc = "mappings" =>
            adm'[g] = adm[g] /\ \A c \in Channels : Current(adm[g], c)
      BY <1>1, <1>2 DEF AdminInv, FreshInv
    <2>3. \A g \in Handlers : adm'[g].pc = "mappings" =>
            \A c \in Channels : Current(adm[g], c)'
      BY <2>1, <2>2 DEF Current
    <2>4. CASE \E g \in Handlers : Reloading(adm[g])
      BY <1>0, <1>2, <2>3, <2>4 DEF Reloading
    <2>5. CASE \A c \in Channels : SameSnap(snap[c], Stored(c))
      BY <1>0, <2>1, <2>3, <2>5
    <2> QED
      BY <2>4, <2>5 DEF AdminInv, FreshInv
  <1>12. KeyInv'
    <2> SUFFICES ASSUME NEW c \in keyed'
                 PROVE  /\ \A f, g \in Handlers :
                             Publishes(adm'[f], c) /\ Publishes(adm'[g], c) => f = g
                        /\ db'[c] # Absent =>
                             /\ \A g \in Handlers :
                                  Publishes(adm'[g], c) => adm'[g].data = db'[c].key
                             /\ (\A g \in Handlers : ~Publishes(adm'[g], c)) => KeyInForce(c)'
      BY DEF KeyInv
    <2>1. CASE c = d
      <3>1. \A g \in Handlers : Publishes(adm'[g], d) <=> g = h
        BY <1>0, <1>1, <1>2, <2>1 DEF Publishes
      <3> QED
        BY <1>1, <1>2, <1>4, <2>1, <3>1
    <2>2. CASE c # d
      <3>0. c \in keyed /\ c \in Channels
        BY <1>0, <2>2 DEF AdminInv, Shapes, Histories
      <3>1. \A g \in Handlers : /\ Publishes(adm'[g], c) <=> Publishes(adm[g], c)
                                /\ Publishes(adm[g], c) => adm'[g] = adm[g]
        BY <1>0, <1>1, <1>2, <2>2 DEF Publishes
      <3>2. db'[c] = db[c]
        BY <1>4, <2>2, <3>0
      <3>3. \A g \in Handlers : KeyAsListed(adm[g], c) => KeyAsListed(adm[g], c)'
        BY <1>1, <1>2, <3>2 DEF KeyAsListed
      <3>4. KeyInForce(c) => KeyInForce(c)'
        BY <1>0, <3>2, <3>3 DEF KeyInForce
      <3> QED
        BY <3>0, <3>1, <3>2, <3>4 DEF AdminInv, KeyInv
    <2> QED
      BY <2>1, <2>2
  <1> QED
    BY <1>7, <1>10, <1>11, <1>12 DEF AdminInv

\* The key is published: the override becomes the stored key, if no other update of
\* it overlapped.
LEMMA PublishStep ==
  ASSUME AdminInv, NEW h \in Handlers, PublishKey(h)
  PROVE  AdminInv'
  <1> DEFINE d == adm[h].channel
             p == IF adm[h].data = NoKey THEN "keyless" ELSE "get"
             a == [adm[h] EXCEPT !.pc = p]
  <1>0. /\ HandlerOK(adm[h]) /\ adm[h].pc = "keymap"
        /\ d \in Channels /\ d \in touched /\ adm[h].data \in Keys \cup {NoKey}
        /\ adm' = [adm EXCEPT ![h] = a] /\ keymap' = [keymap EXCEPT ![d] = adm[h].data]
        /\ UNCHANGED <<db, mappings, snap, resting, touched, calls, fresh, keyed>>
    BY DEF PublishKey, Goto, AdminInv, Shapes, HandlersOK, HandlerOK, UntouchedInv
  <1>1. HandlerOK(a) /\ a.pc \in {"keyless", "get"}
    <2>1. /\ a \in HandlerStates /\ a.pc \in {"keyless", "get"}
          /\ a.todo = adm[h].todo /\ a.built = adm[h].built /\ a.rows = adm[h].rows
          /\ a.channel = adm[h].channel
      BY <1>0 DEF HandlerOK, HandlerStates, Stages
    <2> QED
      BY <1>0, <2>1 DEF HandlerOK
  <1>2. /\ adm'[h] = a /\ HandlersOK'
        /\ \A g \in Handlers \ {h} : adm'[g] = adm[g]
    BY <1>0, <1>1, HandlerReplaced DEF AdminInv, Shapes
  <1> HIDE DEF a
  <1>3. Shapes'
    BY <1>0, <1>2 DEF AdminInv, Shapes, Tables, Shared, Histories
  <1>4. \A c \in Channels : Stored(c)' = Stored(c)
    BY <1>0, StoredKept
  <1>5. \A c \in Channels \ {d} : keymap'[c] = keymap[c]
    BY <1>0 DEF AdminInv, Shapes, Shared
  <1>6. UntouchedInv'
    BY <1>0, <1>1, <1>2, <1>4, <1>5 DEF AdminInv, UntouchedInv, Faithful, Routable
  <1>7. FreshInv'
    <2> SUFFICES ASSUME fresh PROVE FreshInv'
      BY <1>0 DEF FreshInv
    <2>1. \A g \in Handlers : adm'[g].pc = "mappings" => \A c \in Channels : Current(adm[g], c)'
      BY <1>0, <1>1, <1>2, <1>4 DEF AdminInv, FreshInv, Current
    <2>2. \/ \E g \in Handlers : Reloading(adm'[g])
          \/ \A c \in Channels : SameSnap(snap'[c], Stored(c)')
      BY <1>0, <1>1, <1>2, <1>4 DEF AdminInv, FreshInv, Reloading
    <2> QED
      BY <2>1, <2>2 DEF FreshInv, Reloading
  <1>8. KeyInv'
    <2> SUFFICES ASSUME NEW c \in keyed
                 PROVE  /\ \A f, g \in Handlers :
                             Publishes(adm'[f], c) /\ Publishes(adm'[g], c) => f = g
                        /\ db[c] # Absent =>
                             /\ \A g \in Handlers :
                                  Publishes(adm'[g], c) => adm'[g].data = db[c].key
                             /\ (\A g \in Handlers : ~Publishes(adm'[g], c)) => KeyInForce(c)'
      BY <1>0 DEF KeyInv
    <2>0. c \in Channels
      BY DEF AdminInv, Shapes, Histories
    <2>1. CASE c = d
      <3>1. Publishes(adm[h], c)
        BY <1>0, <2>1 DEF Publishes
      <3>2. \A g \in Handlers : ~Publishes(adm'[g], c)
        BY <1>1, <1>2, <3>1 DEF AdminInv, KeyInv, Publishes
      <3>3. db[c] # Absent => adm[h].data = db[c].key
        BY <3>1 DEF AdminInv, KeyInv
      <3>4. keymap'[c] = adm[h].data
        BY <1>0, <2>1 DEF AdminInv, Shapes, Shared
      <3> QED
        BY <1>0, <3>2, <3>3, <3>4 DEF KeyInForce
    <2>2. CASE c # d
      <3>1. \A g \in Handlers : /\ Publishes(adm'[g], c) <=> Publishes(adm[g], c)
                                /\ Publishes(adm[g], c) => adm'[g] = adm[g]
        BY <1>0, <1>1, <1>2, <2>2 DEF Publishes
      <3>2. \A g \in Handlers : KeyAsListed(adm[g], c) => KeyAsListed(adm[g], c)'
        BY <1>0, <1>1, <1>2 DEF KeyAsListed
      <3>3. KeyInForce(c) => KeyInForce(c)'
        BY <1>0, <1>5, <2>0, <2>2, <3>2 DEF KeyInForce
      <3> QED
        BY <3>1, <3>3 DEF AdminInv, KeyInv
    <2> QED
      BY <2>1, <2>2
  <1> QED
    BY <1>3, <1>6, <1>7, <1>8 DEF AdminInv

\* A router that was just made from the tables, with no request in flight.
Loaded ==
  /\ Tables /\ snap = StoredSnapshot /\ keymap = StoredKeys /\ resting = {}
  /\ adm = [h \in Handlers |-> Idle] /\ Histories /\ keyed = Channels

\* It agrees with them.
LEMMA LoadedRouter == Loaded => AdminInv
  <1> SUFFICES ASSUME Loaded PROVE AdminInv
    OBVIOUS
  <1> USE DEF Loaded
  <1>1. \A h \in Handlers : adm[h] = Idle
    OBVIOUS
  <1>2. \A c \in Channels : /\ snap[c] = Stored(c)
                            /\ Stored(c) \in SnapRows \cup {Absent}
                            /\ keymap[c] = IF Routable(db[c]) THEN db[c].key ELSE NoKey
                            /\ Stored(c) # Absent => Stored(c).key = db[c].key
    BY StoredType DEF StoredSnapshot, StoredKeys
  <1>3. HandlersOK
    BY <1>1, IdleOK DEF HandlersOK
  <1>4. Shared
    <2>1. \A c \in Channels : Routable(db[c]) => db[c].key \in Keys \cup {NoKey}
      BY DEF Tables, Routable, ChannelRows
    <2> QED
      BY <1>2, <2>1 DEF Shared, StoredSnapshot, StoredKeys
  <1>5. UntouchedInv
    BY <1>1, <1>2, IdleOK DEF UntouchedInv
  <1>6. FreshInv
    BY <1>1, <1>2, IdleOK DEF FreshInv, SameSnap, SameRow
  <1>7. KeyInv
    BY <1>1, <1>2, IdleOK DEF KeyInv, KeyInForce, KeyAsListed, Publishes
  <1> QED
    BY <1>3, <1>4, <1>5, <1>6, <1>7 DEF AdminInv, Shapes

LEMMA InitStep == Init => AdminInv
  <1> SUFFICES ASSUME Init PROVE AdminInv
    OBVIOUS
  <1>1. Tables
    BY DEF Init, Tables
  <1>2. Histories
    BY DEF Init, Histories
  <1> QED
    BY <1>1, <1>2, LoadedRouter DEF Init, Loaded

\* A restart reads the tables again.
LEMMA RestartStep ==
  ASSUME AdminInv, Restart
  PROVE  AdminInv'
  <1>1. \A c \in Channels : Stored(c)' = Stored(c) /\ db'[c] = db[c]
    BY StoredKept DEF Restart
  <1>2. Loaded'
    BY <1>1 DEF Restart, Loaded, AdminInv, Shapes, Tables, Histories, StoredSnapshot,
                StoredKeys, Routable
  <1> QED
    BY <1>2, LoadedRouter, PTL

\* A request begins: its handler has the fields it sets and nothing else.
LEMMA BegunOK ==
  ASSUME NEW a \in HandlerStates, a.todo = {}, a.built = EmptySnap,
         a.pc \notin {"keymap", "mappings"},
         a.pc = "write" => a.channel \in Channels /\ a.data \in ChannelBodies,
         a.pc \in ProbeStages => a.channel \in Channels,
         a.pc = "upsert" => a.mapping \in Mappings /\ a.data \in MappingRows
  PROVE  HandlerOK(a)
  BY DEF HandlerOK

\* A handler goes on to a stage that needs no more than it has.
LEMMA GoneOnOK ==
  ASSUME NEW a, HandlerOK(a), a.pc # "mappings", NEW p \in ProbeStages \cup {"list"},
         a.pc \in ProbeStages \/ p = "list"
  PROVE  HandlerOK([a EXCEPT !.pc = p]) /\ [a EXCEPT !.pc = p].pc = p
  <1> DEFINE b == [a EXCEPT !.pc = p]
  <1>1. /\ b \in HandlerStates /\ b.pc = p /\ b.channel = a.channel
        /\ b.todo = a.todo /\ b.built = a.built /\ b.rows = a.rows
    BY DEF HandlerOK, HandlerStates, Stages, ProbeStages
  <1> HIDE DEF b
  <1>2. HandlerOK(b)
    BY <1>1 DEF HandlerOK, ProbeStages
  <1> QED
    BY <1>1, <1>2 DEF b

\* A handler ends, and a reload it gives up is one the history counts as failed.
LEMMA EndStep ==
  ASSUME AdminInv, NEW h \in Handlers, Finish(h),
         keyed' \subseteq keyed, adm[h].pc = "keymap" => adm[h].channel \notin keyed',
         UNCHANGED <<db, mappings, snap, keymap, touched, calls>>,
         resting' \subseteq Channels, fresh' \in BOOLEAN,
         fresh' => fresh /\ ~Reloading(adm[h])
  PROVE  AdminInv'
  <1>1. calls' \in 0..MaxCalls
    BY DEF AdminInv, Shapes, Histories
  <1> QED
    BY <1>1, IdleOK, QuietMove DEF Finish

LEMMA StorageErrorStep ==
  ASSUME AdminInv, NEW h \in Handlers, StorageError(h)
  PROVE  AdminInv'
  <1>1. /\ Finish(h) /\ adm[h].pc # "keymap"
        /\ UNCHANGED <<db, mappings, snap, keymap, resting, touched, calls, keyed>>
        /\ fresh' = (fresh /\ ~Reloading(adm[h]))
    BY DEF StorageError, Reloading
  <1>2. resting' \subseteq Channels /\ fresh' \in BOOLEAN
    BY <1>1 DEF AdminInv, Shapes, Shared
  <1> QED
    BY <1>1, <1>2, EndStep

LEMMA ClientGoneStep ==
  ASSUME AdminInv, NEW h \in Handlers, ClientGone(h)
  PROVE  AdminInv'
  <1>1. /\ Finish(h)
        /\ UNCHANGED <<db, mappings, snap, keymap, resting, touched, calls>>
        /\ fresh' = (fresh /\ ~Reloading(adm[h]))
        /\ keyed' \subseteq keyed
        /\ adm[h].pc = "keymap" => adm[h].channel \notin keyed'
    BY DEF ClientGone, Reloading
  <1>2. resting' \subseteq Channels /\ fresh' \in BOOLEAN
    BY <1>1 DEF AdminInv, Shapes, Shared
  <1> QED
    BY <1>1, <1>2, EndStep

LEMMA ChannelStepOK ==
  ASSUME AdminInv, NEW h \in Handlers, ChannelStep(h)
  PROVE  AdminInv'
  <1>t. /\ HandlerOK(adm[h]) /\ fresh \in BOOLEAN /\ resting \subseteq Channels
        /\ touched \subseteq Channels /\ Tables /\ calls \in 0..MaxCalls /\ HandlersOK
    BY DEF AdminInv, Shapes, Shared, Histories, HandlersOK
  <1>1. ASSUME NEW c \in Channels, NEW body \in ChannelBodies, UpdateChannel(h, c, body)
        PROVE  AdminInv'
    <2> DEFINE a == [Idle EXCEPT !.pc = "write", !.op = "update_channel",
                                 !.channel = c, !.data = body]
    <2>1. HandlerOK(a) /\ a.pc = "write"
      <3>1. /\ a \in HandlerStates /\ a.pc = "write" /\ a.todo = {} /\ a.built = EmptySnap
            /\ a.channel = c /\ a.data = body
        BY IdleOK DEF HandlerOK, HandlerStates, Stages
      <3> HIDE DEF a
      <3> QED
        BY <3>1, BegunOK DEF ProbeStages
    <2>2. /\ adm' = [adm EXCEPT ![h] = a] /\ adm[h].pc = "idle" /\ calls' \in 0..MaxCalls
          /\ UNCHANGED <<db, mappings, snap, keymap, resting, touched, fresh, keyed>>
      BY <1>1, <1>t DEF UpdateChannel, Begin
    <2> HIDE DEF a
    <2> QED
      BY <1>t, <2>1, <2>2, QuietMove DEF Reloading
  <1>2. ASSUME WriteChannel(h) PROVE AdminInv'
    <2> DEFINE d == adm[h].channel
    <2>0. /\ adm[h].pc = "write" /\ d \in Channels /\ adm[h].data \in ChannelBodies
          /\ UNCHANGED <<mappings, snap, keymap, resting, calls, keyed>>
      BY <1>2, <1>t DEF WriteChannel, HandlerOK
    <2>1. CASE db[d] = Absent
      <3>1. Finish(h) /\ UNCHANGED <<db, touched, fresh>>
        BY <1>2, <2>1 DEF WriteChannel
      <3> QED
        BY <1>t, <2>0, <3>1, EndStep DEF Reloading
    <2>2. CASE db[d] # Absent
      <3> DEFINE a == [adm[h] EXCEPT !.pc = "list"]
                 row == Merge(db[d], adm[h].data)
      <3>1. /\ db' = [db EXCEPT ![d] = row] /\ touched' = touched \cup {d} /\ Outdates(h)
            /\ adm' = [adm EXCEPT ![h] = a]
        BY <1>2, <1>t, <2>2 DEF WriteChannel, Goto, HandlersOK
      <3>2. HandlerOK(a) /\ a.pc = "list"
        BY <1>t, <2>0, GoneOnOK
      <3>3. row \in ChannelRows /\ row.key = db[d].key
        BY <1>t, <2>0, <2>2, MergeChannel DEF Tables
      <3> HIDE DEF a, row
      <3>4. /\ db'[d] = row /\ \A c \in Channels \ {d} : db'[c] = db[c]
            /\ db' \in [Channels -> ChannelRows \cup {Absent}]
        BY <1>t, <2>0, <3>1, <3>3 DEF Tables
      <3>5. Tables'
        BY <1>t, <2>0, <3>3, <3>4 DEF Tables, MappingRows
      <3>6. \A c \in Channels : Models(c)' = Models(c)
        BY <2>0 DEF Models
      <3>7. \A c \in Channels \ touched' : db'[c] = db[c] /\ Models(c)' = Models(c)
        BY <3>1, <3>4, <3>6
      <3>8. \A c \in Channels : db'[c] # Absent => db[c] # Absent /\ db'[c].key = db[c].key
        BY <2>2, <3>3, <3>4
      <3>9. /\ touched \subseteq touched' /\ touched' \subseteq Channels
            /\ calls' \in 0..MaxCalls /\ adm[h].pc \notin {"keymap", "mappings"}
        BY <1>t, <2>0, <3>1
      <3> QED
        BY <2>0, <3>1, <3>2, <3>5, <3>7, <3>8, <3>9, TableChange
    <2> QED
      BY <2>1, <2>2
  <1>3. ASSUME NEW d \in Channels, DeleteChannel(h, d) PROVE AdminInv'
    <2> DEFINE a == [Idle EXCEPT !.pc = "list", !.op = "delete_channel"]
    <2>1. HandlerOK(a) /\ a.pc = "list"
      <3>1. /\ a \in HandlerStates /\ a.pc = "list" /\ a.todo = {} /\ a.built = EmptySnap
            /\ a.op = "delete_channel"
        BY IdleOK DEF HandlerOK, HandlerStates, Stages
      <3> HIDE DEF a
      <3> QED
        BY <3>1, BegunOK DEF ProbeStages
    <2>2. /\ adm' = [adm EXCEPT ![h] = a] /\ adm[h].pc = "idle" /\ calls' \in 0..MaxCalls
          /\ db[d] # Absent /\ db' = [db EXCEPT ![d] = Absent]
          /\ mappings' = [m \in Mappings |->
               IF mappings[m] # Absent /\ mappings[m].channel = d THEN Absent ELSE mappings[m]]
          /\ touched' = touched \cup {d} /\ Outdates(h)
          /\ UNCHANGED <<snap, keymap, resting, keyed>>
      BY <1>3, <1>t DEF DeleteChannel, Begin
    <2> HIDE DEF a
    <2>3. db'[d] = Absent /\ \A c \in Channels \ {d} : db'[c] = db[c]
      BY <1>t, <2>2 DEF Tables
    <2>4. \A m \in Mappings : \/ mappings'[m] = mappings[m]
                                   /\ (mappings[m] # Absent => mappings[m].channel # d)
                              \/ /\ mappings[m] # Absent /\ mappings[m].channel = d
                                 /\ mappings'[m] = Absent
      BY <2>2
    <2>5. Tables'
      <3>1. /\ db' \in [Channels -> ChannelRows \cup {Absent}]
            /\ mappings' \in [Mappings -> MappingRows \cup {Absent}]
        BY <1>t, <2>2 DEF Tables
      <3>2. \A m \in Mappings : mappings'[m] # Absent => db'[mappings'[m].channel] # Absent
        BY <1>t, <2>3, <2>4 DEF Tables, MappingRows
      <3> QED
        BY <3>1, <3>2 DEF Tables
    <2>6. \A c \in Channels \ touched' : db'[c] = db[c] /\ Models(c)' = Models(c)
      <3> SUFFICES ASSUME NEW c \in Channels \ touched'
                   PROVE  db'[c] = db[c] /\ Models(c)' = Models(c)
        OBVIOUS
      <3>1. c # d
        BY <2>2
      <3> QED
        BY <1>t, <2>3, <2>4, <2>5, <3>1, ModelsKept
    <2>7. \A c \in Channels : db'[c] # Absent => db[c] # Absent /\ db'[c].key = db[c].key
      BY <2>3
    <2>8. touched \subseteq touched' /\ touched' \subseteq Channels
      BY <1>t, <2>2
    <2> QED
      BY <2>1, <2>2, <2>5, <2>6, <2>7, <2>8, TableChange
  <1> QED
    BY <1>1, <1>2, <1>3 DEF ChannelStep

LEMMA KeyStepOK ==
  ASSUME AdminInv, NEW h \in Handlers, KeyStep(h)
  PROVE  AdminInv'
  <1>t. /\ HandlerOK(adm[h]) /\ fresh \in BOOLEAN /\ resting \subseteq Channels
        /\ calls \in 0..MaxCalls /\ HandlersOK
    BY DEF AdminInv, Shapes, Shared, Histories, HandlersOK
  <1>g. ASSUME NEW p \in ProbeStages, Goto(h, p), adm[h].pc \in ProbeStages,
               UNCHANGED <<db, mappings, snap, keymap, resting, touched, calls, fresh, keyed>>
        PROVE  AdminInv'
    <2> DEFINE a == [adm[h] EXCEPT !.pc = p]
    <2>1. HandlerOK(a) /\ a.pc = p
      BY <1>g, <1>t, GoneOnOK DEF ProbeStages
    <2>2. adm' = [adm EXCEPT ![h] = a]
      BY <1>g, <1>t DEF Goto, HandlersOK
    <2> HIDE DEF a
    <2> QED
      BY <1>g, <1>t, <2>1, <2>2, QuietMove DEF ProbeStages, Reloading
  <1>1. ASSUME NEW c \in Channels, ProbeChannelHandler(h, c) PROVE AdminInv'
    <2> DEFINE a == [Idle EXCEPT !.pc = "get", !.op = "probe", !.channel = c]
    <2>1. HandlerOK(a) /\ a.pc = "get"
      <3>1. /\ a \in HandlerStates /\ a.pc = "get" /\ a.todo = {} /\ a.built = EmptySnap
            /\ a.channel = c
        BY IdleOK DEF HandlerOK, HandlerStates, Stages
      <3> HIDE DEF a
      <3> QED
        BY <3>1, BegunOK DEF ProbeStages
    <2>2. /\ adm' = [adm EXCEPT ![h] = a] /\ adm[h].pc = "idle" /\ calls' \in 0..MaxCalls
          /\ UNCHANGED <<db, mappings, snap, keymap, resting, touched, fresh, keyed>>
      BY <1>1, <1>t DEF ProbeChannelHandler, Begin
    <2> HIDE DEF a
    <2> QED
      BY <1>t, <2>1, <2>2, QuietMove DEF Reloading
  <1>2. ASSUME GetChannel(h) PROVE AdminInv'
    <2>1. CASE Finish(h)
      BY <1>2, <1>t, <2>1, EndStep DEF GetChannel, Reloading
    <2>2. CASE \E p \in {"no_probe", "models"} : Goto(h, p)
      BY <1>2, <1>g, <2>2 DEF GetChannel, ProbeStages
    <2> QED
      BY <1>2, <2>1, <2>2 DEF GetChannel
  <1>3. ASSUME FindCheapestModel(h) PROVE AdminInv'
    BY <1>3, <1>g DEF FindCheapestModel, ProbeStages
  <1>4. ASSUME MarkKeyless(h) \/ ProbeHealthy(h) \/ ProbeUnhealthy(h) \/ ProbeImpossible(h)
        PROVE  AdminInv'
    <2>1. /\ Finish(h) /\ adm[h].pc \in ProbeStages
          /\ UNCHANGED <<db, mappings, snap, keymap, touched, calls, fresh, keyed>>
          /\ resting' \subseteq resting \cup {adm[h].channel}
      BY <1>4 DEF MarkKeyless, ProbeHealthy, ProbeUnhealthy, ProbeImpossible, ProbeStages
    <2>2. resting' \subseteq Channels
      BY <1>t, <2>1 DEF HandlerOK
    <2> QED
      BY <1>t, <2>1, <2>2, EndStep DEF ProbeStages, Reloading
  <1> QED
    BY <1>1, <1>2, <1>3, <1>4, SetKeyStep, PublishStep DEF KeyStep

LEMMA MappingStepOK ==
  ASSUME AdminInv, NEW h \in Handlers, MappingStep(h)
  PROVE  AdminInv'
  <1>t. /\ HandlerOK(adm[h]) /\ fresh \in BOOLEAN /\ resting \subseteq Channels
        /\ touched \subseteq Channels /\ Tables /\ calls \in 0..MaxCalls /\ HandlersOK
    BY DEF AdminInv, Shapes, Shared, Histories, HandlersOK
  <1>1. ASSUME NEW m \in Mappings, NEW row \in MappingRows, Begin(h),
               adm' = [adm EXCEPT ![h] = [Idle EXCEPT !.pc = "upsert", !.op = "mapping",
                                                      !.mapping = m, !.data = row]],
               UNCHANGED <<db, mappings, snap, keymap, resting, touched, fresh, keyed>>
        PROVE  AdminInv'
    <2> DEFINE a == [Idle EXCEPT !.pc = "upsert", !.op = "mapping", !.mapping = m,
                                 !.data = row]
    <2>1. HandlerOK(a) /\ a.pc = "upsert"
      <3>1. /\ a \in HandlerStates /\ a.pc = "upsert" /\ a.todo = {} /\ a.built = EmptySnap
            /\ a.mapping = m /\ a.data = row
        BY IdleOK DEF HandlerOK, HandlerStates, Stages
      <3> HIDE DEF a
      <3> QED
        BY <3>1, BegunOK DEF ProbeStages
    <2>2. adm' = [adm EXCEPT ![h] = a] /\ adm[h].pc = "idle" /\ calls' \in 0..MaxCalls
      BY <1>1, <1>t DEF Begin
    <2> HIDE DEF a
    <2> QED
      BY <1>1, <1>t, <2>1, <2>2, QuietMove DEF Reloading
  <1>2. ASSUME NEW m \in Mappings, NEW row \in NewMappings, CreateModelMapping(h, m, row)
        PROVE  AdminInv'
    BY <1>1, <1>2 DEF CreateModelMapping
  <1>3. ASSUME NEW m \in Mappings, NEW body \in MappingBodies, UpdateModelMapping(h, m, body)
        PROVE  AdminInv'
    <2>1. Merge(mappings[m], body) \in MappingRows
      BY <1>3, <1>t, MergeMapping DEF UpdateModelMapping, Tables
    <2> QED
      BY <1>1, <1>3, <2>1 DEF UpdateModelMapping
  <1>4. ASSUME UpsertMapping(h) PROVE AdminInv'
    <2> DEFINE m == adm[h].mapping
               row == adm[h].data
    <2>0. /\ adm[h].pc = "upsert" /\ m \in Mappings /\ row \in MappingRows
          /\ row.channel \in Channels
          /\ UNCHANGED <<db, snap, keymap, resting, calls, keyed>>
      BY <1>4, <1>t DEF UpsertMapping, HandlerOK, MappingRows
    <2>1. CASE db[row.channel] = Absent
      <3>1. Finish(h) /\ UNCHANGED <<mappings, touched, fresh>>
        BY <1>4, <2>1 DEF UpsertMapping
      <3> QED
        BY <1>t, <2>0, <3>1, EndStep DEF Reloading
    <2>2. CASE db[row.channel] # Absent
      <3> DEFINE a == [adm[h] EXCEPT !.pc = "list"]
      <3>1. /\ mappings' = [mappings EXCEPT ![m] = row] /\ Outdates(h)
            /\ touched' = touched \cup {row.channel} \cup
                 (IF mappings[m] # Absent THEN {mappings[m].channel} ELSE {})
            /\ adm' = [adm EXCEPT ![h] = a]
        BY <1>4, <1>t, <2>2 DEF UpsertMapping, Goto, HandlersOK
      <3>2. HandlerOK(a) /\ a.pc = "list"
        BY <1>t, <2>0, GoneOnOK
      <3> HIDE DEF a
      <3>3. /\ mappings'[m] = row /\ \A n \in Mappings \ {m} : mappings'[n] = mappings[n]
            /\ mappings' \in [Mappings -> MappingRows \cup {Absent}]
        BY <1>t, <2>0, <3>1 DEF Tables
      <3>4. Tables'
        BY <1>t, <2>0, <2>2, <3>3 DEF Tables
      <3>5. mappings[m] # Absent => mappings[m].channel \in Channels
        BY <1>t, <2>0 DEF Tables, MappingRows
      <3>6. \A c \in Channels \ touched' : db'[c] = db[c] /\ Models(c)' = Models(c)
        <4> SUFFICES ASSUME NEW c \in Channels \ touched'
                     PROVE  db'[c] = db[c] /\ Models(c)' = Models(c)
          OBVIOUS
        <4>1. row.channel # c /\ (mappings[m] # Absent => mappings[m].channel # c)
          BY <3>1
        <4>2. \A n \in Mappings :
                \/ mappings'[n] = mappings[n]
                \/ /\ mappings[n] # Absent => mappings[n].channel # c
                   /\ mappings'[n] # Absent => mappings'[n].channel # c
          BY <3>3, <4>1
        <4> QED
          BY <1>t, <2>0, <3>4, <4>2, ModelsKept
      <3>7. \A c \in Channels : db'[c] # Absent => db[c] # Absent /\ db'[c].key = db[c].key
        BY <2>0
      <3>8. /\ touched \subseteq touched' /\ touched' \subseteq Channels
            /\ calls' \in 0..MaxCalls /\ adm[h].pc \notin {"keymap", "mappings"}
        BY <1>t, <2>0, <3>1, <3>5
      <3> QED
        BY <2>0, <3>1, <3>2, <3>4, <3>6, <3>7, <3>8, TableChange
    <2> QED
      BY <2>1, <2>2
  <1>5. ASSUME NEW m \in Mappings, DeleteModelMapping(h, m) PROVE AdminInv'
    <2> DEFINE a == [Idle EXCEPT !.pc = "list", !.op = "mapping"]
    <2>1. HandlerOK(a) /\ a.pc = "list"
      <3>1. /\ a \in HandlerStates /\ a.pc = "list" /\ a.todo = {} /\ a.built = EmptySnap
        BY IdleOK DEF HandlerOK, HandlerStates, Stages
      <3> HIDE DEF a
      <3> QED
        BY <3>1, BegunOK DEF ProbeStages
    <2>2. /\ adm' = [adm EXCEPT ![h] = a] /\ adm[h].pc = "idle" /\ calls' \in 0..MaxCalls
          /\ mappings[m] # Absent /\ mappings' = [mappings EXCEPT ![m] = Absent]
          /\ touched' = touched \cup {mappings[m].channel} /\ Outdates(h)
          /\ UNCHANGED <<db, snap, keymap, resting, keyed>>
      BY <1>5, <1>t DEF DeleteModelMapping, Begin
    <2> HIDE DEF a
    <2>3. /\ mappings'[m] = Absent /\ \A n \in Mappings \ {m} : mappings'[n] = mappings[n]
          /\ mappings' \in [Mappings -> MappingRows \cup {Absent}]
      BY <1>t, <2>2 DEF Tables
    <2>4. Tables'
      BY <1>t, <2>2, <2>3 DEF Tables
    <2>5. \A c \in Channels \ touched' : db'[c] = db[c] /\ Models(c)' = Models(c)
      <3> SUFFICES ASSUME NEW c \in Channels \ touched'
                   PROVE  db'[c] = db[c] /\ Models(c)' = Models(c)
        OBVIOUS
      <3>1. \A n \in Mappings : \/ mappings'[n] = mappings[n]
                                \/ /\ mappings[n] # Absent => mappings[n].channel # c
                                   /\ mappings'[n] # Absent => mappings'[n].channel # c
        BY <2>2, <2>3
      <3> QED
        BY <1>t, <2>2, <2>4, <3>1, ModelsKept
    <2>6. \A c \in Channels : db'[c] # Absent => db[c] # Absent /\ db'[c].key = db[c].key
      BY <2>2
    <2>7. touched \subseteq touched' /\ touched' \subseteq Channels
      BY <1>t, <2>2 DEF Tables, MappingRows
    <2> QED
      BY <2>1, <2>2, <2>4, <2>5, <2>6, <2>7, TableChange
  <1> QED
    BY <1>2, <1>3, <1>4, <1>5 DEF MappingStep

\* Nothing happens, or the health map alone changes.
LEMMA RestingOnly ==
  ASSUME AdminInv, resting' \subseteq Channels,
         UNCHANGED <<db, mappings, snap, keymap, adm, touched, calls, fresh, keyed>>
  PROVE  AdminInv'
  <1>1. \A c \in Channels : Stored(c)' = Stored(c)
    BY StoredKept
  <1>2. Shapes'
    BY DEF AdminInv, Shapes, Tables, Shared, Histories, HandlersOK
  <1>3. UntouchedInv'
    BY <1>1 DEF AdminInv, UntouchedInv, Faithful, Routable
  <1>4. FreshInv'
    BY <1>1 DEF AdminInv, FreshInv, Current, Reloading
  <1>5. KeyInv'
    BY DEF AdminInv, KeyInv, KeyInForce, KeyAsListed, Publishes
  <1> QED
    BY <1>2, <1>3, <1>4, <1>5 DEF AdminInv

\* The invariant is inductive.
LEMMA AdminInvariant == Spec => []AdminInv
  <1>1. AdminInv /\ [Next]_vars => AdminInv'
    <2> SUFFICES ASSUME AdminInv, [Next]_vars PROVE AdminInv'
      OBVIOUS
    <2>r. resting \subseteq Channels
      BY DEF AdminInv, Shapes, Shared
    <2>1. CASE Restart
      BY <2>1, RestartStep
    <2>2. ASSUME NEW c \in Channels, CooldownEnds(c) PROVE AdminInv'
      <3>1. /\ resting' \subseteq Channels
            /\ UNCHANGED <<db, mappings, snap, keymap, adm, touched, calls, fresh, keyed>>
        BY <2>2, <2>r DEF CooldownEnds
      <3> QED
        BY <3>1, RestingOnly
    <2>3. ASSUME NEW h \in Handlers, ReloadStep(h) PROVE AdminInv'
      BY <2>3, ListStep, MappingsStep, SwapStep DEF ReloadStep
    <2>4. ASSUME NEW h \in Handlers, StorageError(h) PROVE AdminInv'
      BY <2>4, StorageErrorStep
    <2>9. ASSUME NEW h \in Handlers, ClientGone(h) PROVE AdminInv'
      BY <2>9, ClientGoneStep
    <2>5. ASSUME NEW h \in Handlers, ChannelStep(h) PROVE AdminInv'
      BY <2>5, ChannelStepOK
    <2>6. ASSUME NEW h \in Handlers, KeyStep(h) PROVE AdminInv'
      BY <2>6, KeyStepOK
    <2>7. ASSUME NEW h \in Handlers, MappingStep(h) PROVE AdminInv'
      BY <2>7, MappingStepOK
    <2>8. CASE UNCHANGED vars
      BY <2>8, <2>r, RestingOnly DEF vars
    <2> QED
      BY <2>1, <2>2, <2>3, <2>4, <2>5, <2>6, <2>7, <2>8, <2>9 DEF Next
  <1> QED
    BY <1>1, InitStep, PTL DEF Spec

-----------------------------------------------------------------------------
(* Theorems *)

\* The tables, the snapshot, the overrides and every handler in flight keep their
\* types, and the foreign key holds: delete_channel's cascade and upsert_mapping's
\* refusal leave no mapping without its channel.
THEOREM AdminTypes == Spec => []TypeOK
  <1>1. AdminInv => TypeOK
    BY DEF AdminInv, Shapes, Tables, Shared, Histories, HandlersOK, HandlerOK,
           HandlerStates, TypeOK
  <1> QED
    BY <1>1, AdminInvariant, PTL

\* A channel that no admin request changed is routed as it is stored at every moment,
\* whatever reloads of other handlers overlap, fail half-way or are cut off by a
\* restart.
THEOREM UntouchedServed == Spec => []UntouchedChannelServed
  <1>1. AdminInv => UntouchedChannelServed
    <2> SUFFICES ASSUME AdminInv, NEW c \in Channels \ touched
                 PROVE  snap[c] = Stored(c) /\ (Routable(db[c]) => RouterKey(c) = db[c].key)
      BY DEF UntouchedChannelServed
    <2>1. snap[c] = Stored(c) /\ (Routable(db[c]) => keymap[c] = db[c].key)
      BY DEF AdminInv, UntouchedInv
    <2>2. Routable(db[c]) => snap[c] # Absent /\ snap[c].key = db[c].key
      BY <2>1, StoredType DEF AdminInv, Shapes
    <2> QED
      BY <2>1, <2>2 DEF RouterKey
  <1> QED
    BY <1>1, AdminInvariant, PTL

\* Snapshot rows that differ at most in the key have the same configuration.
LEMMA SameConfig ==
  ASSUME NEW r \in SnapRows \cup {Absent}, NEW s \in SnapRows \cup {Absent}, SameSnap(r, s)
  PROVE  Config(r) = Config(s)
  BY DEF SameSnap, SameRow, Config, SnapRows

\* "changes take effect immediately": with no request in flight and no reload that
\* failed or was outdated by a change of the tables under it, the router works on
\* what the tables say, but for the keys.
THEOREM SnapshotsCurrent == Spec => []SnapshotCurrent
  <1>1. AdminInv => SnapshotCurrent
    <2> SUFFICES ASSUME AdminInv, Quiet, fresh, NEW c \in Channels
                 PROVE  Config(snap[c]) = Config(Stored(c))
      BY DEF SnapshotCurrent
    <2>1. SameSnap(snap[c], Stored(c))
      BY DEF AdminInv, FreshInv, Quiet, Reloading
    <2>2. snap[c] \in SnapRows \cup {Absent} /\ Stored(c) \in SnapRows \cup {Absent}
      BY StoredType DEF AdminInv, Shapes, Shared
    <2> QED
      BY <2>1, <2>2, SameConfig
  <1> QED
    BY <1>1, AdminInvariant, PTL

\* set_channel_api_key: with no request in flight, a channel that has a key is used
\* with the stored one, however the updates, reloads and restarts interleaved, unless
\* two updates of that key overlapped.
THEOREM NewKeysTakeEffect == Spec => []NewKeyTakesEffect
  <1>1. AdminInv => NewKeyTakesEffect
    <2> SUFFICES ASSUME AdminInv, Quiet, fresh, NEW c \in keyed, Routable(db[c]),
                        db[c].key # NoKey
                 PROVE  RouterKey(c) = db[c].key
      BY DEF NewKeyTakesEffect
    <2>0. c \in Channels
      BY DEF AdminInv, Shapes, Histories
    <2>1. SameSnap(snap[c], Stored(c)) /\ Stored(c) # Absent
      BY <2>0, StoredType DEF AdminInv, Shapes, FreshInv, Quiet, Reloading
    <2>2. snap[c] # Absent
      BY <2>1 DEF SameSnap, SameRow
    <2>3. KeyInForce(c)
      BY DEF AdminInv, KeyInv, Quiet, Publishes, Routable
    <2> QED
      BY <2>2, <2>3 DEF KeyInForce, RouterKey
  <1> QED
    BY <1>1, AdminInvariant, PTL

=============================================================================
