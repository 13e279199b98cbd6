---------------------------- MODULE ModelRouter ----------------------------
(***************************************************************************)
(* The model-router middleware (crates/model-router/src/lib.rs): channel   *)
(* selection by billing, priority, health and quota when a request goes    *)
(* out, passive health and quota accounting when its response comes back.  *)
(* Requests run concurrently on a multi-threaded runtime and share the     *)
(* maps without a common lock: each candidate the selection loop examines  *)
(* is a step of its own, and so is each of the two updates of on_response. *)
(*                                                                         *)
(* A channel snapshot (ArcSwap<Vec<ResolvedChannel>>) is a sequence of     *)
(* rows, one per channel and mapping, in snapshot order.  A missing entry  *)
(* of the health or quota map behaves as the default entry the code        *)
(* inserts, so both maps are total functions.                              *)
(*                                                                         *)
(* The admin API holds the same objects.  Its writes to them are actions   *)
(* here, one by one and at any moment; the handlers around those writes    *)
(* are in ChannelAdmin.                                                    *)
(***************************************************************************)
EXTENDS ChannelHealth, ProtocolRouting, FiniteSets

CONSTANTS ChannelIds, ChannelNames,  \* both are keys of the health map
          NoName,                    \* an empty channel name
          Keys, NoKey,               \* API keys; NoKey: absent or empty
          Mappings, Models, NoModel, \* NoModel: no usable "model" in the body
          Requests,                  \* concurrency slots
          Catalogs,                  \* the snapshots that may be installed
          TokenCounts,               \* token totals found in a response body
          UpstreamStatuses,          \* what the upstreams may answer
          ClientFormats,             \* API formats the clients speak
          UsageCap,                  \* usage counters saturate here
          MaxMonth,                  \* months the model lives through
          AdminWrites,               \* what the admin API writes
          MaxEdits                   \* and how often

Quotas == [kind : {"unlimited", "requests", "tokens"}, per_month : Nat]

Rows == [channel_id : ChannelIds, channel_name : ChannelNames,
         api_key : Keys \cup {NoKey}, enabled : BOOLEAN, priority : Nat,
         force_protocol : STRING,
         protocols : Seq([protocol : STRING, has_url : BOOLEAN]),
         mapping_id : Mappings, client_name : Models,
         billing : {"metered", "flatfee"}, quota : Quotas,
         on_exhausted : {"fallback_to_metered", "block"},
         allowed_protocols : SUBSET STRING]

\* The classes of HTTP status that on_response tells apart.
Statuses == {"ok", "client_error", "unauthorized", "rate_limited", "server_error"}

ASSUME CatalogAssumption == \A cat \in Catalogs : cat \in Seq(Rows)
ASSUME KeyAssumption == NoKey \notin Keys
ASSUME ModelAssumption == NoModel \notin Models
ASSUME SlotAssumption == IsFiniteSet(Requests) /\ Requests # {}
ASSUME InputAssumption == /\ TokenCounts \subseteq Nat
                          /\ UsageCap \in Nat
                          /\ MaxMonth \in Nat /\ MaxEdits \in Nat
                          /\ AdminWrites \subseteq {"snapshot", "key", "health"}
                          /\ UpstreamStatuses \subseteq Statuses
                          /\ ClientFormats \subseteq ApiFormats

VARIABLES channels,  \* the installed snapshot
          keys,      \* channel_api_keys, the override map
          health,    \* channel key -> ChannelState
          quota,     \* mapping id -> QuotaUsage
          month,     \* current_month_key()
          req,       \* the requests in flight
          edits      \* how often the admin API wrote to the first three

\* What the router only reads.
admin == <<channels, keys, edits>>

vars == <<admin, health, quota, month, req>>

HealthKeys == ChannelIds \cup ChannelNames

Usages == [requests : 0..UsageCap, tokens : 0..UsageCap, month : 0..MaxMonth]

\* The three loops of select_channel; a candidate in a loop is a pair of the
\* loop and the row's index in the snapshot.
Loops == {"flat", "metered", "any"}

\* pc "scan": in select_channel, on the snapshot rows, with left still to be
\* examined; "picked": row is chosen; "sent": forwarded with key; "quota" and
\* "health": before the first and the second half of on_response.
Idle == [pc |-> "idle", format |-> "none", rows |-> <<>>, left |-> {},
         row |-> <<>>, key |-> NoKey, status |-> "ok"]

RequestStates ==
  [pc : {"idle", "scan", "picked", "sent", "quota", "health"},
   format : ApiFormats \cup {"none"},
   rows : Catalogs \cup {<<>>}, left : SUBSET (Loops \X Nat),
   row : Rows \cup {<<>>}, key : Keys \cup {NoKey}, status : Statuses]

-----------------------------------------------------------------------------
(* QuotaUsage *)

Add(n, k) == IF n + k < UsageCap THEN n + k ELSE UsageCap

NewUsage == [requests |-> 0, tokens |-> 0, month |-> 0]

\* maybe_reset
MaybeReset(u) == IF u.month = month THEN u
                 ELSE [requests |-> 0, tokens |-> 0, month |-> month]

\* record_usage
RecordUsage(u, tokens) ==
  LET v == MaybeReset(u)
  IN  [v EXCEPT !.requests = Add(@, 1), !.tokens = Add(@, tokens)]

\* Mutant: the request that reaches the limit is not the last.
IsWithinQuotaInclusive(u, q) ==
  \/ q.kind = "unlimited"
  \/ q.kind = "requests" /\ u.requests <= q.per_month
  \/ q.kind = "tokens" /\ u.tokens <= q.per_month

\* is_within_quota: the counter as it is, of whatever month.
IsWithinQuota(u, q) ==
  \/ q.kind = "unlimited"
  \/ q.kind = "requests" /\ u.requests < q.per_month
  \/ q.kind = "tokens" /\ u.tokens < q.per_month

-----------------------------------------------------------------------------
(* Selection *)

\* find_candidates: the enabled rows of the model, by their place in the snapshot.
FindCandidates(rows, model) ==
  {i \in DOMAIN rows : rows[i].enabled /\ rows[i].client_name = model}

\* What the loops will go through: the partition by billing, then everything.
Candidates(rows, model) ==
  LET cands == FindCandidates(rows, model)
  IN  {<<"flat", i>> : i \in {j \in cands : rows[j].billing = "flatfee"}}
      \cup {<<"metered", i>> : i \in {j \in cands : rows[j].billing = "metered"}}
      \cup {<<"any", i>> : i \in cands}

\* Mutant: the metered loop before the flat-fee loop.
ComesBeforeMeteredFirst(rows, c, d) ==
  \/ <<c[1], d[1]>> \in {<<"metered", "flat">>, <<"flat", "any">>, <<"metered", "any">>}
  \/ c[1] = d[1] /\ c[2] < d[2]

\* The order of examination: flat-fee, metered, any.  The first two loops run
\* over lists sorted by Reverse(priority) with a stable sort, so equal
\* priorities keep the snapshot order; the third runs in snapshot order.
ComesBefore(rows, c, d) ==
  LET p == rows[c[2]].priority
      q == rows[d[2]].priority
  IN  \/ <<c[1], d[1]>> \in {<<"flat", "metered">>, <<"flat", "any">>, <<"metered", "any">>}
      \/ c[1] = d[1] /\ c[1] # "any" /\ (p > q \/ (p = q /\ c[2] < d[2]))
      \/ c[1] = "any" /\ d[1] = "any" /\ c[2] < d[2]

\* The candidate request r examines next.
Examines(r, c) ==
  /\ req[r].pc = "scan"
  /\ c \in req[r].left
  /\ \A d \in req[r].left \ {c} : ComesBefore(req[r].rows, c, d)

\* has_api_key: the override map, else the snapshot installed now.
HasApiKey(id) ==
  \/ keys[id] # NoKey
  \/ \E i \in DOMAIN channels : channels[i].channel_id = id /\ channels[i].api_key # NoKey

\* is_healthy and is_tryable_past_cooldown: the same test under two names.
IsHealthy(id) == IsTryablePastCooldown(health[id])

WithinQuota(row) == IsWithinQuota(quota[row.mapping_id], row.quota)

\* The loop body returns Ok for this row ...
Accepts(loop, row) ==
  /\ HasApiKey(row.channel_id)
  /\ IsHealthy(row.channel_id)
  /\ loop = "flat" => WithinQuota(row)

\* ... or gives the whole selection up.
Blocks(loop, row) ==
  /\ loop = "flat"
  /\ HasApiKey(row.channel_id)
  /\ IsHealthy(row.channel_id)
  /\ ~WithinQuota(row)
  /\ row.on_exhausted = "block"

-----------------------------------------------------------------------------
(* Actions *)

\* from_storage: no health entry, no usage, the keys of the keyed channels.
Init ==
  /\ channels \in Catalogs
  /\ keys = [id \in ChannelIds |->
       IF \E i \in DOMAIN channels : channels[i].channel_id = id
       THEN channels[CHOOSE i \in DOMAIN channels : channels[i].channel_id = id].api_key
       ELSE NoKey]
  /\ health = [k \in HealthKeys |-> NewState]
  /\ quota = [m \in Mappings |-> NewUsage]
  /\ month = 0
  /\ req = [r \in Requests |-> Idle]
  /\ edits = 0

\* The client has its answer or its error; the slot is free.
Finish(r) == req' = [req EXCEPT ![r] = Idle]

\* on_request up to select_channel: read the model, load the snapshot, find
\* the candidates.
OnRequest(r, model, format) ==
  /\ req[r].pc = "idle"
  /\ IF model = NoModel \/ FindCandidates(channels, model) = {}
     THEN Finish(r)   \* BadRequest, ChannelSelection
     ELSE req' = [req EXCEPT ![r] = [Idle EXCEPT
                    !.pc = "scan", !.format = format, !.rows = channels,
                    !.left = Candidates(channels, model)]]
  /\ UNCHANGED <<admin, health, quota, month>>

\* One candidate is examined in one step.  The code reads the key map, the health map
\* and the quota map one after the other and holds no lock over them; what another
\* task writes between these reads counts here as written after all of them.
Accept(r, c) ==
  /\ Examines(r, c)
  /\ Accepts(c[1], req[r].rows[c[2]])
  /\ req' = [req EXCEPT ![r] = [Idle EXCEPT !.pc = "picked", !.format = req[r].format,
                                            !.row = req[r].rows[c[2]]]]
  /\ UNCHANGED <<admin, health, quota, month>>

\* A flat-fee mapping with on_exhausted = Block refuses the request.
Block(r, c) ==
  /\ Examines(r, c)
  /\ Blocks(c[1], req[r].rows[c[2]])
  /\ Finish(r)   \* ChannelSelection
  /\ UNCHANGED <<admin, health, quota, month>>

Skip(r, c) ==
  LET row == req[r].rows[c[2]]
  IN  /\ Examines(r, c)
      /\ ~Accepts(c[1], row) /\ ~Blocks(c[1], row)
      /\ req' = [req EXCEPT ![r].left = @ \ {c}]
      /\ UNCHANGED <<admin, health, quota, month>>

\* Every loop ran to its end: ChannelSelection.
NoneLeft(r) ==
  /\ req[r].pc = "scan" /\ req[r].left = {}
  /\ Finish(r)   \* ChannelSelection
  /\ UNCHANGED <<admin, health, quota, month>>

\* The rest of on_request: the protocol and the key of the chosen row (which
\* belongs to the snapshot loaded at the start) go into the context, and the
\* engine forwards the request.
Forward(r) ==
  LET row == req[r].row
  IN  /\ req[r].pc = "picked"
      /\ IF ResolveRoute(row.force_protocol, req[r].format, row.protocols,
                         row.allowed_protocols) = Error
         THEN Finish(r)   \* Internal
         ELSE req' = [req EXCEPT ![r].pc = "sent",
                        ![r].key = IF keys[row.channel_id] # NoKey
                                   THEN keys[row.channel_id] ELSE row.api_key]
      /\ UNCHANGED <<admin, health, quota, month>>

\* The engine gets no usable answer (connection error, timeout, unreadable
\* body), a middleware nearer the upstream fails on it, or the client goes away and
\* the handler is dropped: on_response of the router is not called.
UpstreamFails(r) ==
  /\ req[r].pc = "sent"
  /\ Finish(r)
  /\ UNCHANGED <<admin, health, quota, month>>

\* The response reaches on_response; an empty channel name returns at once.
UpstreamAnswers(r, status) ==
  LET row == req[r].row
  IN  /\ req[r].pc = "sent"
      /\ IF row.channel_name = NoName THEN Finish(r)
         ELSE req' = [req EXCEPT ![r].status = status,
                        ![r].pc = IF row.billing = "flatfee" THEN "quota"
                                                             ELSE "health"]
      /\ UNCHANGED <<admin, health, quota, month>>

\* Mutant: the usage is counted without looking at the month.
RecordQuotaNoReset(r, tokens) ==
  LET m == req[r].row.mapping_id
  IN  /\ req[r].pc = "quota"
      /\ quota' = [quota EXCEPT ![m].requests = Add(@, 1), ![m].tokens = Add(@, tokens)]
      /\ req' = [req EXCEPT ![r].pc = "health"]
      /\ UNCHANGED <<admin, health, month>>

\* on_response, first half: quota_usage.entry(mapping).record_usage(tokens).
RecordQuota(r, tokens) ==
  LET m == req[r].row.mapping_id
  IN  /\ req[r].pc = "quota"
      /\ quota' = [quota EXCEPT ![m] = RecordUsage(quota[m], tokens)]
      /\ req' = [req EXCEPT ![r].pc = "health"]
      /\ UNCHANGED <<admin, health, month>>

AfterStatus(s, status) ==
  CASE status \in {"server_error", "unauthorized"} -> MarkUnhealthy(s)
    [] status = "client_error" -> s
    [] status = "rate_limited" -> MarkRateLimited(s)
    [] status = "ok" -> RecordSuccess(s)

\* on_response, second half: the health entry of the channel's name.
RecordHealth(r) ==
  LET k == req[r].row.channel_name
  IN  /\ req[r].pc = "health"
      /\ health' = [health EXCEPT ![k] = AfterStatus(health[k], req[r].status)]
      /\ Finish(r)
      /\ UNCHANGED <<admin, quota, month>>

\* Time: failed_at.elapsed() grows.
Tick ==
  /\ \E k \in HealthKeys : Cooling(health[k])
  /\ health' = [k \in HealthKeys |-> Age(health[k])]
  /\ UNCHANGED <<admin, quota, month, req>>

\* The calendar month changes.
NextMonth ==
  /\ month < MaxMonth
  /\ month' = month + 1
  /\ UNCHANGED <<admin, health, quota, req>>

-----------------------------------------------------------------------------
(* The admin API's writes to what it shares with the router *)

Edit(what) == what \in AdminWrites /\ edits < MaxEdits /\ edits' = edits + 1

\* reload_channels_from_storage: the swap.
SwapChannels(cat) ==
  /\ Edit("snapshot")
  /\ channels' = cat
  /\ UNCHANGED <<keys, health, quota, month, req>>

\* set_channel_api_key: api_key_map.insert, or remove for an empty key.
PublishKey(id, key) ==
  /\ Edit("key")
  /\ keys' = [keys EXCEPT ![id] = key]
  /\ UNCHANGED <<channels, health, quota, month, req>>

\* A probe that ends well: health_map.remove.
ProbeHealthy(id) ==
  /\ Edit("health")
  /\ health' = [health EXCEPT ![id] = NewState]
  /\ UNCHANGED <<channels, keys, quota, month, req>>

\* A probe that ends otherwise, or a key that is cleared: mark_unhealthy.
ProbeUnhealthy(id) ==
  /\ Edit("health")
  /\ health' = [health EXCEPT ![id] = MarkUnhealthy(@)]
  /\ UNCHANGED <<channels, keys, quota, month, req>>

AdminStep ==
  \/ \E cat \in Catalogs : SwapChannels(cat)
  \/ \E id \in ChannelIds : \/ \E key \in Keys \cup {NoKey} : PublishKey(id, key)
                            \/ ProbeHealthy(id)
                            \/ ProbeUnhealthy(id)

-----------------------------------------------------------------------------

SelectStep(r) ==
  \/ \E c \in req[r].left : Accept(r, c) \/ Block(r, c) \/ Skip(r, c)
  \/ NoneLeft(r)

ResponseStep(r) ==
  \/ UpstreamFails(r)
  \/ \E status \in UpstreamStatuses : UpstreamAnswers(r, status)
  \/ \E tokens \in TokenCounts : RecordQuota(r, tokens)
  \/ RecordHealth(r)

RequestStep(r) ==
  \/ \E model \in Models \cup {NoModel}, format \in ClientFormats : OnRequest(r, model, format)
  \/ SelectStep(r)
  \/ Forward(r)
  \/ ResponseStep(r)

Next == Tick \/ NextMonth \/ AdminStep \/ \E r \in Requests : RequestStep(r)

Spec == Init /\ [][Next]_vars

\* Time passes; a request in the proxy runs on, and the engine's HTTP client
\* ends the wait for the upstream by its timeout.  Nothing is assumed of the
\* clients, of the administrators or of what the upstream answers.
Fairness ==
  /\ WF_vars(Tick)
  /\ \A r \in Requests : WF_vars(SelectStep(r) \/ Forward(r) \/ ResponseStep(r))

FairSpec == Spec /\ Fairness

-----------------------------------------------------------------------------
(* Properties *)

\* The shared maps and the requests keep their types; an entry of the health
\* map is aged up to its own cooldown and no further.
TypeOK ==
  /\ channels \in Catalogs
  /\ keys \in [ChannelIds -> Keys \cup {NoKey}]
  /\ health \in [HealthKeys -> ChannelStates]
  /\ \A k \in HealthKeys : health[k].elapsed \in -1..EffectiveCooldown(health[k])
  /\ quota \in [Mappings -> Usages]
  /\ month \in 0..MaxMonth
  /\ req \in [Requests -> RequestStates]
  /\ \A r \in Requests :
       /\ \A c \in req[r].left : c[2] \in DOMAIN req[r].rows
       /\ req[r].pc \in {"picked", "sent", "quota", "health"} => req[r].row \in Rows
  /\ edits \in 0..MaxEdits

Chooses(r) == req[r].pc = "scan" /\ req'[r].pc = "picked"

\* No channel is excluded forever: a channel in cooldown becomes tryable again,
\* whatever requests still in flight report about it meanwhile, once the admin API
\* no longer marks it.
ChannelRecovers ==
  \A id \in ChannelIds : ~IsHealthy(id) ~> IsHealthy(id)

=============================================================================
