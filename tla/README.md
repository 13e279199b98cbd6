# A TLA+ verification project for agent-proxy-rust

agent-proxy-rust is a local HTTP proxy for coding agents. It accepts requests in
three API formats (Anthropic Messages, OpenAI Chat, OpenAI Responses), picks an
upstream channel for the requested model, converts between formats, records what
the request cost, and has an admin API that changes channels while requests run.
This directory models the parts whose correctness depends on order, concurrency
or failure, checks them with TLC on small instances, and proves the safety properties of the
passing runs with TLAPS for every size. `PROJECT.json` maps every definition to the
lines it models.

## 1. The system

| Component | State | Operations | Hard because |
|---|---|---|---|
| Model router (`crates/model-router`) | channel snapshot (`ArcSwap`), key map, health map, quota map | `on_request`: find candidates, select, settle the protocol; `on_response`: quota, then health | requests share the maps without a common lock; selection reads them candidate by candidate; time and months pass |
| Circuit breaker (`crates/resilience`) | one circuit per channel | `on_request` admits or rejects, `on_response` counts | responses arrive long after their admission, in any order |
| Rate limiter, retry (`crates/resilience`) | token buckets / none | consume, refill / turn a status into an error | refilled only when asked; the order of registration decides who hears of a failure |
| Admin API and health probe (`apps/server`) | the tables, the shared maps and the snapshot | update, delete, set key, probe, mapping create/update/delete, failure, healthy, seed refresh | each handler awaits several times between reading and publishing |
| SQLite storage (`crates/storage-sqlite`) | tables | one statement after another on pooled connections | no transactions |
| Seed data (`storage-sqlite/src/seed.rs`) | tables and `seed_metadata` | init, refresh entry by entry | partial failure, crash |
| Engine and middleware chain (`crates/core`) | the request's context | chain, upstream, chain backwards, cost | an error in one hook decides what the others see |
| Bridge (`crates/bridge`) | none | convert request, response, stream | three formats settled by three components |
| Cost recorder (`crates/cost`) and cost endpoints (`apps/server`) | `cost_records` | extract the usage, price it, insert; page, sum up, prune | the price may be edited while a request runs; rows are inserted late, pages move, days are local |
| Model aliases (`storage-sqlite`, `core/src/middleware.rs`, `main.rs`) | `model_aliases`, a map made at start-up | migrate, list, upsert, delete, replace the model name | statements of a migration commit one by one; edits come from an old list |
| Tokenless report reader (`core/src/report.rs`) | a file per session, an in-memory cursor | hook appends; the proxy reads and advances | file read and cursor lock are two steps |
| Compress, configuration, authentication | switches and tables read once | pass through | - |

How they interact: `main.rs` registers compress, alias, router, bridge in this
order; requests run through them forwards and responses backwards. The router
hands the channel, the mapping and the target protocol to the bridge and the
recorder through the request's context. The admin API shares three objects with
the router: the snapshot, the key map and the health map. The storage is the only
state that survives a restart.

What makes each correct, in one line: the router never uses a channel that must
rest and never passes over a better usable one; a circuit always decides and is
never stuck; the router's snapshot and keys follow the tables; the stored health
follows the stored count; each reported saving is given to exactly one request
and recorded once; the stored seed version promises no more than the tables hold;
both ends of the proxy get their own protocol, and the router and the recorder
hear of every answer; a bucket gives out exactly what time earned it; every cost
record can be audited from itself and shows up in every report it belongs to; a
deleted alias stays deleted.

## 2. Modules

| Module | Models | State | Actions |
|---|---|---|---|
| `CircuitBreaker` | `circuit_breaker.rs` | `circuits`, `req` | both hooks, split by outcome; `Abandon` (the upstream never answers, so `on_response` does not run); `Tick` |
| `RateLimiter` | `TokenBucket` of `rate_limiter.rs` | `buckets` | operators |
| `TokenCredit` | - | `credit` | abstract specification: a credit that grows with the clock alone and pays for what is admitted |
| `Resilience` | the three resilience middlewares in one chain; extends `CircuitBreaker` and `RateLimiter` | + `chain`, `stage`; history `recent` | one action per hook and outcome; `Start`, `UpstreamAnswers`, `UpstreamFails`, `RTick` |
| `ChannelHealth` | `ChannelState` and the cooldowns in `types.rs` | - | operators |
| `ProtocolRouting` | choice of the target protocol and URL | - | operators |
| `ModelRouter` | `ModelRouterMiddleware`, and the admin API's writes to what it shares | `channels`, `keys`, `edits`, `health`, `quota`, `month`, `req` | `OnRequest`; `Accept`, `Block`, `Skip` per candidate and `NoneLeft`; `Forward`; `UpstreamAnswers`, `UpstreamFails`; `RecordQuota`, `RecordHealth`; `Tick`, `NextMonth`; `SwapChannels`, `PublishKey`, `ProbeHealthy`, `ProbeUnhealthy` |
| `ModelRouterHistory` | - | + `verdict`, `written`, `answered`, `steady`, `spilled` | history variables of `ModelRouter`: what was last answered or probed, by channel and by the key it was written under, how much this month, which candidates were usable throughout a selection, and which flat-fee mappings the last loop chose without asking the quota |
| `ChannelAdmin` | admin handlers, probe, reload, storage of channels and mappings | `db`, `mappings`, `snap`, `keymap`, `resting`, `adm`; history `touched`, `fresh`, `keyed` | one action per await-free piece of a handler; `Restart`, `StorageError`, `ClientGone`, `CooldownEnds` |
| `ChannelHealthDb` | the health columns | `row`, `writer`; history `peak`, `alone` | the three statements of `record_channel_failure`, `MarkChannelHealthy`, `DeleteChannel`, `StatementFails` |
| `TokenlessReport` | `consume_report` and its way into `tokens_saved` | `file`, `cursor`, `req`, `saved`; history `handed`, `halved`, `overlapped` | appends (whole or in two halves), `ReadReport`, `ConsumeReport`, `RecordCost`, `RequestFails`, `Restart` |
| `SeedRefresh` | `seed.rs` and its call in `main.rs` | `table`, `hash`, `version`, `boot`, `call`; history `torn`, `older`, `blind`, `overlapped` | the statements of `seed_init` and of `seed_refresh` (rows, hashes, version), one action per early return and failure, reads of the version and of a hash that fail, `Crash` |
| `UsageExtraction` | `extract_usage` and its extractors, `extract_usage_from_sse` | - | operators, and what an honest report is (`Honest`) |
| `Pricing` | `Pricing`, `calc_cost` | - | operators, and a reference definition of the amount |
| `CostLedger` | `record()`, the cost storage and the cost endpoints; extends `Pricing` | `now`, `editions`, `req`, `table`, `reader` | `Route`, `BuildRecord`, `InsertRecord`, `InsertFails`, `EditBilling`, `Prune`, `StartReading`, `ReadPage`, `Tick`; the reports are operators |
| `ModelAliases` | `migrate()`, the alias storage, endpoints and map | `aliasDb`, `start`, `aliasMap`, `screen`; history `told` | the statements of the start-up, `UserVersionUnread`, `PickAlias`, `UpsertAlias`, `DeleteAlias`, `Restart` |
| `ProxyPipeline` | engine, chain, bridge, the hooks of all middlewares; extends `ModelAliases`, `ProtocolRouting`, `UsageExtraction` | one request | one action per hook and direction, one per early return; `Crash` |
| `*Proofs` | - | - | theorems |
| `MC*` | - | - | instances for TLC (`TokenlessReport` needs none) |

`ModelRouter` and `ProxyPipeline` both extend `ProtocolRouting`: the first has
many requests and abstracts the bodies, the second one request and everything
that happens to its body. `ModelRouter` is composed with the admin API through the
three objects they share: the four writes a handler makes to them are actions that
may come between any two steps of a selection, in any order; `ChannelAdmin` has the
handlers around those writes, with their awaits and their tables. `AdminWrites` says which
of the objects an instance lets the administrator write. `ProxyPipeline` is composed with `ModelAliases`: the alias
middleware of a running request reads the map that the start-up made, while the
administrator edits the table and the process crashes. `Resilience` composes the
breaker and the limiter with the chain of `core/src/middleware.rs`; the breaker's
actions are conjuncts of its steps, so a behaviour of the chain is a behaviour
of the breaker (proved, `ChainImplementsBreaker`).

History variables remember what a property needs and no action reads: which
channels an admin request changed (`touched`), whether the last reload saw the
tables as they are (`fresh`), which keys were set without another update of the
key in between and by a request that was not given up (`keyed`), whether the last writer of a health row had it to
itself (`alone`), which report lines were written in halves (`halved`), in which
sessions two requests were between read and cursor at once, or whether two
refreshes ever ran at once (`overlapped`), which seed rows were written by
another file than the one whose hash is stored (`torn`) or by a release below the stored
version (`older`), whether the last start-up or refresh could not read that version
(`blind`), how many requests the
limiter admitted now and in the last k ticks, for each k (`recent`), and which aliases were deleted, which
of them an unread schema version brought back, and whether the table was edited
since the map was made (`told`).

Abstractions worth knowing:

* Time is relative. A circuit or a channel state carries the time elapsed since
  its failure, counted up to its own cooldown and not further: no comparison in
  the code tells longer times apart. `Tick` ages everything at once.
* A missing map entry behaves as the default the code inserts; maps are total.
* A candidate is a pair of the loop of `select_channel` and a row. `ComesBefore`
  is the order in which the three loops visit them, so `Accept` may take a
  candidate only when the earlier ones are done.
* A body is its format and what the next reader can find in it. The conversions
  of `llm_bridge_core` are external: a body of the expected source format turns
  into the target format; any other is an error or garbled. Of the usage a body
  reports a conversion carries each counter over or loses it (`ConvertedReports`);
  what it makes of counters that are not under the format's own names is left open.
* A body with a top-level `error` key is marked so (`res.error`), whatever else it
  is: an error, or a successful answer with `"error": null`.
* A candidate of the selection is examined in one step. `select_channel` reads the
  key map, the health map and the quota map one after the other
  (`model-router/src/lib.rs:287-308`); a write between these reads counts in the
  model as made after them.
* A handler whose client goes away is dropped where it awaits. In `ChannelAdmin` this
  is `ClientGone`. Elsewhere it looks like an exit the models have: a proxied request
  that is dropped before the answer is one the upstream fails (`UpstreamFails`,
  `Abandon`, `UpstreamUnreachable`), one with a share of the report is `RequestFails`,
  a blocking statement on its way is still carried out. `InsertFails` also stands for
  a process that stops before the insert. Between the end of the upstream's answer and
  that insert no hook awaits anything.
* A report line is its operation; a file offset is two per whole line and one for
  a torn tail, which is all the comparisons of `consume_report` tell apart.
* A token of the limiter is `Window` units and a tick earns `MaxRequests` of them,
  so fractions of a token are integers.
* Prices are whole numbers per million tokens and amounts are quarters of a
  millionth: the division by a million and the factor 0.75 stay exact. Rounding of
  `f64` is left out.
* A usage object is a function from the keys it has to numbers; a stream is the
  sequence of its events. `normalize_sse_format` and the parsing of lines are
  abstracted into the kind of an event.
* The moments of `CostLedger` are a small set of instants on both sides of the
  second, hour and day boundaries of every time zone asked for. RFC 3339 strings
  of UTC times compare as the times do.
* A page of `query_cost_records` is the rows whose rank, the number of newer rows of
  the query, lies in the page: `ORDER BY`, `LIMIT` and `OFFSET` without a sort.
  No two records have the same timestamp, which has nanoseconds.
  `aggregate_costs` sums over sets of rows with the library's `SumFunction`.
* A project is a path and the filter of `cost_report` is a prefix of it, as
  `starts_with` on the group key is.
* A seed file is a function from row numbers to contents, and its SHA-256 is the
  file itself. A row refers to the row of its own number in the parent table.
  Providers and models are `INSERT OR IGNORE`, channels and mappings upserts.

## 3. Runs

Passing runs.

| Run | Instance | Shows |
|---|---|---|
| `resilience` | 1 channel, 2 requests under way, 4 orders of registration, threshold 2, cooldown 2, 2 requests per 3 ticks | `CircuitCoherent`: state, count and instant agree. `ProbeDecides`: whatever reaches a half-open circuit decides it. `OpenNotForever`: an open circuit lets a request through again. `LazyRefillIsExact`: the limiter implements `TokenCredit`. `BurstBounded`: no k ticks see more admissions than a full bucket and what k ticks earn. `BreakerHears`: the breaker hears of every answer to a request it admitted, unless retry is registered after it. `DeafBreaker`: in that order no circuit ever counts a failure |
| `router_health` | 2 metered channels, 2 requests, every branch of `on_response`, a probe by the administrator at any moment | `FailingChannelRests`: no channel is picked before its cooldown is over. `ChannelRecovers`: a channel in cooldown becomes tryable again |
| `router_quota` | flat-fee and metered, quotas of requests and of tokens, 2 months, a reload or a new key under the requests | `QuotaCountsThisMonth`: the counters hold what was used in their month. `QuotaOvershoot`: a limit is exceeded by at most the other requests in flight, unless the last loop let one pass. `SteadyCandidateWins`: a candidate usable during the whole selection is not passed over for a worse one |
| `admin` | 2 handlers, 3 calls, storage errors, clients that go away, restarts | `UntouchedChannelServed`: a channel nobody changed is routed as stored in every state. `SnapshotCurrent`, `NewKeyTakesEffect`: when the handlers are done the router has what the tables say, unless an update was overtaken or given up |
| `health_db` | 2 channels, 3 writers, failing statements | `CooldownEarned`: a stored cooldown has an end and three failures behind it. `StatusFollowsCount`: a call that has the row to itself repairs what overlapping calls left |
| `report` | 2 requests of a session, 3 lines whole or in halves, a restart | `NothingSkipped`: the cursor passes no whole line that was not given. `HandedOnceAlone`: no line is given twice while requests do not overlap. `SavedBounded`: in the cost records of a session a line is counted at most once in the hooks' total, and an itemised one at most once in the layers. `SavingsHanded`: every whole line is given |
| `seed` | start-up, 2 refreshes, 3 releases, one failure or crash at any statement, one read of the metadata that fails and counts as nothing stored | `VersionTruthful`: the stored version promises no row that is not there, but for rows of an older release written by a call that could not read it. `NoDowngrade`: it never goes back while refreshes do not overlap and can read it. `RefreshHeals`: the newest release is installed in the end, in whatever order the `HashMap` gives the entries |
| `pipeline` | 3 client formats, 11 shapes of channel, every status, errors as JSON with an `error` key, without one, or not JSON, answers with an `error` key, 20 ways to report the usage; 2 aliases, crashes at any statement | `RequestFits`, `AnswerFits`: both ends get their protocol. `UsageBilled`: each meter of the record is what the upstream reported, over however many events, but for what the conversion lost. `FailureRecorded`: a JSON error with an `error` key reaches the router and the client (one without is converted or fails in the bridge). `MapIsTable`: the proxy applies the enabled aliases as they were at the start. `DeletedStaysDeleted`: no restart or crash in the migration brings a deleted alias back, unless the schema version cannot be read. `DeletesWhatWasPicked`: a late or repeated DELETE takes the alias the administrator saw or none |
| `ledger` | 2 requests, 4 pairs of prices (each formula, edited into another), 4 instants, 2 time zones and none, pages of one row, 3 kinds of reader | `CostAudits`: a row's cost is what its own snapshot charges for its usage. `CalendarRange`: a range of days is that many local calendar days. `ReaderMissesNothing`: paging by offset misses no row that stays, unless the reader asks for more than the cap and stops at a short page. `ReportsAgree`: the endpoints add up to the same. `PruneSparesReports`: pruning n days takes nothing from a report of n calendar days. `RecordReported`: a recorded request shows up |

Violations: each states a sentence of a comment or a specification that the code
does not keep (quoted under `findings` in `PROJECT.json`).

| Run | Property | What TLC shows |
|---|---|---|
| `router_seed_names` | `FailingChannelRests` | health is written under the name and read under the id |
| `admin_cleared` | `ClearedKeyExcluded` | a cleared key comes back from the snapshot |
| `pipeline_responses` | `UpstreamFormat` | Chat to Responses uses the opposite converter |

Other places where the code does less than a sentence beside it says. They are
behaviours of the models, and the reason why some properties above carry a
condition:

* `circuit_breaker.rs:5-7`: "one probe request is allowed", but a half-open
  circuit admits everybody (line 83); "rejects requests for `cooldown`", but a
  late success of a request admitted earlier closes an open circuit (line 89).
* `retry.rs:3`: the middleware is to have failed requests sent again; it turns the
  response into a `RateLimited` error, nothing in the engine retries, and the
  attempt it reads from the context is never written (`Attempt` is 0).
* `rate_limiter.rs:23`: "Maximum number of requests allowed per window", but a full
  bucket gives out that many at once and refills meanwhile (`BurstBounded` has the
  bound that holds).
* `model-router/src/types.rs:292`: `is_within_quota` compares the stored counters
  without `maybe_reset`, so in a new month a blocking mapping still refuses for
  the usage of the old one, until a request is recorded on it
  (`QuotaCountsThisMonth` is about the counters, not about this check), where line
  224 says "Request limit per calendar month".
* `model-router/src/types.rs:65`: "cumulative usage volume", but a tier is chosen by
  the tokens of the request alone; above the last bound a request costs nothing.
* `storage-sqlite/src/lib.rs:1251`: grouping by project, model and month puts all
  months into one group, and `CostGroupBy::Model` groups by channel. The sums add
  amounts in USD, CNY and credits.
* `admin.rs:912`: the report of a project also has the projects whose path begins
  with its path; line 931: the savings are those of the newest 100 records
  (conditions of `ReportsAgree`).
* `core/src/server.rs:716`: "last chunk with `usage` field", but the chunks are merged
  and an object, such as the details with the cached tokens, is taken from the
  first that has it (the streams of `UsageBilled` report it once or the same).
* `002_model_aliases.sql:18`: the built-in aliases are enabled with an empty target,
  so on a new installation the requests for these models are refused; the map is
  made at start-up, so edits of the table need a restart (condition `edited`).
* `model-router/src/lib.rs:341`: the last loop of the selection does not ask the
  quota, so an exhausted flat-fee mapping is used where
  `specs/0003-channel-model.md:92,99` has an error (condition `spilled`: once that
  loop has chosen a mapping, no bound on its counter holds).
* `model-router/src/types.rs:361`: the first 5xx sets the count to 3 and costs the
  longest cooldown; the comment at line 421 starts the sequence at the base.
* `model-router/src/lib.rs:433`: of two overlapping reloads the older reading may
  be stored last (condition `fresh`); `admin.rs:522`: two overlapping updates of a
  key may end in different orders in table and map (condition `keyed`).
* `storage-sqlite/src/lib.rs:654`: the "atomic" update of the health columns is
  three statements (condition `alone`).
* `core/src/report.rs:181`: a request that read the file before another one
  consumed more of it resets the cursor, and lines are given again (condition
  `overlapped`); line 241: a line half written when read is lost (condition
  `halved`).
* `cost/src/lib.rs:139`: `tokens_saved` adds the report's total and the layers that
  contain its itemised parts, where `specs/0017-stats-reporting.md:170-185` adds
  disjoint parts: for the example there the specification has 950 + 700 = 1650 and
  the code 2600. No property takes the sum for right: `SavedBounded` bounds the
  hooks' total and the layers each for itself, and `ReportsAgree` asks only that the
  savings leave out no record. The models do have the double count (`TokensSaved`,
  `Row`).
* `storage-sqlite/src/seed.rs:579`: a version that cannot be read counts as 0. So
  `seed_init` may write the embedded release over a newer one, where line 163 says
  "Only inserts when `seed_metadata.version == 0`", and a refresh may accept an older
  manifest, where line 263 says "Reject downgrade" (conditions `older` and `blind`).
* `storage-sqlite/src/lib.rs:1617`: a schema version that cannot be read counts as 0
  too, and migration 002 inserts the built-in aliases again, deleted ones included
  (condition `told.back`).
* `storage-sqlite/src/lib.rs:1172`: a page has at most 1000 rows, of which
  `docs/admin-api.md:348` says nothing. A reader who asks for more and stops at the
  first short page stops after the first page (condition `Deceived`).
* `bridge/src/lib.rs:273-278`: "upstream error" is any body with a top-level `error`
  key. A successful Responses body with `"error": null` reaches a client of another
  format unconverted, and its usage is looked for under that client's names
  (condition in `AnswerFits`; `UsageBilled` claims nothing of it).
* `docs/research/sse-usage-analysis.md:90` knows that a conversion may lose counters.
  Tokens written to the cache have no place in Chat and Responses bodies, so those of
  an Anthropic upstream are never billed to such a client (`lost` in `UsageBilled`).
* `admin.rs:500-522`: a client that goes away after the UPDATE of a key leaves the old
  one in the key map until the next restart (condition `keyed`);
  `storage-sqlite/src/lib.rs:583-592`: when the changed channel cannot be read back the
  update stands and is not reloaded (condition `fresh`).
* `storage-sqlite/src/seed.rs:264`: "Reject downgrade" is tested before the entries
  are fetched, so of two overlapping refreshes the older may write its version
  last (condition `overlapped`), where `specs/0019-remote-seed-data.md:316` has the
  version only grow.
* `storage-sqlite/src/seed.rs:286`: a file that a release changed, that was applied
  by half and that the next release takes back is skipped by its old hash
  (condition `torn`, row by row). A start-up over a half-finished refresh of the
  mappings ends the same way, because it stores the embedded file's hash under
  another key (line 556) and the refreshed file's own one stays. Line 431: a model that exists is left alone, so a new price
  never arrives. Line 481: the embedded mappings' hash is stored under
  `model_mappings` and the manifest calls them `modelMappings`, so the first
  refresh applies them in any case and `seed_status` goes on showing the old hash.
* `core/src/middleware.rs:98`: the bridge fails on an error page that is not JSON,
  and the router never hears of that 5xx (condition on the body in
  `FailureRecorded`).
* `model-router/src/lib.rs:837`: the tokens of a Chat answer and of any stream count
  as a request but as zero tokens against a flat fee.

Why the bounds are enough. The races need two actors (two handlers, two requests
of a session, a probe and a late response) and, for the counts, one more than the
largest number the code compares with: `FailureCap` 4 over the threshold 3,
two requests at a circuit of threshold 2 (a probe and a late answer; the theorems
are for any number), cooldowns of 1 unit against factors 1 and 15. `router_health` leaves
out 401, which takes the branch of a 5xx, and one probe (`MaxEdits`) is enough to
fall between the two requests' steps. In `router_quota` a limit of 1 and
`UsageCap` 3 leave room for one count above the bound, and the two snapshots, which
bill both channels differently, are swapped once under the selections. The four orders of `resilience` are one for each
way two of the middlewares can stand to each other; `Window` 3 does not divide
what 2 requests earn, so fractions of a token occur. The instants of `ledger`
lie around midnight in UTC and in both zones (one offset is beyond the clamp), and
pages of one row (`DefaultLimit` and `MaxLimit` 1) let the query over all projects outgrow a
page; the readers ask for the cap, or for more and stop at a short or at an empty page.
Each project has one row in the run, so the savings of a project that outgrows the page
are left to the theorem `OneStory`, which is for any rows and limits. `MaxId` leaves room for one alias
besides the built-in one, created, deleted and created again. `UsageCap`, `MaxMonth`, `MaxCalls`, `MaxLines`, `MaxRestarts`
`MaxFaults`, `MaxMisreads`, `MaxId`, `Span` and `SavedCap` bound counters that only grow (`SavedCap` is above what
three lines can count for). The releases of `seed` are the smallest that add a
row, change one and take a file back; their later manifests have only the two
updated tables, as a manifest may. Symmetry is used for requests,
channels and writers, and not in runs with a liveness property.

Fairness. `resilience`: time passes (weak), a request in the proxy goes on and is
answered or ends (weak: the HTTP client has a timeout), and clients ask for each
channel again and again (strong: the slots of the model are taken now and then).
`ledger`: time passes and a blocking insert runs or fails (weak).
`router_health`: time passes and the steps of a request in the router are taken
(weak: none of them blocks); nothing is assumed of new requests or of what the
upstreams answer, and probes are finitely many (`MaxEdits`): an administrator whose
probes keep failing keeps a channel resting. `report`: a request that read the file goes on (weak), and the
session keeps sending requests (strong, since the slots of the model are taken now
and then); without more requests nobody reads the file. `seed`: the start-up
and a call that began run on (weak: every fetch has a timeout), the newest release
is asked for again and again (strong: an administrator's retries; nothing in
the code repeats a refresh) and failures and crashes are finitely many.

## 4. Proofs

| Module | Theorem | Statement |
|---|---|---|
| `ResilienceProofs` | `Invariance` | `Spec => []IInv` (circuit breaker) |
| | `Coherence` | `Spec => [](TypeOK /\ CircuitCoherent)` |
| | `ProbeDecision` | `Spec => ProbeDecides` |
| | `ChainImplementsBreaker` | `RSpec => Spec` of the circuit breaker |
| | `RefillExact` | `RSpec => LazyRefillIsExact`, the refinement of `TokenCredit` |
| | `ResilienceTyped` | `RSpec => []ResilienceTypeOK` |
| | `ChainCoherence`, `ChainProbeDecision` | `RSpec => []CircuitCoherent`, `RSpec => ProbeDecides` |
| | `NoBiggerBurst` | `RSpec => []BurstBounded` |
| | `BreakerHeard`, `DeafForever` | `RSpec => BreakerHears`, `RSpec => []DeafBreaker` |
| `ModelRouterProofs` | `TypeCorrect` | `Spec => []TypeOK` |
| | `EntriesHonoured` | `HSpec => WrittenRests` |
| | `QuotaOfTheMonth` | `HSpec => []QuotaCountsThisMonth` |
| | `SteadyWins` | `HSpec => SteadyCandidateWins` |
| | `OvershootBounded` | `HSpec => []QuotaOvershoot` |
| `ChannelAdminProofs` | `AdminTypes` | `Spec => []TypeOK` |
| | `UntouchedServed` | `Spec => []UntouchedChannelServed` |
| | `SnapshotsCurrent`, `NewKeysTakeEffect` | `Spec => []SnapshotCurrent`, `Spec => []NewKeyTakesEffect` |
| `ChannelHealthDbProofs` | `CooldownsEarned`, `StatusesFollow` | `Spec => []CooldownEarned`, `Spec => []StatusFollowsCount` |
| `TokenlessReportProofs` | `NoLineSkipped` | `Spec => []NothingSkipped` |
| | `GivenOnce` | `Spec => []HandedOnceAlone` |
| | `SavingsBounded` | `Spec => []SavedBounded` |
| `SeedRefreshProofs` | `VersionMonotone` | `Spec => NoDowngrade` |
| | `VersionKept` | `Spec => []VersionTruthful` |
| `ProxyPipelineProofs` | `DeletedForGood`, `PickedIsDeleted` | `Spec => []DeletedStaysDeleted`, `Spec => DeletesWhatWasPicked` |
| | `MapOfTheTable` | `Spec => []MapIsTable` |
| | `RequestsFit`, `AnswersFit` | `Spec => []RequestFits`, `Spec => []AnswerFits` |
| | `UsageIsBilled` | `Spec => []UsageBilled` |
| | `FailuresRecorded` | `Spec => []FailureRecorded` |
| `CostLedgerProofs` | `DaysReported`, `PruneSpares` | `Spec => []CalendarRange`, `Spec => PruneSparesReports` |
| | `NothingMissed` | `Spec => []ReaderMissesNothing` |
| | `Audits` | `Spec => []CostAudits` |
| | `OneStory` | `Spec => []ReportsAgree` |

The constants are arbitrary: sets of any size, thresholds, cooldowns, prices, time
zones and page sizes within the named assumptions (`ASSUME`), which TLC evaluates
on the instances. Each argument in short:

**Circuit breaker.** `IInv` adds to coherence that a half-open circuit's
cooldown is over (`HalfOpenExpired`). Without it a step of time could change a
half-open circuit and `ProbeDecides` would not follow. Each method of
`ChannelCircuit` has a lemma that it keeps one circuit coherent; the actions cite
them. `ChainImplementsBreaker` shows that each step of the chain is a step of the
breaker or leaves its variables alone; with it what is proved of the breaker holds
in every chain without being proved again.

**Rate limiter.** `RefillExact`: the abstract credit of a channel is the level its
bucket would have if it were refilled now. Three lemmas on the operators carry the
proof: a tick raises the level by what a tick earns, up to the capacity, also when
the age saturates at `Window`, because by then the bucket is full; a refused request
leaves the level as it is; an admitted one lowers it by one token. Both are true
only because `Refill` credits the whole time since the last call, fractions
included, and restarts the clock. The invariant needed is the type of the buckets.
`NoBiggerBurst` rests on the same lemmas. The bound alone is not inductive: `Earnings`
adds the level to it, so that the admissions of the last k ticks and what is left in the
bucket together are no more than a full bucket and what k ticks earn.

**What the breaker hears.** `OnItsWay` follows one request through the chain: while
the breaker waits for its answer, the breaker is behind it on the way out and still
ahead on the way back, and whatever passed retry on the way back is a status retry
does not swallow. `DeafForever` follows from it: in the order with retry behind
the breaker no retryable status comes back to it, and it counts no other. It needs that each middleware is at most once in an order (`ChainAssumption`), as a
host registers them.

**Router.** `EntriesHonoured` says what holds whatever the channels are called:
`select_channel` honours what was last written under the id it looks up, by a probe
or by an answer of a channel of that name. It needs that each entry of the health map
knows at least what the history of its key knows (`RestInv`: the types and
`VerdictsAgree`): `Agrees` ties what was last written under a key, and how long ago,
to the entry. That the answer of a channel is written under its own id is another
matter: `on_response` writes under the name, and the run `router_seed_names` shows a
channel of the seed data selected right after its 5xx. `FailingChannelRests`, which
speaks of the channel and not of the key, follows only for configurations that name
every channel by its id, as the run `router_health` does (the corollary
`FailingChannelsRest`). `QuotaOfTheMonth` needs that
no counter is stamped with a month to come (`NotAhead`): else a reset would drop
what was counted. `SteadyWins` needs that a candidate which was usable all along is
still to be examined in the loop of its billing (`SteadyAhead`, `LeftByBilling`);
the two first loops then cannot end without taking it or one before it. A swap of the
snapshot does not disturb this, because a request keeps the one it loaded.
`OvershootBounded`: the counter alone is not inductive, since a request that passed
the check is counted much later. `Bounded` adds to the counter the requests that carry
the mapping and are yet to be counted: together they are at most the limit and the
slots less one. A request is given the mapping only while the counter is below the
limit, and then at most all slots carry it; counting moves a request from one side
of the sum to the other, and a new month takes from it. No swap of snapshots matters as
long as each of them limits the mapping.

**Admin API.** `UntouchedInv`: what nobody changed is as stored in the snapshot, in
the key map and in every reload under way, and nobody is about to publish a key for
it. `FreshInv`: while no change overtook a reload, every reload under way has what
the tables say, and the snapshot is current unless a reload is still to come.
`KeyInv`: a channel whose key updates did not overlap has at most one handler that
is yet to publish its key, which is the stored one, and if there is none the key in
force is the stored one, now and after any reload that has already read the table.

**Health columns.** `CooldownEarned` is inductive once no count, stored or read back
by a writer, is above the highest the channel had (`BelowPeak`). `StatusFollowsCount` needs
`Undisturbed`: the writer that has a row to itself read back what is still stored.

**Report reader.** What a request has read is no longer than the file, and a half
line at its end is on record (`Seen`, `Halves`), and every line before the cursor
was given or is on record as halved (`Passed`). A step of `ConsumeReport` moves the
cursor to the end of what it read and gives every whole line between; a stale,
shorter content moves it back to 0 first, which skips nothing. The appends only
make a file longer (`GrowInv`), which keeps all of this. `GivenOnce` adds `Turns`: where
requests do not overlap, what is being read reaches at least the cursor, so it is
never reset, and only lines before it were given. `SavingsBounded` adds the books:
what was read is how the file begins (`Prefixes`), the shares of the requests under
way are disjoint (`Shares`), and the records hold no more than the lines that were
given and are in no such share count for, in the hooks' total and in the layers
(`Accounted`).

**Seed data.** `VersionMonotone` needs `SeedInv`: no call runs before the start-up is
over, and a start-up that could read the version writes one only where there is none
(`BootFirst`), and a call that never had another beside it and could read the version
holds a release above the stored one from its test to its end (`Ahead`), since only calls
and the start-up write the version. The history `blind` says which of them could not.
`VersionKept` follows the promise from the rows to the version: rows written are
there until the file's end (`BootWrote`, `CallWrote`), a stored hash stands for rows
that are there (`HashTruthful`), and a call that has not failed has stored the hashes of
the entries behind it (`CallHashed`). Proving it showed that `torn` has to be kept
row by row, and that a start-up can tear the mappings too (section 3).

**Aliases and pipeline.** `AliasInv`: ids are not above the sequence and names are unique,
nothing was deleted before the migration was on record, which it is once the proxy
is up (it may be run again after that, by a start-up that cannot read the version), and the id on the administrator's screen was given to no other name.
`PipelineInv` says, for each place in the chain, what the hooks before it left:
`Routed`, `Bridged`, `AsAnswered`, `ForClient`, `Noted`. The two theorems on formats name their
exception, `ChatToResponses`: for that pair the code uses the opposite converter, as the run
`pipeline_responses` shows; `AnswersFit` also has the answers with an `error` key.
`UsageIsBilled` compares the record with what the upstream metered before any
conversion (`ledger.metered`), not with what is read in the end: after any number of events the merge has a value that was said of
each key and, of a counter, the greatest (`CollectKeeps`), because counters of an honest
report do not go back and a zero is not taken; so what the report tells of a key is
what is read (`ToldIsRead`), and each extractor puts it on the right meter (`ReportPaid`).
`PipelineInv` gives the rest: the recorder reads the body in the format the chain left it
in. `PipelineAssumption` asks that the upstreams report honestly (`Honest`: details said
once or alike, and for Chat the names, the total or the short names, not a mixture);
it does not limit the number of events or of tokens.

**Cost ledger.** `DaysReported` and `PruneSpares` are arithmetic of whole seconds and
days (`DivMod`, `LocalStartIs`, `TruncatedIs`) for any instants, any offset of whole seconds and the
clamp. `NothingMissed`: `Books` says that every row is the record of one stamped request,
no two at one moment, and `Walk` that a row the reader is owed and has not seen has
a rank of at least its offset. Inserting raises ranks, pruning and a moving
range take older rows only, which changes no rank before them, and a page that is
not full has no rank behind it (`RankReached`, `FullPage`): a page shorter than the
smaller of the limit asked for and the cap, so that only a reader who asks for more
than the cap may take a full page for a short one (`Deceived`). `Audits`: `Billed` says that the cost
of a stamped request is by the billing it was routed with, whatever was edited since;
`CostIs` shows `calc_cost` equal to the reference for every kind of billing. There the
tiers must be ordered from the lowest to the highest bound, as
`model-router/src/types.rs:69` asks (`Ordered` in `BillingAssumption`): the code takes
the first tier that covers the request and the reference the narrowest. `OneStory`
compares sums over sets: `SumGrouped` says that the sums of the groups add up to the
sum of all rows, for any grouping.

Sums, ranks and the merge of a stream need induction, and the induction theorems of the library take the
property as an operator, which the provers cannot instantiate. `InductionSet`,
`SetInduction` and `LeastOf` state it of a set (of numbers, of finite sets) instead of a
property, which first-order provers can use; `SumOver` derives from them that the
library's `SumFunction` has the recursion one expects.

Only model-checked: liveness (`OpenNotForever`, `ChannelRecovers`, `SavingsHanded`,
`RefreshHeals`, `RecordReported`), since fairness is out of the prover's reach.

## 5. Not modelled

Rounding of floating-point prices, authentication, configuration, formatting of
errors and headers, read-only listings, the compression algorithms and the
conversions (external libraries). Code that nothing in the program calls:
`bridge_stream`, `extract_usage_sse`, `auto_detect_usage` (a request of unknown format
is turned away first), subscription fees, switch logs, and the setters
`upsert_channel`, `set_channel_enabled`, `set_mapping_enabled`,
`set_model_alias_enabled`. The three resilience middlewares are offered by the
library but not registered by `main.rs`; they are modelled for a host that registers
them after the router. Of the seed data: deletions by the admin API between
refreshes, and the metadata keys that only `seed_status` shows. Of the aliases: gaps
an ignored insert may leave in the ids.

## 6. Plan

Done: the resilience chain, the router with its history, the admin API with the
storage behind it, the health columns, the report reader, the seed data, the
aliases, the pipeline, the cost ledger; an abstract specification of the limiter
and its refinement; the router under the admin API's writes; theorems on all of them,
and every safety property of a passing run proved (`FailingChannelRests` for channels
named by their ids, as in its run). Ahead, in this order:

1. `SeedRefresh` with the router: it changes the tables and does not reload.
2. An abstract specification of selection (one atomic choice) that `ModelRouter`
   implements when the maps do not change meanwhile.
