------------------------- MODULE ModelRouterHistory -------------------------
(***************************************************************************)
(* The properties of ModelRouter.  The ones that relate a step to what     *)
(* happened before it speak of history variables, which record what an     *)
(* observer of the proxy sees and have no influence on the router:         *)
(*   verdict   what the last recorded response or probe of a channel said  *)
(*             of it, and how long ago;                                    *)
(*   written   the same by the key it was written under in the health map: *)
(*             the id of a probed channel, the name of one that answered;  *)
(*   answered  the responses of a mapping recorded in the current month;   *)
(*   steady    for a request being routed, the candidates (as indices of   *)
(*             its snapshot) that were usable in every state since it      *)
(*             began;                                                      *)
(*   spilled   the flat-fee mappings that the last loop, which asks for no *)
(*             quota, has ever chosen.                                     *)
(***************************************************************************)
EXTENDS ModelRouter

VARIABLES verdict, written, answered, steady, spilled

history == <<verdict, written, answered, steady, spilled>>

\* How long a channel rests after a response or a probe of this kind.
Rest(kind) == CASE kind = "rate_limited" -> RateLimitCooldown
                [] kind = "down" -> BaseCooldown * 15
                [] OTHER -> 0

NoVerdict == [kind |-> "none", age |-> 0]

Kind(status) == CASE status \in {"server_error", "unauthorized"} -> "down"
                  [] OTHER -> status

Rested(v) == v.age >= Rest(v.kind)

\* A candidate of the request's model that the selection may take.
Usable(row) ==
  /\ HasApiKey(row.channel_id) /\ IsHealthy(row.channel_id)
  /\ row.billing = "flatfee" => WithinQuota(row)

UsableNow(r) == {i \in DOMAIN req[r].rows : Usable(req[r].rows[i])}

HistoryInit ==
  /\ verdict = [id \in ChannelIds |-> NoVerdict]
  /\ written = [k \in HealthKeys |-> NoVerdict]
  /\ answered = [m \in Mappings |-> 0]
  /\ steady = [r \in Requests |-> {}]
  /\ spilled = {}

\* A recorded response of a row whose column holds k, or a probe of the channel k,
\* replaces the verdict v on k; time ages it.
After(v, k, column) ==
  IF \E r \in Requests : /\ req[r].pc = "health" /\ req'[r].pc = "idle"
                         /\ req[r].row[column] = k
                         /\ req[r].status # "client_error"
  THEN LET r == CHOOSE r \in Requests : req[r].pc = "health" /\ req'[r].pc = "idle"
       IN  [kind |-> Kind(req[r].status), age |-> 0]
  ELSE IF k \in ChannelIds /\ ProbeHealthy(k) THEN NoVerdict
  ELSE IF k \in ChannelIds /\ ProbeUnhealthy(k) THEN [kind |-> "down", age |-> 0]
  ELSE IF Tick /\ ~Rested(v) THEN [v EXCEPT !.age = @ + 1]
  ELSE v

VerdictStep ==
  /\ verdict' = [id \in ChannelIds |-> After(verdict[id], id, "channel_id")]
  /\ written' = [k \in HealthKeys |-> After(written[k], k, "channel_name")]

AnsweredStep ==
  answered' = [m \in Mappings |->
    IF month' # month THEN 0
    ELSE IF \E r \in Requests : /\ req[r].pc = "quota" /\ req'[r].pc = "health"
                                /\ req[r].row.mapping_id = m
    THEN Add(answered[m], 1)
    ELSE answered[m]]

\* steady starts as the usable candidates and loses those that are not usable
\* in some later state of the scan.
SteadyStep ==
  steady' = [r \in Requests |->
    IF req[r].pc = "scan" THEN steady[r] \cap UsableNow(r)'
    ELSE {i \in UsableNow(r)' : <<"any", i>> \in req'[r].left}]

\* Request r is given a flat-fee mapping by the last loop.
Spills(r) ==
  /\ Chooses(r) /\ req'[r].row.billing = "flatfee"
  /\ \E c \in req[r].left : Examines(r, c) /\ c[1] = "any"

SpillStep == spilled' = spilled \cup {req'[r].row.mapping_id : r \in {q \in Requests : Spills(q)}}

HistoryStep == VerdictStep /\ AnsweredStep /\ SteadyStep /\ SpillStep

HInit == Init /\ HistoryInit
HNext == Next /\ HistoryStep
hvars == <<vars, history>>
HSpec == HInit /\ [][HNext]_hvars

\* The history does not hold a step of the router back, so neither does it the
\* router's fairness.
HFairSpec == HSpec /\ Fairness

-----------------------------------------------------------------------------
(* Properties *)

\* A channel whose last recorded response was a 5xx or a 401, or whose last probe
\* failed, receives no request until 15 base cooldowns have passed, and one that
\* answered 429 none until the rate-limit cooldown has passed: on_response, the
\* admin API and select_channel agree on the channel and on the cooldown, across
\* any number of requests between.
FailingChannelRests ==
  [][\A r \in Requests : Chooses(r) => Rested(verdict[req'[r].row.channel_id])]_hvars

\* The same of what stands under the channel's id, whoever wrote it: true whatever
\* the channels are called.
WrittenRests ==
  [][\A r \in Requests : Chooses(r) => Rested(written[req'[r].row.channel_id])]_hvars

\* The declared preference: flat-fee first, then priority, then snapshot order.
Preferred(rows, i, j) ==
  \/ rows[i].billing = "flatfee" /\ rows[j].billing = "metered"
  \/ /\ rows[i].billing = rows[j].billing
     /\ \/ rows[i].priority > rows[j].priority
        \/ rows[i].priority = rows[j].priority /\ i < j

\* While other requests and the admin API change health, quotas, keys and the
\* snapshot under the scan, the decision is
\* still right for every candidate that was usable all along: such a candidate
\* is never passed over for a less preferred one, and no request is refused
\* while there is one, unless a blocking flat-fee mapping comes before it.
SteadyCandidateWins ==
  [][\A r \in Requests :
       req[r].pc = "scan" /\ req'[r].pc # "scan"
       => \A i \in steady[r] :
            /\ req[r].left # {}
            /\ \A c \in req[r].left :
                 Examines(r, c) => /\ c[1] # "any"
                                   /\ ~Preferred(req[r].rows, i, c[2])]_hvars

\* quota_usage counts the month it says: the requests of the current month if it
\* was written this month, and otherwise nothing was recorded this month.
QuotaCountsThisMonth ==
  \A m \in Mappings :
    answered[m] = IF quota[m].month = month THEN quota[m].requests ELSE 0

\* Every snapshot limits the mapping to n requests per month or fewer.
Limited(m, n) ==
  \A cat \in Catalogs : \A i \in DOMAIN cat :
    cat[i].mapping_id = m /\ cat[i].billing = "flatfee"
    => cat[i].quota.kind = "requests" /\ cat[i].quota.per_month <= n

\* select_channel asks for the quota, on_response counts: the requests in between
\* overshoot the limit of a mapping, but by no more than the other requests in flight,
\* unless the last loop of select_channel has let one pass without asking.
QuotaOvershoot ==
  \A m \in Mappings \ spilled, n \in 0..UsageCap :
    Limited(m, n) => quota[m].requests <= n + Cardinality(Requests) - 1

=============================================================================
