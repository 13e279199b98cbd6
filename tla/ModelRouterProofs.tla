------------------------- MODULE ModelRouterProofs -------------------------
(***************************************************************************)
(* Proofs about ModelRouter, for any set of channels, mappings and         *)
(* snapshots, any number of concurrent requests and any cooldowns.         *)
(***************************************************************************)
EXTENDS ModelRouterHistory, FiniteSetTheorems, TLAPS

\* What the operators of ChannelHealth return is a well-typed state whose age is
\* within its own cooldown.
Sound(s) == s \in ChannelStates /\ s.elapsed \in -1..EffectiveCooldown(s)

\* The states the transitions of ChannelState build are sound.
LEMMA NewStatesSound ==
  /\ Sound(NewState)
  /\ \A s : Sound(MarkUnhealthy(s)) /\ Sound(MarkRateLimited(s)) /\ Sound(RecordSuccess(s))
  BY HealthCooldownAssumption
  DEF Sound, ChannelStates, NewState, MarkUnhealthy, MarkRateLimited, RecordSuccess,
      EffectiveCooldown, ExponentialCooldown, NeverFailed

\* Time keeps a state sound.
LEMMA AgeSound == \A s : Sound(s) => Sound(Age(s))
  BY HealthCooldownAssumption
  DEF Sound, ChannelStates, Age, Cooling, EffectiveCooldown, ExponentialCooldown,
      NeverFailed

\* So does the health update of on_response, for every status.
LEMMA AfterStatusSound ==
  ASSUME NEW s, Sound(s), NEW status \in Statuses
  PROVE  Sound(AfterStatus(s, status))
  BY NewStatesSound DEF AfterStatus, Statuses

\* Usage records keep their type through record_usage.
LEMMA RecordUsageType ==
  ASSUME NEW u \in Usages, NEW tokens \in Nat, month \in 0..MaxMonth
  PROVE  RecordUsage(u, tokens) \in Usages
<1>1. MaybeReset(u) \in Usages
  BY InputAssumption DEF MaybeReset, Usages
<1>2. \A n \in 0..UsageCap, k \in Nat : Add(n, k) \in 0..UsageCap
  BY InputAssumption DEF Add
<1>3. \A v \in Usages : [v EXCEPT !.requests = Add(v.requests, 1),
                                 !.tokens = Add(v.tokens, tokens)] \in Usages
  <2> SUFFICES ASSUME NEW v \in Usages
               PROVE  [v EXCEPT !.requests = Add(v.requests, 1),
                                !.tokens = Add(v.tokens, tokens)] \in Usages
    OBVIOUS
  <2>1. Add(v.requests, 1) \in 0..UsageCap /\ Add(v.tokens, tokens) \in 0..UsageCap
    BY <1>2 DEF Usages
  <2> QED BY <2>1 DEF Usages
<1> QED BY <1>1, <1>3 DEF RecordUsage

\* A snapshot's rows are well typed, and its indices are numbers.
LEMMA CatalogRows ==
  ASSUME NEW cat \in Catalogs
  PROVE  /\ DOMAIN cat \subseteq Nat
         /\ \A i \in DOMAIN cat : cat[i] \in Rows
<1> cat \in Seq(Rows)
  BY CatalogAssumption
<1> QED OBVIOUS

\* An idle request is well typed.
LEMMA IdleType == Idle \in RequestStates /\ Idle.left = {} /\ Idle.pc = "idle"
  BY KeyAssumption DEF Idle, RequestStates, Statuses

\* The requests' part of the type invariant, for one request.
Fits(q) ==
  /\ q \in RequestStates
  /\ \A c \in q.left : c[2] \in DOMAIN q.rows
  /\ q.pc \in {"picked", "sent", "quota", "health"} => q.row \in Rows

\* A free slot fits.
LEMMA IdleFits == Fits(Idle)
  BY IdleType DEF Fits

\* Replacing one request by a fitting one keeps the requests well typed.
LEMMA ReplaceRequest ==
  ASSUME TypeOK, NEW r \in Requests, NEW q, Fits(q),
         req' = [req EXCEPT ![r] = q]
  PROVE  /\ req' \in [Requests -> RequestStates]
         /\ \A p \in Requests : Fits(req'[p])
  BY DEF TypeOK, Fits

\* The type invariant, request by request and health entry by health entry.
LEMMA TypeOKPointwise ==
  TypeOK <=> /\ channels \in Catalogs
             /\ keys \in [ChannelIds -> Keys \cup {NoKey}]
             /\ health \in [HealthKeys -> ChannelStates]
             /\ \A k \in HealthKeys : Sound(health[k])
             /\ quota \in [Mappings -> Usages]
             /\ month \in 0..MaxMonth
             /\ req \in [Requests -> RequestStates]
             /\ \A r \in Requests : Fits(req[r])
             /\ edits \in 0..MaxEdits
  BY DEF TypeOK, Sound, Fits

-----------------------------------------------------------------------------

\* The operators of the candidates' list name rows of the snapshot.
LEMMA CandidatesType ==
  ASSUME NEW rows \in Catalogs, NEW model
  PROVE  /\ Candidates(rows, model) \in SUBSET (Loops \X Nat)
         /\ \A c \in Candidates(rows, model) : c[2] \in DOMAIN rows
  BY CatalogRows DEF Candidates, FindCandidates, Loops

\* Initial states are well typed.
LEMMA InitTypeOK == Init => TypeOK
<1> SUFFICES ASSUME Init PROVE TypeOK
  OBVIOUS
<1>1. \A i \in DOMAIN channels : channels[i].api_key \in Keys \cup {NoKey}
  BY CatalogRows DEF Init, Rows
<1>2. keys \in [ChannelIds -> Keys \cup {NoKey}]
  <2> DEFINE Has(id) == \E i \in DOMAIN channels : channels[i].channel_id = id
             At(id) == CHOOSE i \in DOMAIN channels : channels[i].channel_id = id
  <2>1. keys = [id \in ChannelIds |-> IF Has(id) THEN channels[At(id)].api_key ELSE NoKey]
    BY DEF Init
  <2>2. \A id : Has(id) => At(id) \in DOMAIN channels
    OBVIOUS
  <2> HIDE DEF Has, At
  <2> QED BY <1>1, <2>1, <2>2
<1>3. NewUsage \in Usages
  BY InputAssumption DEF NewUsage, Usages
<1>4. \A k \in HealthKeys : health[k] = NewState
  BY DEF Init
<1>5. \A r \in Requests : req[r] = Idle
  BY DEF Init
<1>6. health \in [HealthKeys -> ChannelStates]
  BY NewStatesSound DEF Init, Sound
<1>7. req \in [Requests -> RequestStates]
  BY IdleType DEF Init
<1>8. month \in 0..MaxMonth
  BY InputAssumption DEF Init
<1>9. channels \in Catalogs /\ quota \in [Mappings -> Usages]
  BY <1>3 DEF Init
<1>10. \A k \in HealthKeys : Sound(health[k])
  BY <1>4, NewStatesSound
<1>11. \A r \in Requests : Fits(req[r])
  BY <1>5, IdleFits
<1>12. edits \in 0..MaxEdits
  BY InputAssumption DEF Init
<1> QED BY <1>2, <1>6, <1>7, <1>8, <1>9, <1>10, <1>11, <1>12, TypeOKPointwise

\* Each step of a request, of time, of the calendar and of an administrator keeps the
\* types.
LEMMA NextTypeOK == TypeOK /\ [Next]_vars => TypeOK'
<1> SUFFICES ASSUME TypeOK, [Next]_vars PROVE TypeOK'
  OBVIOUS
<1>0. /\ channels \in Catalogs
      /\ keys \in [ChannelIds -> Keys \cup {NoKey}]
      /\ health \in [HealthKeys -> ChannelStates]
      /\ \A k \in HealthKeys : Sound(health[k])
      /\ quota \in [Mappings -> Usages]
      /\ month \in 0..MaxMonth
      /\ req \in [Requests -> RequestStates]
      /\ \A r \in Requests : Fits(req[r])
      /\ edits \in 0..MaxEdits
  BY TypeOKPointwise
<1> DEFINE ReqOK == /\ req' \in [Requests -> RequestStates]
                    /\ \A r \in Requests : Fits(req'[r])
           HealthOK == /\ health' \in [HealthKeys -> ChannelStates]
                       /\ \A k \in HealthKeys : Sound(health'[k])
           AdminOK == /\ channels' \in Catalogs /\ edits' \in 0..MaxEdits
                      /\ keys' \in [ChannelIds -> Keys \cup {NoKey}]
           Rest0 == UNCHANGED <<admin, health, quota, month>>
<1>n. ASSUME ReqOK, HealthOK, AdminOK, quota' \in [Mappings -> Usages], month' \in 0..MaxMonth
      PROVE  TypeOK'
  BY <1>n DEF TypeOK, Sound, Fits
<1>a. ASSUME ReqOK, HealthOK, UNCHANGED admin,
             quota' \in [Mappings -> Usages], month' \in 0..MaxMonth
      PROVE  TypeOK'
  BY <1>0, <1>a, <1>n DEF admin
<1>b. ASSUME ReqOK, Rest0 PROVE TypeOK'
  BY <1>0, <1>a, <1>b
<1>c. ASSUME NEW r \in Requests, Finish(r) PROVE ReqOK
  BY <1>c, IdleFits, ReplaceRequest DEF Finish
<1> HIDE DEF ReqOK
<1>1. ASSUME NEW r \in Requests, NEW model, NEW format \in ClientFormats,
             OnRequest(r, model, format)
      PROVE  TypeOK'
  <2> DEFINE q == [Idle EXCEPT !.pc = "scan", !.format = format, !.rows = channels,
                               !.left = Candidates(channels, model)]
  <2>1. CASE Finish(r)
    BY <1>1, <1>b, <1>c, <2>1 DEF OnRequest
  <2>2. CASE req' = [req EXCEPT ![r] = q]
    <3>1. q \in RequestStates
      BY <1>0, IdleType, CandidatesType, InputAssumption DEF RequestStates, Idle
    <3>2. q.pc = "scan" /\ q.rows = channels /\ q.left = Candidates(channels, model)
      BY DEF Idle
    <3>3. Fits(q)
      BY <1>0, <3>1, <3>2, CandidatesType DEF Fits
    <3> HIDE DEF q
    <3> QED BY <1>1, <1>b, <2>2, <3>3, ReplaceRequest DEF OnRequest, ReqOK
  <2> QED BY <1>1, <2>1, <2>2 DEF OnRequest
<1>2. ASSUME NEW r \in Requests, NEW c \in req[r].left, Accept(r, c)
      PROVE  TypeOK'
  <2> DEFINE q == [Idle EXCEPT !.pc = "picked", !.format = req[r].format,
                               !.row = req[r].rows[c[2]]]
  <2>1. req[r].rows[c[2]] \in Rows /\ req[r].format \in ApiFormats \cup {"none"}
    <3>1. Fits(req[r]) /\ req[r] \in RequestStates
      BY <1>0
    <3>2. c[2] \in DOMAIN req[r].rows
      BY <3>1 DEF Fits
    <3>3. req[r].rows \in Catalogs
      BY <3>1, <3>2 DEF RequestStates
    <3> QED BY <3>1, <3>2, <3>3, CatalogRows DEF RequestStates
  <2>2. Fits(q)
    BY <2>1, IdleType DEF Fits, RequestStates, Idle
  <2> HIDE DEF q
  <2>3. req' = [req EXCEPT ![r] = q]
    BY <1>2 DEF Accept, q
  <2> QED BY <1>2, <1>b, <2>2, <2>3, ReplaceRequest DEF Accept, ReqOK
<1>3. ASSUME NEW r \in Requests, NEW c \in req[r].left, Block(r, c)
      PROVE  TypeOK'
  BY <1>3, <1>b, <1>c DEF Block
<1>4. ASSUME NEW r \in Requests, NEW c \in req[r].left, Skip(r, c)
      PROVE  TypeOK'
  <2> DEFINE q == [req[r] EXCEPT !.left = @ \ {c}]
  <2>1. Fits(q)
    BY <1>0 DEF Fits, RequestStates
  <2>2. req' = [req EXCEPT ![r] = q]
    BY <1>4 DEF Skip
  <2> HIDE DEF q
  <2> QED BY <1>4, <1>b, <2>1, <2>2, ReplaceRequest DEF Skip, ReqOK
<1>5. ASSUME NEW r \in Requests, NoneLeft(r)
      PROVE  TypeOK'
  BY <1>5, <1>b, <1>c DEF NoneLeft
<1>6. ASSUME NEW r \in Requests, Forward(r)
      PROVE  TypeOK'
  <2> DEFINE k == IF keys[req[r].row.channel_id] # NoKey
                  THEN keys[req[r].row.channel_id] ELSE req[r].row.api_key
             q == [req[r] EXCEPT !.pc = "sent", !.key = k]
  <2>1. req[r].row \in Rows
    BY <1>0, <1>6 DEF Fits, Forward
  <2>2. k \in Keys \cup {NoKey}
    BY <1>0, <2>1 DEF Rows
  <2>3. CASE Finish(r)
    BY <1>6, <1>b, <1>c, <2>3 DEF Forward
  <2>4. CASE req' = [req EXCEPT ![r] = q]
    <3>1. Fits(req[r]) /\ req[r] \in RequestStates
      BY <1>0
    <3> HIDE DEF k
    <3>2. Fits(q)
      BY <2>1, <2>2, <3>1 DEF Fits, RequestStates
    <3> HIDE DEF q
    <3> QED BY <1>6, <1>b, <2>4, <3>2, ReplaceRequest DEF Forward, ReqOK
  <2> QED BY <1>6, <2>3, <2>4 DEF Forward
<1>7. ASSUME NEW r \in Requests, UpstreamFails(r)
      PROVE  TypeOK'
  BY <1>7, <1>b, <1>c DEF UpstreamFails
<1>8. ASSUME NEW r \in Requests, NEW status \in UpstreamStatuses,
             UpstreamAnswers(r, status)
      PROVE  TypeOK'
  <2> DEFINE pc == IF req[r].row.billing = "flatfee" THEN "quota" ELSE "health"
             q == [req[r] EXCEPT !.status = status, !.pc = pc]
  <2>1. Fits(req[r]) /\ req[r] \in RequestStates /\ req[r].row \in Rows
    BY <1>0, <1>8 DEF Fits, UpstreamAnswers
  <2>2. CASE Finish(r)
    BY <1>8, <1>b, <1>c, <2>2 DEF UpstreamAnswers
  <2>3. CASE req' = [req EXCEPT ![r] = q]
    <3>1. pc \in {"quota", "health"} /\ status \in Statuses
      BY InputAssumption
    <3> HIDE DEF pc
    <3>2. Fits(q)
      BY <2>1, <3>1 DEF Fits, RequestStates
    <3> HIDE DEF q
    <3> QED BY <1>8, <1>b, <2>3, <3>2, ReplaceRequest DEF UpstreamAnswers, ReqOK
  <2> QED BY <1>8, <2>2, <2>3 DEF UpstreamAnswers
<1>9. ASSUME NEW r \in Requests, NEW tokens \in TokenCounts, RecordQuota(r, tokens)
      PROVE  TypeOK'
  <2> DEFINE q == [req[r] EXCEPT !.pc = "health"]
  <2>1. Fits(req[r]) /\ req[r] \in RequestStates /\ req[r].row \in Rows
    BY <1>0, <1>9 DEF Fits, RecordQuota
  <2>2. Fits(q)
    BY <2>1 DEF Fits, RequestStates
  <2>3. req' = [req EXCEPT ![r] = q]
    BY <1>9 DEF RecordQuota
  <2> HIDE DEF q
  <2>4. ReqOK
    BY <2>2, <2>3, ReplaceRequest DEF ReqOK
  <2>5. RecordUsage(quota[req[r].row.mapping_id], tokens) \in Usages
    BY <1>0, <2>1, RecordUsageType, InputAssumption DEF Rows
  <2>6. quota' \in [Mappings -> Usages]
    BY <1>0, <1>9, <2>5 DEF RecordQuota
  <2> QED BY <1>0, <1>9, <1>a, <2>4, <2>6 DEF RecordQuota
<1>10. ASSUME NEW r \in Requests, RecordHealth(r)
       PROVE  TypeOK'
  <2> DEFINE k == req[r].row.channel_name
  <2>1. req[r].row \in Rows /\ req[r].status \in Statuses
    BY <1>0, <1>10 DEF Fits, RequestStates, RecordHealth
  <2>2. k \in HealthKeys
    BY <2>1 DEF Rows, HealthKeys
  <2>3. Sound(AfterStatus(health[k], req[r].status))
    BY <1>0, <2>1, <2>2, AfterStatusSound
  <2>4. AfterStatus(health[k], req[r].status) \in ChannelStates
    BY <2>3 DEF Sound
  <2>5. health' = [health EXCEPT ![k] = AfterStatus(health[k], req[r].status)]
    BY <1>10 DEF RecordHealth
  <2>6. HealthOK
    BY <1>0, <2>2, <2>3, <2>4, <2>5
  <2> QED BY <1>0, <1>10, <1>a, <1>c, <2>6 DEF RecordHealth
<1>11. CASE Tick
  <2>1. \A k \in HealthKeys : Sound(health'[k]) /\ health'[k] \in ChannelStates
    BY <1>0, <1>11, AgeSound DEF Tick, Sound
  <2>2. HealthOK
    BY <1>11, <2>1 DEF Tick
  <2> QED BY <1>0, <1>11, <1>a, <2>2 DEF Tick, ReqOK
<1>12. CASE NextMonth
  <2>1. month' \in 0..MaxMonth
    BY <1>0, <1>12, InputAssumption DEF NextMonth
  <2> QED BY <1>0, <1>12, <1>a, <2>1 DEF NextMonth, ReqOK
<1>13. CASE UNCHANGED vars
  BY <1>0, <1>13, <1>b DEF vars, ReqOK
<1>14. CASE AdminStep
  <2>1. edits' \in 0..MaxEdits /\ UNCHANGED <<quota, month, req>>
    BY <1>0, <1>14, InputAssumption
    DEF AdminStep, SwapChannels, PublishKey, ProbeHealthy, ProbeUnhealthy, Edit
  <2>2. ReqOK
    BY <1>0, <2>1 DEF ReqOK
  <2>3. ASSUME NEW cat \in Catalogs, SwapChannels(cat) PROVE AdminOK /\ HealthOK
    BY <1>0, <2>1, <2>3 DEF SwapChannels
  <2>4. ASSUME NEW id \in ChannelIds, NEW key \in Keys \cup {NoKey}, PublishKey(id, key)
        PROVE  AdminOK /\ HealthOK
    BY <1>0, <2>1, <2>4 DEF PublishKey
  <2>5. ASSUME NEW id \in ChannelIds, NEW s, Sound(s), health' = [health EXCEPT ![id] = s]
        PROVE  HealthOK
    BY <1>0, <2>5 DEF HealthKeys, Sound
  <2>6. ASSUME NEW id \in ChannelIds, ProbeHealthy(id) \/ ProbeUnhealthy(id)
        PROVE  AdminOK /\ HealthOK
    <3>1. AdminOK
      BY <1>0, <2>1, <2>6 DEF ProbeHealthy, ProbeUnhealthy
    <3>2. \/ health' = [health EXCEPT ![id] = NewState]
          \/ health' = [health EXCEPT ![id] = MarkUnhealthy(health[id])]
      BY <2>6 DEF ProbeHealthy, ProbeUnhealthy
    <3> QED BY <2>5, <3>1, <3>2, NewStatesSound
  <2> QED BY <1>0, <1>14, <1>n, <2>1, <2>2, <2>3, <2>4, <2>6 DEF AdminStep
<1> QED
  BY <1>1, <1>2, <1>3, <1>4, <1>5, <1>6, <1>7, <1>8, <1>9, <1>10, <1>11, <1>12, <1>13, <1>14
  DEF Next, RequestStep, SelectStep, ResponseStep

\* Every reachable state of the router is well typed: the shared maps, the rows
\* a request holds, and each health entry within its own cooldown.
THEOREM TypeCorrect == Spec => []TypeOK
  BY InitTypeOK, NextTypeOK, PTL DEF Spec

-----------------------------------------------------------------------------
(* A failing channel rests *)

\* The router's health entry agrees with the observer's verdict.
Agrees(v, s) ==
  /\ v.kind \in {"none", "ok", "rate_limited", "down"}
  /\ v.age \in Nat
  /\ v.kind = "down" => s = [health |-> "Unhealthy", failures |-> 3, elapsed |-> v.age]
  /\ v.kind = "rate_limited"
     => s = [health |-> "Unhealthy", failures |-> 1, elapsed |-> v.age]

VerdictsAgree ==
  /\ written = [k \in HealthKeys |-> written[k]]
  /\ \A k \in HealthKeys :
       written[k] = [kind |-> written[k].kind, age |-> written[k].age]
  /\ \A k \in HealthKeys : Agrees(written[k], health[k])

\* The inductive invariant of the theorem.
RestInv == TypeOK /\ VerdictsAgree

\* A channel that is tryable has rested as long as its verdict asks for.
LEMMA TryableRested ==
  ASSUME NEW v, NEW s, Agrees(v, s), IsTryablePastCooldown(s)
  PROVE  Rested(v)
  BY HealthCooldownAssumption
  DEF Agrees, IsTryablePastCooldown, Rested, Rest, EffectiveCooldown,
      ExponentialCooldown, NeverFailed

\* Time ages the verdict and the health entry together.
LEMMA AgeAgrees ==
  ASSUME NEW v, NEW s, Agrees(v, s), v = [kind |-> v.kind, age |-> v.age]
  PROVE  Agrees(IF Rested(v) THEN v ELSE [v EXCEPT !.age = @ + 1], Age(s))
<1>1. CASE v.kind \in {"none", "ok"}
  <2>1. Rested(v)
    BY <1>1 DEF Agrees, Rested, Rest
  <2> QED BY <1>1, <2>1 DEF Agrees
<1>2. CASE v.kind = "down"
  BY <1>2, HealthCooldownAssumption
  DEF Agrees, Rested, Rest, Age, Cooling, EffectiveCooldown, ExponentialCooldown,
      NeverFailed
<1>3. CASE v.kind = "rate_limited"
  BY <1>3, HealthCooldownAssumption
  DEF Agrees, Rested, Rest, Age, Cooling, EffectiveCooldown, NeverFailed
<1> QED BY <1>1, <1>2, <1>3 DEF Agrees

\* A recorded response sets both to the same verdict.
LEMMA StatusAgrees ==
  ASSUME NEW s, NEW status \in Statuses, status # "client_error"
  PROVE  Agrees([kind |-> Kind(status), age |-> 0], AfterStatus(s, status))
  BY DEF Agrees, Kind, AfterStatus, Statuses, MarkUnhealthy, MarkRateLimited,
         RecordSuccess

\* So does a probe.
LEMMA ProbeAgrees ==
  ASSUME NEW s
  PROVE  /\ Agrees(NoVerdict, NewState)
         /\ Agrees([kind |-> "down", age |-> 0], MarkUnhealthy(s))
  BY DEF Agrees, NoVerdict, MarkUnhealthy

\* Only recording a response takes a request from "health" to "idle", and only
\* that, time and probes change the health map.
LEMMA HealthWriters ==
  ASSUME TypeOK, [Next]_vars
  PROVE  \/ \E r \in Requests : RecordHealth(r)
         \/ Tick
         \/ /\ \A k \in HealthKeys :
                 \/ health'[k] = health[k]
                 \/ k \in ChannelIds /\ (ProbeHealthy(k) \/ ProbeUnhealthy(k))
            /\ \A r \in Requests : ~(req[r].pc = "health" /\ req'[r].pc = "idle")
<1>0. req \in [Requests -> RequestStates] /\ health \in [HealthKeys -> ChannelStates]
  BY DEF TypeOK
<1> DEFINE Same == /\ health' = health
                   /\ \A r \in Requests : ~(req[r].pc = "health" /\ req'[r].pc = "idle")
<1>a. ASSUME NEW r \in Requests, Finish(r), req[r].pc # "health", health' = health
      PROVE  Same
  BY <1>0, <1>a DEF Finish
<1>1. ASSUME NEW r \in Requests, NEW model, NEW format, OnRequest(r, model, format)
      PROVE  Same
  BY <1>0, <1>1 DEF OnRequest, Finish
<1>2. ASSUME NEW r \in Requests, SelectStep(r) PROVE Same
  BY <1>0, <1>2 DEF SelectStep, Accept, Block, Skip, NoneLeft, Examines, Finish
<1>3. ASSUME NEW r \in Requests, Forward(r) PROVE Same
  BY <1>0, <1>3 DEF Forward, Finish
<1>4. ASSUME NEW r \in Requests, NEW status, UpstreamAnswers(r, status) PROVE Same
  BY <1>0, <1>4 DEF UpstreamAnswers, Finish
<1>5. ASSUME NEW r \in Requests, UpstreamFails(r) PROVE Same
  BY <1>a, <1>5 DEF UpstreamFails
<1>6. ASSUME NEW r \in Requests, NEW tokens, RecordQuota(r, tokens) PROVE Same
  <2>1. req'[r] = [req[r] EXCEPT !.pc = "health"]
    BY <1>0, <1>6 DEF RecordQuota
  <2>2. req'[r].pc = "health"
    BY <1>0, <2>1 DEF RequestStates
  <2> QED BY <1>0, <1>6, <2>2 DEF RecordQuota
<1>7. CASE UNCHANGED <<health, req>>
  BY <1>7
<1>8. ASSUME NEW id \in ChannelIds, ProbeHealthy(id) \/ ProbeUnhealthy(id)
      PROVE  /\ req' = req
             /\ \A k \in HealthKeys :
                  \/ health'[k] = health[k]
                  \/ k \in ChannelIds /\ (ProbeHealthy(k) \/ ProbeUnhealthy(k))
  <2>1. req' = req /\ \E s : health' = [health EXCEPT ![id] = s]
    BY <1>8 DEF ProbeHealthy, ProbeUnhealthy
  <2>2. \A k \in HealthKeys : k # id => health'[k] = health[k]
    BY <1>0, <2>1
  <2> QED BY <1>8, <2>1, <2>2
<1> HIDE DEF Same
<1>9. CASE AdminStep
  BY <1>0, <1>7, <1>8, <1>9 DEF AdminStep, SwapChannels, PublishKey, Same
<1> QED
  BY <1>1, <1>2, <1>3, <1>4, <1>5, <1>6, <1>7, <1>9
  DEF Next, RequestStep, ResponseStep, NextMonth, vars, Same

\* The verdicts keep agreeing with the health map.
LEMMA VerdictsKeepAgreeing ==
  ASSUME RestInv, [Next]_vars, VerdictStep
  PROVE  VerdictsAgree'
<1>0. /\ written = [id \in HealthKeys |-> written[id]]
      /\ \A id \in HealthKeys :
           /\ written[id] = [kind |-> written[id].kind, age |-> written[id].age]
           /\ Agrees(written[id], health[id])
      /\ health \in [HealthKeys -> ChannelStates]
      /\ req \in [Requests -> RequestStates]
      /\ \A r \in Requests : Fits(req[r])
      /\ edits \in Nat
  BY TypeOKPointwise DEF RestInv, VerdictsAgree
<1> DEFINE Recorded(id) ==
             \E r \in Requests : /\ req[r].pc = "health" /\ req'[r].pc = "idle"
                                 /\ req[r].row.channel_name = id
                                 /\ req[r].status # "client_error"
           Writer == CHOOSE r \in Requests : req[r].pc = "health" /\ req'[r].pc = "idle"
           Aged(id) == [written[id] EXCEPT !.age = @ + 1]
<1>a. written' = [id \in HealthKeys |->
        IF Recorded(id) THEN [kind |-> Kind(req[Writer].status), age |-> 0]
        ELSE IF id \in ChannelIds /\ ProbeHealthy(id) THEN NoVerdict
        ELSE IF id \in ChannelIds /\ ProbeUnhealthy(id) THEN [kind |-> "down", age |-> 0]
        ELSE IF Tick /\ ~Rested(written[id]) THEN Aged(id)
        ELSE written[id]]
  BY DEF VerdictStep, After
<1>b. ASSUME \A id \in HealthKeys :
               /\ written'[id] = [kind |-> written'[id].kind, age |-> written'[id].age]
               /\ Agrees(written'[id], health'[id])
      PROVE  VerdictsAgree'
  BY <1>a, <1>b DEF VerdictsAgree
<1>1. ASSUME NEW r \in Requests, RecordHealth(r)
      PROVE  VerdictsAgree'
  <2> DEFINE k == req[r].row.channel_name
  <2>1. /\ req[r].row \in Rows /\ req[r].status \in Statuses
        /\ req[r].pc = "health"
    BY <1>0, <1>1 DEF Fits, RequestStates, RecordHealth
  <2>2. k \in HealthKeys
    BY <2>1 DEF Rows, HealthKeys
  <2>3. health' = [health EXCEPT ![k] = AfterStatus(health[k], req[r].status)]
    BY <1>1, <2>1 DEF RecordHealth
  <2>4. req' = [req EXCEPT ![r] = Idle] /\ req'[r].pc = "idle"
    BY <1>0, <1>1 DEF RecordHealth, Finish, Idle
  <2>5. \A p \in Requests : req[p].pc = "health" /\ req'[p].pc = "idle" => p = r
    BY <1>0, <2>4
  <2>6. Writer = r
    BY <2>1, <2>4, <2>5
  <2>7. ~Tick /\ \A id : ~ProbeHealthy(id) /\ ~ProbeUnhealthy(id)
    BY <2>1, <2>4 DEF Tick, ProbeHealthy, ProbeUnhealthy
  <2> SUFFICES ASSUME NEW id \in HealthKeys
               PROVE  /\ written'[id] = [kind |-> written'[id].kind, age |-> written'[id].age]
                      /\ Agrees(written'[id], health'[id])
    BY <1>b
  <2>8. Recorded(id) <=> id = k /\ req[r].status # "client_error"
    BY <2>1, <2>4, <2>5
  <2> HIDE DEF Recorded, Writer
  <2>9. CASE Recorded(id)
    <3>1. written'[id] = [kind |-> Kind(req[r].status), age |-> 0]
      BY <1>a, <2>6, <2>9
    <3>2. health'[id] = AfterStatus(health[k], req[r].status)
      BY <1>0, <2>2, <2>3, <2>8, <2>9
    <3>3. Agrees([kind |-> Kind(req[r].status), age |-> 0],
                 AfterStatus(health[k], req[r].status))
      BY <2>1, <2>8, <2>9, StatusAgrees
    <3> QED BY <3>1, <3>2, <3>3
  <2>10. CASE ~Recorded(id)
    <3>1. written'[id] = written[id]
      BY <1>a, <2>7, <2>10
    <3>2. health'[id] = health[id]
      BY <1>0, <2>2, <2>3, <2>8, <2>10 DEF AfterStatus
    <3> QED BY <1>0, <3>1, <3>2
  <2> QED BY <2>9, <2>10
<1>2. ASSUME Tick PROVE VerdictsAgree'
  <2>1. req' = req /\ \A id \in HealthKeys : health'[id] = Age(health[id])
    BY <1>0, <1>2 DEF Tick
  <2>2. \A id : ~ProbeHealthy(id) /\ ~ProbeUnhealthy(id)
    BY <1>0, <1>2 DEF Tick, ProbeHealthy, ProbeUnhealthy, Edit, admin
  <2> SUFFICES ASSUME NEW id \in HealthKeys
               PROVE  /\ written'[id] = [kind |-> written'[id].kind, age |-> written'[id].age]
                      /\ Agrees(written'[id], health'[id])
    BY <1>b
  <2>3. ~Recorded(id)
    BY <2>1
  <2> HIDE DEF Recorded, Writer
  <2>4. written'[id] = IF Rested(written[id]) THEN written[id] ELSE Aged(id)
    BY <1>2, <1>a, <2>2, <2>3
  <2>5. Agrees(written'[id], health'[id])
    BY <1>0, <2>1, <2>4, AgeAgrees
  <2>6. written'[id] = [kind |-> written'[id].kind, age |-> written'[id].age]
    BY <1>0, <2>4
  <2> QED BY <2>5, <2>6
<1>3. ASSUME ~Tick,
             \A id \in HealthKeys :
               \/ health'[id] = health[id]
               \/ id \in ChannelIds /\ (ProbeHealthy(id) \/ ProbeUnhealthy(id)),
             \A r \in Requests : ~(req[r].pc = "health" /\ req'[r].pc = "idle")
      PROVE  VerdictsAgree'
  <2> SUFFICES ASSUME NEW id \in HealthKeys
               PROVE  /\ written'[id] = [kind |-> written'[id].kind, age |-> written'[id].age]
                      /\ Agrees(written'[id], health'[id])
    BY <1>b
  <2>1. ~Recorded(id)
    BY <1>3
  <2> HIDE DEF Recorded, Writer
  <2>2. CASE id \in ChannelIds /\ ProbeHealthy(id)
    <3>1. written'[id] = NoVerdict /\ health'[id] = NewState
      BY <1>0, <1>a, <2>1, <2>2 DEF ProbeHealthy
    <3> QED BY <3>1, ProbeAgrees DEF NoVerdict
  <2>3. CASE id \in ChannelIds /\ ProbeUnhealthy(id) /\ ~ProbeHealthy(id)
    <3>1. /\ written'[id] = [kind |-> "down", age |-> 0]
          /\ health'[id] = MarkUnhealthy(health[id])
      <4>1. written'[id] = [kind |-> "down", age |-> 0]
        BY <1>a, <2>1, <2>3
      <4>2. health' = [health EXCEPT ![id] = MarkUnhealthy(health[id])]
        BY <2>3 DEF ProbeUnhealthy
      <4> QED BY <1>0, <4>1, <4>2
    <3> QED BY <3>1, ProbeAgrees
  <2>4. CASE ~(id \in ChannelIds /\ (ProbeHealthy(id) \/ ProbeUnhealthy(id)))
    <3>1. written'[id] = written[id] /\ health'[id] = health[id]
      BY <1>3, <1>a, <2>1, <2>4
    <3> QED BY <1>0, <3>1
  <2> QED BY <2>2, <2>3, <2>4
<1> QED BY <1>1, <1>2, <1>3, HealthWriters DEF RestInv

\* Every state keeps the agreement between what was last recorded under a key and
\* what the router believes of the channel it looks up under that key.
LEMMA RestInvariant == HSpec => []RestInv
<1>1. HInit => RestInv
  <2> SUFFICES ASSUME HInit PROVE RestInv
    OBVIOUS
  <2>1. TypeOK
    BY InitTypeOK DEF HInit
  <2>2. VerdictsAgree
    BY DEF HInit, HistoryInit, VerdictsAgree, Agrees, NoVerdict
  <2> QED BY <2>1, <2>2 DEF RestInv
<1>2. RestInv /\ [HNext]_hvars => RestInv'
  <2> SUFFICES ASSUME RestInv, [HNext]_hvars PROVE RestInv'
    OBVIOUS
  <2>1. CASE HNext
    BY <2>1, NextTypeOK, VerdictsKeepAgreeing DEF HNext, HistoryStep, RestInv
  <2>2. CASE UNCHANGED hvars
    <3>1. TypeOK'
      BY <2>2, NextTypeOK DEF hvars, RestInv
    <3> QED BY <2>2, <3>1 DEF hvars, vars, history, RestInv, VerdictsAgree
  <2> QED BY <2>1, <2>2
<1> QED BY <1>1, <1>2, PTL DEF HSpec

\* Whatever the channels are called: a channel under whose id a failed probe, or a 5xx,
\* a 401 or a 429 of a channel of that name, was last recorded is not selected before
\* the cooldown is over, however requests and administrators interleave.
THEOREM EntriesHonoured == HSpec => WrittenRests
<1> DEFINE Rests == \A r \in Requests :
                      Chooses(r) => Rested(written[req'[r].row.channel_id])
<1>1. RestInv /\ [HNext]_hvars => [Rests]_hvars
  <2> SUFFICES ASSUME RestInv, HNext, NEW r \in Requests, Chooses(r)
               PROVE  Rested(written[req'[r].row.channel_id])
    OBVIOUS
  <2>0. req \in [Requests -> RequestStates] /\ \A p \in Requests : Fits(req[p])
    BY TypeOKPointwise DEF RestInv
  <2>1. PICK c \in req[r].left : Accept(r, c)
    <3>1. ASSUME NEW p \in Requests, Finish(p) PROVE FALSE
      BY <2>0, <3>1 DEF Finish, Chooses, Idle
    <3>2. ASSUME NEW p \in Requests, NEW model, NEW format, OnRequest(p, model, format)
          PROVE  FALSE
      BY <2>0, <3>1, <3>2 DEF OnRequest, Chooses, Idle
    <3>3. ASSUME NEW p \in Requests, NEW c \in req[p].left, Skip(p, c)
          PROVE  FALSE
      BY <2>0, <3>3 DEF Skip, Chooses, RequestStates
    <3>4. ASSUME NEW p \in Requests, Forward(p) PROVE FALSE
      BY <2>0, <3>1, <3>4 DEF Forward, Chooses, RequestStates
    <3>5. ASSUME NEW p \in Requests, NEW status, UpstreamAnswers(p, status)
          PROVE  FALSE
      BY <2>0, <3>1, <3>5 DEF UpstreamAnswers, Chooses, RequestStates
    <3>6. ASSUME NEW p \in Requests, NEW tokens, RecordQuota(p, tokens)
          PROVE  FALSE
      BY <2>0, <3>6 DEF RecordQuota, Chooses, RequestStates
    <3>7. ASSUME NEW p \in Requests, NEW c \in req[p].left, Accept(p, c)
          PROVE  p = r
      BY <2>0, <3>7 DEF Accept, Chooses
    <3> QED
      BY <3>1, <3>2, <3>3, <3>4, <3>5, <3>6, <3>7
      DEF HNext, Next, RequestStep, SelectStep, ResponseStep, Block, NoneLeft,
          UpstreamFails, RecordHealth, Tick, NextMonth, AdminStep, SwapChannels,
          PublishKey, ProbeHealthy, ProbeUnhealthy, Chooses
  <2>2. req'[r].row = req[r].rows[c[2]]
    BY <2>0, <2>1 DEF Accept, Idle
  <2> DEFINE id == req'[r].row.channel_id
  <2>3. IsTryablePastCooldown(health[id])
    BY <2>1, <2>2 DEF Accept, Accepts, IsHealthy
  <2>4. id \in ChannelIds
    <3>1. c[2] \in DOMAIN req[r].rows
      BY <2>0 DEF Fits
    <3>2. req[r].rows \in Catalogs
      BY <2>0, <3>1 DEF RequestStates
    <3> QED BY <2>2, <3>1, <3>2, CatalogRows DEF Rows
  <2>5. Agrees(written[id], health[id])
    BY <2>4 DEF RestInv, VerdictsAgree, HealthKeys
  <2> QED BY <2>3, <2>5, TryableRested
<1> QED BY <1>1, RestInvariant, PTL DEF HSpec, WrittenRests

\* on_response knows a channel by its name and select_channel by its id: the
\* catalogs in which that makes no difference.
NamesAreIds ==
  \A cat \in Catalogs : \A i \in DOMAIN cat : cat[i].channel_name = cat[i].channel_id

\* Requests in flight carry rows of such catalogs.
RowsNamedById ==
  \A r \in Requests :
    req[r].pc \in {"picked", "sent", "quota", "health"}
    => req[r].row.channel_name = req[r].row.channel_id

\* Requests get their rows from the snapshot and keep them.
LEMMA RowsStayNamed ==
  ASSUME NamesAreIds, TypeOK, RowsNamedById, [Next]_vars
  PROVE  RowsNamedById'
<1> DEFINE Named(q) == q.pc \in {"picked", "sent", "quota", "health"}
                       => q.row.channel_name = q.row.channel_id
<1>0. /\ \A r \in Requests : Fits(req[r]) /\ Named(req[r])
      /\ req \in [Requests -> RequestStates]
  BY TypeOKPointwise DEF RowsNamedById
<1>a. ASSUME NEW r \in Requests, NEW q, Named(q), req' = [req EXCEPT ![r] = q]
      PROVE  RowsNamedById'
  BY <1>0, <1>a DEF RowsNamedById
<1>b. Named(Idle)
  BY DEF Idle
<1>c. ASSUME NEW r \in Requests, Finish(r) PROVE RowsNamedById'
  BY <1>a, <1>b, <1>c DEF Finish
<1>1. ASSUME NEW r \in Requests, NEW model, NEW format, OnRequest(r, model, format)
      PROVE  RowsNamedById'
  <2> DEFINE q == [Idle EXCEPT !.pc = "scan", !.format = format, !.rows = channels,
                               !.left = Candidates(channels, model)]
  <2>1. Named(q)
    BY DEF Idle
  <2>2. Finish(r) \/ req' = [req EXCEPT ![r] = q]
    BY <1>1 DEF OnRequest
  <2> HIDE DEF q, Named
  <2> QED BY <1>a, <1>c, <2>1, <2>2
<1>2. ASSUME NEW r \in Requests, NEW c \in req[r].left, Accept(r, c)
      PROVE  RowsNamedById'
  <2> DEFINE q == [Idle EXCEPT !.pc = "picked", !.format = req[r].format,
                               !.row = req[r].rows[c[2]]]
  <2>1. c[2] \in DOMAIN req[r].rows /\ req[r] \in RequestStates
    BY <1>0 DEF Fits
  <2>2. req[r].rows \in Catalogs
    BY <2>1 DEF RequestStates
  <2>3. q.row = req[r].rows[c[2]]
    BY DEF Idle
  <2>4. Named(q)
    BY <2>1, <2>2, <2>3 DEF NamesAreIds
  <2>5. req' = [req EXCEPT ![r] = q]
    BY <1>2 DEF Accept
  <2> HIDE DEF q, Named
  <2> QED BY <1>a, <2>4, <2>5
<1>3. ASSUME NEW r \in Requests, NEW c \in req[r].left, Skip(r, c)
      PROVE  RowsNamedById'
  BY <1>0, <1>3 DEF Skip, Examines, RequestStates, RowsNamedById
<1>4. ASSUME NEW r \in Requests, Forward(r) PROVE RowsNamedById'
  <2>1. CASE Finish(r)
    BY <1>c, <2>1
  <2>2. CASE ~Finish(r)
    BY <1>0, <1>4, <2>2 DEF Forward, RequestStates, RowsNamedById
  <2> QED BY <2>1, <2>2
<1>5. ASSUME NEW r \in Requests, NEW status, UpstreamAnswers(r, status)
      PROVE  RowsNamedById'
  <2>1. CASE Finish(r)
    BY <1>c, <2>1
  <2>2. CASE ~Finish(r)
    BY <1>0, <1>5, <2>2 DEF UpstreamAnswers, RequestStates, RowsNamedById
  <2> QED BY <2>1, <2>2
<1>6. ASSUME NEW r \in Requests, NEW tokens, RecordQuota(r, tokens)
      PROVE  RowsNamedById'
  BY <1>0, <1>6 DEF RecordQuota, RequestStates, RowsNamedById
<1>7. ASSUME UNCHANGED req PROVE RowsNamedById'
  BY <1>7 DEF RowsNamedById
<1> HIDE DEF Named
<1> QED
  BY <1>c, <1>1, <1>2, <1>3, <1>4, <1>5, <1>6, <1>7
  DEF Next, RequestStep, SelectStep, ResponseStep, Block, NoneLeft, UpstreamFails,
      RecordHealth, Tick, NextMonth, AdminStep, SwapChannels, PublishKey, ProbeHealthy,
      ProbeUnhealthy, vars

\* The verdict on a channel is then the one written under its id.
SameVerdict == \A id \in ChannelIds : verdict[id] = written[id]

LEMMA NamedInvariant ==
  ASSUME NamesAreIds
  PROVE  HSpec => [](TypeOK /\ RowsNamedById /\ SameVerdict)
<1> DEFINE Inv == TypeOK /\ RowsNamedById /\ SameVerdict
<1>1. HInit => Inv
  <2> SUFFICES ASSUME HInit PROVE Inv
    OBVIOUS
  <2>1. TypeOK
    BY InitTypeOK DEF HInit
  <2>2. RowsNamedById
    BY DEF HInit, Init, RowsNamedById, Idle
  <2>3. SameVerdict
    BY DEF HInit, HistoryInit, SameVerdict, HealthKeys
  <2> QED BY <2>1, <2>2, <2>3
<1>2. Inv /\ [HNext]_hvars => Inv'
  <2> SUFFICES ASSUME Inv, [HNext]_hvars PROVE Inv'
    OBVIOUS
  <2>0. [Next]_vars
    BY DEF HNext, hvars
  <2>1. TypeOK' /\ RowsNamedById'
    BY <2>0, NextTypeOK, RowsStayNamed
  <2>2. CASE HNext
    <3> SUFFICES ASSUME NEW id \in ChannelIds PROVE verdict'[id] = written'[id]
      BY <2>1 DEF SameVerdict
    <3>1. /\ verdict'[id] = After(verdict[id], id, "channel_id")
          /\ written'[id] = After(written[id], id, "channel_name")
      BY <2>2 DEF HNext, HistoryStep, VerdictStep, HealthKeys
    <3>2. \A r \in Requests :
            req[r].pc = "health" => req[r].row["channel_name"] = req[r].row["channel_id"]
      BY DEF RowsNamedById
    <3>3. verdict[id] = written[id]
      BY DEF SameVerdict
    <3>4. (\E r \in Requests : /\ req[r].pc = "health" /\ req'[r].pc = "idle"
                                /\ req[r].row["channel_id"] = id
                                /\ req[r].status # "client_error")
          <=> (\E r \in Requests : /\ req[r].pc = "health" /\ req'[r].pc = "idle"
                                   /\ req[r].row["channel_name"] = id
                                   /\ req[r].status # "client_error")
      BY <3>2
    <3>5. After(verdict[id], id, "channel_id") = After(written[id], id, "channel_name")
      BY <3>3, <3>4 DEF After
    <3> QED BY <3>1, <3>5
  <2>3. CASE UNCHANGED hvars
    BY <2>1, <2>3 DEF hvars, history, SameVerdict
  <2> QED BY <2>2, <2>3
<1> QED BY <1>1, <1>2, PTL DEF HSpec

\* For the configurations that name every channel by its id, the verdict on a channel
\* is honoured too.
COROLLARY FailingChannelsRest == ASSUME NamesAreIds PROVE HSpec => FailingChannelRests
<1> DEFINE Rests == \A r \in Requests :
                      Chooses(r) => Rested(verdict[req'[r].row.channel_id])
      Stored == \A r \in Requests :
                  Chooses(r) => Rested(written[req'[r].row.channel_id])
      Inv == TypeOK /\ RowsNamedById /\ SameVerdict
<1>1. Inv /\ Inv' /\ [Stored]_hvars => [Rests]_hvars
  <2> SUFFICES ASSUME Inv, Inv', Stored, NEW r \in Requests, Chooses(r)
               PROVE  Rested(verdict[req'[r].row.channel_id])
    OBVIOUS
  <2>1. Fits(req'[r])
    BY DEF TypeOK, Fits
  <2>2. req'[r].row.channel_id \in ChannelIds
    BY <2>1 DEF Fits, Chooses, Rows
  <2> QED BY <2>2 DEF SameVerdict
<1> QED BY <1>1, NamedInvariant, EntriesHonoured, PTL DEF WrittenRests, FailingChannelRests

-----------------------------------------------------------------------------
(* The quota counters *)

\* No counter is of a month to come.
NotAhead == \A m \in Mappings : quota[m].month <= month

QuotaInv == TypeOK /\ NotAhead /\ QuotaCountsThisMonth

\* Only a recorded response takes a request from "quota" to "health" and only it
\* writes a counter; only the calendar changes the month.
LEMMA QuotaWriters ==
  ASSUME TypeOK, [Next]_vars
  PROVE  \/ \E r \in Requests, tokens \in TokenCounts : RecordQuota(r, tokens)
         \/ NextMonth
         \/ /\ quota' = quota /\ month' = month
            /\ \A r \in Requests : ~(req[r].pc = "quota" /\ req'[r].pc = "health")
<1>0. req \in [Requests -> RequestStates]
  BY DEF TypeOK
<1> DEFINE Same == /\ quota' = quota /\ month' = month
                   /\ \A r \in Requests : ~(req[r].pc = "quota" /\ req'[r].pc = "health")
<1>a. ASSUME NEW r \in Requests, Finish(r), quota' = quota, month' = month
      PROVE  Same
  BY <1>0, <1>a DEF Finish, Idle
<1>1. ASSUME NEW r \in Requests, NEW model, NEW format, OnRequest(r, model, format)
      PROVE  Same
  BY <1>0, <1>1 DEF OnRequest, Finish, Idle
<1>2. ASSUME NEW r \in Requests, SelectStep(r) PROVE Same
  BY <1>0, <1>2 DEF SelectStep, Accept, Block, Skip, NoneLeft, Examines, Finish
<1>3. ASSUME NEW r \in Requests, Forward(r) PROVE Same
  BY <1>0, <1>3 DEF Forward, Finish
<1>4. ASSUME NEW r \in Requests, NEW status, UpstreamAnswers(r, status) PROVE Same
  BY <1>0, <1>4 DEF UpstreamAnswers, Finish
<1>5. ASSUME NEW r \in Requests, UpstreamFails(r) \/ RecordHealth(r) PROVE Same
  BY <1>a, <1>5 DEF UpstreamFails, RecordHealth
<1>6. CASE UNCHANGED <<quota, month, req>>
  BY <1>6
<1> HIDE DEF Same
<1> QED
  BY <1>1, <1>2, <1>3, <1>4, <1>5, <1>6
  DEF Next, RequestStep, ResponseStep, Tick, AdminStep, SwapChannels, PublishKey,
      ProbeHealthy, ProbeUnhealthy, vars, Same

\* A recorded response counts one request of this month, of this mapping only.
LEMMA CountedOnce ==
  ASSUME QuotaInv, AnsweredStep, NEW r \in Requests, NEW tokens \in TokenCounts,
         RecordQuota(r, tokens)
  PROVE  NotAhead' /\ QuotaCountsThisMonth'
<1> DEFINE m == req[r].row.mapping_id
<1>1. /\ req \in [Requests -> RequestStates]
      /\ quota \in [Mappings -> Usages] /\ month \in 0..MaxMonth
      /\ req[r].row \in Rows
  BY DEF QuotaInv, TypeOK, RecordQuota
<1>2. m \in Mappings
  BY <1>1 DEF Rows
<1>3. /\ quota' = [quota EXCEPT ![m] = RecordUsage(quota[m], tokens)]
      /\ month' = month
      /\ req' = [req EXCEPT ![r].pc = "health"]
      /\ req[r].pc = "quota"
  BY DEF RecordQuota
<1>4. /\ req'[r].pc = "health"
      /\ \A q \in Requests : req[q].pc = "quota" /\ req'[q].pc = "health" => q = r
  BY <1>1, <1>3 DEF RequestStates
<1>5. \A n \in Mappings : answered'[n] = IF n = m THEN Add(answered[n], 1) ELSE answered[n]
  BY <1>3, <1>4 DEF AnsweredStep
<1>6. quota[m] \in Usages /\ MaybeReset(quota[m]) \in Usages
  BY <1>1, <1>2, InputAssumption DEF MaybeReset, Usages
<1>7. /\ MaybeReset(quota[m]).month = month
      /\ MaybeReset(quota[m]).requests = answered[m]
  BY <1>2 DEF MaybeReset, QuotaInv, QuotaCountsThisMonth
<1>8. /\ quota'[m].month = month
      /\ quota'[m].requests = Add(answered[m], 1)
      /\ \A n \in Mappings \ {m} : quota'[n] = quota[n]
  BY <1>1, <1>2, <1>3, <1>6, <1>7 DEF RecordUsage, Usages
<1>9. month \in Nat
  BY <1>1, InputAssumption
<1>10. NotAhead'
  BY <1>3, <1>8, <1>9 DEF NotAhead, QuotaInv
<1>11. QuotaCountsThisMonth'
  BY <1>3, <1>5, <1>8 DEF QuotaCountsThisMonth, QuotaInv
<1> QED
  BY <1>10, <1>11

\* A new month begins with nothing counted, since no counter is of that month yet.
LEMMA MonthTurns ==
  ASSUME QuotaInv, AnsweredStep, NextMonth
  PROVE  NotAhead' /\ QuotaCountsThisMonth'
<1>1. month \in Nat /\ month' = month + 1 /\ quota' = quota
  BY InputAssumption DEF QuotaInv, TypeOK, NextMonth
<1>2. \A m \in Mappings : quota[m].month \in Nat /\ quota[m].month <= month
  BY InputAssumption DEF QuotaInv, TypeOK, NotAhead, Usages
<1>3. \A m \in Mappings : answered'[m] = 0
  BY <1>1 DEF AnsweredStep
<1> QED
  BY <1>1, <1>2, <1>3 DEF NotAhead, QuotaCountsThisMonth

\* The usage a mapping's quota is compared with is that of the month it says,
\* whatever responses are recorded in whatever order and on either side of the
\* turn of a month: nothing is counted twice, dropped or carried over.
THEOREM QuotaOfTheMonth == HSpec => []QuotaCountsThisMonth
<1>1. HInit => QuotaInv
  <2> SUFFICES ASSUME HInit PROVE QuotaInv
    OBVIOUS
  <2>1. TypeOK
    BY InitTypeOK DEF HInit
  <2>2. NotAhead /\ QuotaCountsThisMonth
    BY DEF HInit, Init, HistoryInit, NewUsage, NotAhead, QuotaCountsThisMonth
  <2> QED
    BY <2>1, <2>2 DEF QuotaInv
<1>2. QuotaInv /\ [HNext]_hvars => QuotaInv'
  <2> SUFFICES ASSUME QuotaInv, [HNext]_hvars PROVE QuotaInv'
    OBVIOUS
  <2>1. TypeOK'
    BY NextTypeOK DEF QuotaInv, HNext, hvars
  <2>2. CASE UNCHANGED hvars
    BY <2>1, <2>2 DEF hvars, vars, history, QuotaInv, NotAhead, QuotaCountsThisMonth
  <2>3. CASE HNext
    <3>1. [Next]_vars /\ AnsweredStep
      BY <2>3 DEF HNext, HistoryStep
    <3>2. CASE /\ quota' = quota /\ month' = month
               /\ \A r \in Requests : ~(req[r].pc = "quota" /\ req'[r].pc = "health")
      <4>1. \A m \in Mappings : answered'[m] = answered[m]
        BY <3>1, <3>2 DEF AnsweredStep
      <4> QED
        BY <2>1, <3>2, <4>1 DEF QuotaInv, NotAhead, QuotaCountsThisMonth
    <3> QED
      BY <2>1, <3>1, <3>2, QuotaWriters, CountedOnce, MonthTurns DEF QuotaInv
  <2> QED
    BY <2>2, <2>3
<1>3. QuotaInv => QuotaCountsThisMonth
  BY DEF QuotaInv
<1> QED
  BY <1>1, <1>2, <1>3, PTL DEF HSpec

-----------------------------------------------------------------------------
(* A steady candidate wins *)

\* The loop of select_channel that a row is examined in first.
LoopOf(row) == IF row.billing = "flatfee" THEN "flat" ELSE "metered"

\* What is left to be examined in the loops by billing has that billing.
LeftByBilling ==
  \A r \in Requests : req[r].pc = "scan" =>
    \A c \in req[r].left : c[1] # "any" => c[1] = LoopOf(req[r].rows[c[2]])

\* A candidate that was usable all along is usable now, and its turn is ahead.
SteadyAhead ==
  \A r \in Requests : req[r].pc = "scan" =>
    \A i \in steady[r] : /\ i \in UsableNow(r)
                         /\ <<LoopOf(req[r].rows[i]), i>> \in req[r].left

SteadyInv == TypeOK /\ LeftByBilling /\ SteadyAhead

\* What a step does to a scan: it leaves it alone, takes a candidate that is
\* neither accepted nor blocking from it, or ends it; and only on_request begins one.
LEMMA ScanSteps ==
  ASSUME TypeOK, [Next]_vars, NEW r \in Requests, req'[r].pc = "scan"
  PROVE  \/ req'[r] = req[r]
         \/ \E c \in req[r].left : /\ req[r].pc = "scan"
                                   /\ ~Accepts(c[1], req[r].rows[c[2]])
                                   /\ req'[r] = [req[r] EXCEPT !.left = @ \ {c}]
         \/ \E model \in Models : /\ req[r].pc = "idle"
                                  /\ req'[r].rows = channels
                                  /\ req'[r].left = Candidates(channels, model)
<1> DEFINE Begins == \E model \in Models : /\ req[r].pc = "idle"
                                           /\ req'[r].rows = channels
                                           /\ req'[r].left = Candidates(channels, model)
           Skips == \E c \in req[r].left :
                      /\ req[r].pc = "scan"
                      /\ ~Accepts(c[1], req[r].rows[c[2]])
                      /\ req'[r] = [req[r] EXCEPT !.left = @ \ {c}]
           Goal == req'[r] = req[r] \/ Skips \/ Begins
<1>0. req \in [Requests -> RequestStates]
  BY DEF TypeOK
<1>1. ASSUME NEW p \in Requests, NEW q, req' = [req EXCEPT ![p] = q], q.pc # "scan"
      PROVE  Goal
  <2>1. p # r /\ req'[r] = req[r]
    BY <1>0, <1>1
  <2> QED
    BY <2>1
<1>2. ASSUME NEW p \in Requests, Finish(p) PROVE Goal
  <2>1. Idle.pc # "scan"
    BY DEF Idle
  <2> HIDE DEF Goal
  <2> QED
    BY <1>1, <1>2, <2>1 DEF Finish
<1>3. ASSUME NEW p \in Requests, NEW model \in Models \cup {NoModel}, NEW format,
             OnRequest(p, model, format)
      PROVE  Goal
  <2> DEFINE q == [Idle EXCEPT !.pc = "scan", !.format = format, !.rows = channels,
                               !.left = Candidates(channels, model)]
  <2>1. CASE Finish(p)
    BY <1>2, <2>1
  <2>2. CASE ~Finish(p)
    <3>1. model \in Models /\ req' = [req EXCEPT ![p] = q] /\ req[p].pc = "idle"
      BY <1>3, <2>2 DEF OnRequest
    <3>2. q.rows = channels /\ q.left = Candidates(channels, model)
      BY DEF Idle
    <3> HIDE DEF q
    <3>3. CASE p = r
      BY <1>0, <3>1, <3>2, <3>3
    <3>4. CASE p # r
      BY <1>0, <3>1, <3>4
    <3> QED
      BY <3>3, <3>4
  <2> QED
    BY <2>1, <2>2
<1>4. ASSUME NEW p \in Requests, NEW c \in req[p].left, Accept(p, c) PROVE Goal
  BY <1>1, <1>4 DEF Accept, Idle
<1>5. ASSUME NEW p \in Requests, NEW c \in req[p].left, Block(p, c) PROVE Goal
  BY <1>2, <1>5 DEF Block
<1>6. ASSUME NEW p \in Requests, NEW c \in req[p].left, Skip(p, c) PROVE Goal
  <2>1. /\ req' = [req EXCEPT ![p] = [req[p] EXCEPT !.left = @ \ {c}]]
        /\ req[p].pc = "scan" /\ ~Accepts(c[1], req[p].rows[c[2]])
    BY <1>6 DEF Skip, Examines
  <2>2. CASE p = r
    <3>1. req'[r] = [req[r] EXCEPT !.left = @ \ {c}]
      BY <1>0, <2>1, <2>2
    <3>2. Skips
      BY <2>1, <2>2, <3>1
    <3> QED
      BY <3>2
  <2>3. CASE p # r
    BY <1>0, <2>1, <2>3
  <2> QED
    BY <2>2, <2>3
<1>7. ASSUME NEW p \in Requests, Forward(p) PROVE Goal
  <2> DEFINE q == [req[p] EXCEPT !.pc = "sent",
                     !.key = IF keys[req[p].row.channel_id] # NoKey
                             THEN keys[req[p].row.channel_id] ELSE req[p].row.api_key]
  <2>1. Finish(p) \/ req' = [req EXCEPT ![p] = q]
    BY <1>7 DEF Forward
  <2>2. q.pc = "sent"
    BY <1>0 DEF RequestStates
  <2> HIDE DEF q, Goal
  <2> QED
    BY <1>1, <1>2, <2>1, <2>2
<1>8. ASSUME NEW p \in Requests, NEW status, UpstreamAnswers(p, status) PROVE Goal
  <2> DEFINE pc == IF req[p].row.billing = "flatfee" THEN "quota" ELSE "health"
             q == [req[p] EXCEPT !.status = status, !.pc = pc]
  <2>1. Finish(p) \/ req' = [req EXCEPT ![p] = q]
    BY <1>8 DEF UpstreamAnswers
  <2>2. q.pc = pc /\ pc # "scan"
    BY <1>0 DEF RequestStates
  <2> HIDE DEF q, pc, Goal
  <2> QED
    BY <1>1, <1>2, <2>1, <2>2
<1>9. ASSUME NEW p \in Requests, NEW tokens, RecordQuota(p, tokens) PROVE Goal
  <2> DEFINE q == [req[p] EXCEPT !.pc = "health"]
  <2>1. req' = [req EXCEPT ![p] = q] /\ q.pc = "health"
    BY <1>0, <1>9 DEF RecordQuota, RequestStates
  <2> HIDE DEF q, Goal
  <2> QED
    BY <1>1, <2>1
<1>10. ASSUME UNCHANGED req PROVE Goal
  BY <1>10
<1> HIDE DEF Goal
<1>11. ASSUME NEW p \in Requests, RequestStep(p) PROVE Goal
  <2>1. CASE SelectStep(p)
    BY <2>1, <1>2, <1>4, <1>5, <1>6 DEF SelectStep, NoneLeft
  <2>2. CASE ResponseStep(p)
    BY <2>2, <1>2, <1>8, <1>9 DEF ResponseStep, UpstreamFails, RecordHealth
  <2>3. CASE \E model \in Models \cup {NoModel}, format \in ClientFormats :
               OnRequest(p, model, format)
    BY <2>3, <1>3
  <2> QED
    BY <1>7, <1>11, <2>1, <2>2, <2>3 DEF RequestStep
<1>12. Goal
  BY <1>10, <1>11 DEF Next, Tick, NextMonth, AdminStep, SwapChannels, PublishKey,
                      ProbeHealthy, ProbeUnhealthy, vars
<1> QED
  BY <1>12 DEF Goal

\* The candidates of a model are in the loop of their billing and in the last one.
LEMMA CandidateLoops ==
  ASSUME NEW rows \in Catalogs, NEW model
  PROVE  /\ \A c \in Candidates(rows, model) : c[1] # "any" => c[1] = LoopOf(rows[c[2]])
         /\ \A i : <<"any", i>> \in Candidates(rows, model)
                   => <<LoopOf(rows[i]), i>> \in Candidates(rows, model)
<1>1. \A i \in DOMAIN rows : rows[i].billing \in {"metered", "flatfee"}
  BY CatalogRows DEF Rows
<1> QED
  BY <1>1 DEF Candidates, FindCandidates, LoopOf

\* A row that is usable is accepted in the loop of its billing.
LEMMA UsableAccepted ==
  ASSUME NEW row, Usable(row)
  PROVE  Accepts(LoopOf(row), row)
  BY DEF Usable, Accepts, LoopOf

LEMMA LeftStaysByBilling ==
  ASSUME TypeOK, LeftByBilling, [Next]_vars
  PROVE  LeftByBilling'
<1> SUFFICES ASSUME NEW r \in Requests, req'[r].pc = "scan",
                    NEW c \in req'[r].left, c[1] # "any"
             PROVE  c[1] = LoopOf(req'[r].rows[c[2]])
  BY DEF LeftByBilling, LoopOf
<1>0. channels \in Catalogs /\ req[r] \in RequestStates
  BY DEF TypeOK
<1>1. CASE req'[r] = req[r]
  BY <1>1 DEF LeftByBilling
<1>2. CASE \E d \in req[r].left : /\ req[r].pc = "scan"
                                  /\ req'[r] = [req[r] EXCEPT !.left = @ \ {d}]
  <2>1. /\ req[r].pc = "scan"
        /\ req'[r].left \subseteq req[r].left /\ req'[r].rows = req[r].rows
    BY <1>0, <1>2 DEF RequestStates
  <2> QED
    BY <2>1 DEF LeftByBilling
<1>3. CASE \E model \in Models : /\ req'[r].rows = channels
                                 /\ req'[r].left = Candidates(channels, model)
  BY <1>0, <1>3, CandidateLoops
<1> QED
  BY <1>1, <1>2, <1>3, ScanSteps

\* A candidate that is usable is not skipped, so one that has been usable since
\* the scan began is still to come, whatever the other requests do.
LEMMA SteadyStaysAhead ==
  ASSUME SteadyInv, [Next]_vars, SteadyStep
  PROVE  SteadyAhead'
<1> SUFFICES ASSUME NEW r \in Requests, req'[r].pc = "scan", NEW i \in steady'[r]
             PROVE  /\ i \in UsableNow(r)'
                    /\ <<LoopOf(req'[r].rows[i]), i>> \in req'[r].left
  BY DEF SteadyAhead, LoopOf
<1>0. channels \in Catalogs /\ req[r] \in RequestStates
  BY DEF SteadyInv, TypeOK
<1>1. steady'[r] = IF req[r].pc = "scan" THEN steady[r] \cap UsableNow(r)'
                   ELSE {j \in UsableNow(r)' : <<"any", j>> \in req'[r].left}
  BY DEF SteadyStep
<1>2. i \in UsableNow(r)'
  BY <1>1
<1>3. CASE req[r].pc = "scan"
  <2>1. /\ i \in UsableNow(r) /\ <<LoopOf(req[r].rows[i]), i>> \in req[r].left
    BY <1>1, <1>3 DEF SteadyInv, SteadyAhead
  <2>2. Accepts(LoopOf(req[r].rows[i]), req[r].rows[i])
    BY <2>1, UsableAccepted DEF UsableNow
  <2>3. CASE req'[r] = req[r]
    BY <1>2, <2>1, <2>3
  <2>4. ASSUME NEW c \in req[r].left, ~Accepts(c[1], req[r].rows[c[2]]),
               req'[r] = [req[r] EXCEPT !.left = @ \ {c}]
        PROVE  <<LoopOf(req'[r].rows[i]), i>> \in req'[r].left
    <3>1. req'[r].left = req[r].left \ {c} /\ req'[r].rows = req[r].rows
      BY <1>0, <2>4 DEF RequestStates
    <3>2. c # <<LoopOf(req[r].rows[i]), i>>
      BY <2>2, <2>4
    <3> QED
      BY <2>1, <3>1, <3>2
  <2>5. req[r].pc # "idle"
    BY <1>3
  <2> QED
    BY <1>2, <2>3, <2>4, <2>5, ScanSteps DEF SteadyInv
<1>4. CASE req[r].pc # "scan"
  <2>1. req'[r] # req[r]
    BY <1>4
  <2>2. PICK model \in Models : /\ req'[r].rows = channels
                                /\ req'[r].left = Candidates(channels, model)
    BY <1>4, <2>1, ScanSteps DEF SteadyInv
  <2>3. <<"any", i>> \in Candidates(channels, model)
    BY <1>1, <1>4, <2>2
  <2> QED
    BY <1>0, <1>2, <2>2, <2>3, CandidateLoops
<1> QED
  BY <1>3, <1>4

\* In any state of a scan that a steady candidate is waiting in, the candidate
\* examined is not of the last loop and not one it is preferred to.
LEMMA SteadyFirst ==
  ASSUME SteadyInv, NEW r \in Requests, req[r].pc = "scan", NEW i \in steady[r]
  PROVE  /\ req[r].left # {}
         /\ \A c \in req[r].left :
              Examines(r, c) => c[1] # "any" /\ ~Preferred(req[r].rows, i, c[2])
<1> DEFINE rows == req[r].rows
           d == <<LoopOf(rows[i]), i>>
<1>1. i \in DOMAIN rows /\ d \in req[r].left
  BY DEF SteadyInv, SteadyAhead, UsableNow
<1>2. rows \in Catalogs
  BY <1>1 DEF SteadyInv, TypeOK, RequestStates
<1> SUFFICES ASSUME NEW c \in req[r].left, Examines(r, c)
             PROVE  c[1] # "any" /\ ~Preferred(rows, i, c[2])
  BY <1>1
<1>3. c[2] \in DOMAIN rows /\ c \in Loops \X Nat /\ i \in Nat
  BY <1>1, <1>2, CatalogRows DEF SteadyInv, TypeOK, RequestStates
<1>4. /\ rows[i].priority \in Nat /\ rows[c[2]].priority \in Nat
      /\ rows[i].billing \in {"metered", "flatfee"}
      /\ rows[c[2]].billing \in {"metered", "flatfee"}
  BY <1>1, <1>2, <1>3, CatalogRows DEF Rows
<1>5. c = d \/ ComesBefore(rows, c, d)
  BY <1>1 DEF Examines
<1>6. c[1] # "any"
  BY <1>5 DEF ComesBefore, LoopOf
<1>7. c[1] = LoopOf(rows[c[2]])
  BY <1>6 DEF SteadyInv, LeftByBilling
<1>8. ~Preferred(rows, i, c[2])
  <2>1. CASE c = d
    <3>1. c[2] = i
      BY <2>1
    <3> QED
      BY <3>1, <1>3, <1>4 DEF Preferred
  <2>2. CASE ComesBefore(rows, c, d)
    <3>1. d[1] = LoopOf(rows[i]) /\ d[2] = i /\ c[2] \in Nat
      BY <1>3
    <3>2. \/ c[1] = "flat" /\ d[1] = "metered"
          \/ /\ c[1] = d[1]
             /\ \/ rows[c[2]].priority > rows[i].priority
                \/ rows[c[2]].priority = rows[i].priority /\ c[2] < i
      BY <2>2, <3>1, <1>6 DEF ComesBefore, LoopOf
    <3> HIDE DEF rows
    <3>3. CASE c[1] = "flat" /\ d[1] = "metered"
      BY <3>1, <3>3, <1>4, <1>7 DEF Preferred, LoopOf
    <3>4. CASE c[1] = d[1]
      BY <3>1, <3>2, <3>4, <1>3, <1>4, <1>7 DEF Preferred, LoopOf
    <3> QED
      BY <3>2, <3>3, <3>4
  <2> QED
    BY <2>1, <2>2, <1>5
<1> QED
  BY <1>6, <1>8

\* However other requests and administrators change health, quotas, keys and the
\* snapshot under a scan, a candidate that was usable from its beginning on is passed over only for one that is at least
\* as preferred, and no request is refused for want of a channel while there is one.
THEOREM SteadyWins == HSpec => SteadyCandidateWins
<1> DEFINE Wins ==
      \A r \in Requests :
        req[r].pc = "scan" /\ req'[r].pc # "scan"
        => \A i \in steady[r] :
             /\ req[r].left # {}
             /\ \A c \in req[r].left :
                  Examines(r, c) => /\ c[1] # "any"
                                    /\ ~Preferred(req[r].rows, i, c[2])
<1>1. HInit => SteadyInv
  <2> SUFFICES ASSUME HInit PROVE SteadyInv
    OBVIOUS
  <2>1. TypeOK
    BY InitTypeOK DEF HInit
  <2>2. \A r \in Requests : req[r].pc = "idle"
    BY DEF HInit, Init, Idle
  <2> QED
    BY <2>1, <2>2 DEF SteadyInv, LeftByBilling, SteadyAhead
<1>2. SteadyInv /\ [HNext]_hvars => SteadyInv'
  <2> SUFFICES ASSUME SteadyInv, [HNext]_hvars PROVE SteadyInv'
    OBVIOUS
  <2>1. [Next]_vars
    BY DEF HNext, hvars
  <2>2. TypeOK' /\ LeftByBilling'
    BY <2>1, NextTypeOK, LeftStaysByBilling DEF SteadyInv
  <2>3. SteadyAhead'
    <3>1. CASE HNext
      BY <2>1, <3>1, SteadyStaysAhead DEF HNext, HistoryStep
    <3>2. CASE UNCHANGED hvars
      BY <3>2 DEF hvars, vars, admin, history, SteadyInv, SteadyAhead, UsableNow, Usable,
                  HasApiKey, IsHealthy, WithinQuota
    <3> QED
      BY <3>1, <3>2
  <2> QED
    BY <2>2, <2>3 DEF SteadyInv
<1>3. SteadyInv => Wins
  BY SteadyFirst
<1> QED
  BY <1>1, <1>2, <1>3, PTL DEF HSpec, SteadyCandidateWins

-----------------------------------------------------------------------------
(* How far a quota is overshot *)

\* Request q has been given mapping m and will be counted, if it is answered.
Carries(q, m) ==
  /\ q.pc \in {"picked", "sent", "quota"}
  /\ q.row.billing = "flatfee" /\ q.row.mapping_id = m

Carrying(m) == {r \in Requests : Carries(req[r], m)}

\* Only flat-fee requests are counted.
CountedAreFlat == \A r \in Requests : req[r].pc = "quota" => req[r].row.billing = "flatfee"

\* What is counted of a mapping and what may still be.
Bounded ==
  \A m \in Mappings \ spilled, n \in Nat :
    Limited(m, n) =>
      quota[m].requests + Cardinality(Carrying(m)) <= n + (Cardinality(Requests) - 1)

\* The inductive invariant of the theorem.
OvershootInv == TypeOK /\ LeftByBilling /\ CountedAreFlat /\ Bounded

\* Only select_channel gives a request a mapping to carry.
LEMMA CarrySteps ==
  ASSUME TypeOK, CountedAreFlat, [Next]_vars
  PROVE  \/ \E r \in Requests : \E c \in req[r].left : Accept(r, c)
         \/ \E r \in Requests, tokens \in TokenCounts : RecordQuota(r, tokens)
         \/ /\ quota' = quota /\ CountedAreFlat'
            /\ \A r \in Requests : \A m : Carries(req'[r], m) => Carries(req[r], m)
<1> DEFINE Same == /\ quota' = quota /\ CountedAreFlat'
                   /\ \A r \in Requests : \A m : Carries(req'[r], m) => Carries(req[r], m)
<1>0. req \in [Requests -> RequestStates]
  BY DEF TypeOK
<1>a. ASSUME NEW r \in Requests, NEW q, req' = [req EXCEPT ![r] = q], quota' = quota,
             \A m : Carries(q, m) => Carries(req[r], m),
             q.pc = "quota" => q.row.billing = "flatfee"
      PROVE  Same
  <2>1. req'[r] = q /\ \A p \in Requests \ {r} : req'[p] = req[p]
    BY <1>0, <1>a
  <2>2. CountedAreFlat'
    BY <1>a, <2>1 DEF CountedAreFlat
  <2> QED
    BY <1>a, <2>1, <2>2
<1>b. ASSUME NEW r \in Requests, Finish(r), quota' = quota PROVE Same
  <2>1. Idle.pc = "idle"
    BY DEF Idle
  <2>2. \A m : ~Carries(Idle, m)
    BY <2>1 DEF Carries
  <2> HIDE DEF Same
  <2> QED
    BY <1>a, <1>b, <2>1, <2>2 DEF Finish
<1> HIDE DEF Same
<1>1. ASSUME NEW r \in Requests, NEW model, NEW format, OnRequest(r, model, format)
      PROVE  Same
  <2> DEFINE q == [Idle EXCEPT !.pc = "scan", !.format = format, !.rows = channels,
                               !.left = Candidates(channels, model)]
  <2>1. q.pc = "scan"
    BY DEF Idle
  <2>2. quota' = quota /\ (Finish(r) \/ req' = [req EXCEPT ![r] = q])
    BY <1>1 DEF OnRequest
  <2> HIDE DEF q
  <2>3. \A m : ~Carries(q, m)
    BY <2>1 DEF Carries
  <2> QED
    BY <1>a, <1>b, <2>1, <2>2, <2>3
<1>2. ASSUME NEW r \in Requests, NEW c \in req[r].left, Skip(r, c) PROVE Same
  <2> DEFINE q == [req[r] EXCEPT !.left = @ \ {c}]
  <2>1. q.pc = "scan"
    BY <1>0, <1>2 DEF Skip, Examines, RequestStates
  <2>2. quota' = quota /\ req' = [req EXCEPT ![r] = q]
    BY <1>2 DEF Skip
  <2> HIDE DEF q
  <2>3. \A m : ~Carries(q, m)
    BY <2>1 DEF Carries
  <2> QED
    BY <1>a, <2>1, <2>2, <2>3
<1>3. ASSUME NEW r \in Requests, Forward(r) PROVE Same
  <2> DEFINE q == [req[r] EXCEPT !.pc = "sent",
                     !.key = IF keys[req[r].row.channel_id] # NoKey
                             THEN keys[req[r].row.channel_id] ELSE req[r].row.api_key]
  <2>1. q.pc = "sent" /\ q.row = req[r].row /\ req[r].pc = "picked"
    BY <1>0, <1>3 DEF Forward, RequestStates
  <2>2. quota' = quota /\ (Finish(r) \/ req' = [req EXCEPT ![r] = q])
    BY <1>3 DEF Forward
  <2> HIDE DEF q
  <2>3. \A m : Carries(q, m) => Carries(req[r], m)
    BY <2>1 DEF Carries
  <2> QED
    BY <1>a, <1>b, <2>1, <2>2, <2>3
<1>4. ASSUME NEW r \in Requests, NEW status, UpstreamAnswers(r, status) PROVE Same
  <2> DEFINE pc == IF req[r].row.billing = "flatfee" THEN "quota" ELSE "health"
             q == [req[r] EXCEPT !.status = status, !.pc = pc]
  <2>1. q.pc = pc /\ q.row = req[r].row /\ req[r].pc = "sent"
    BY <1>0, <1>4 DEF UpstreamAnswers, RequestStates
  <2>2. quota' = quota /\ (Finish(r) \/ req' = [req EXCEPT ![r] = q])
    BY <1>4 DEF UpstreamAnswers
  <2>3. pc = "quota" => req[r].row.billing = "flatfee"
    OBVIOUS
  <2> HIDE DEF q, pc
  <2>4. \A m : Carries(q, m) => Carries(req[r], m)
    BY <2>1 DEF Carries
  <2> QED
    BY <1>a, <1>b, <2>1, <2>2, <2>3, <2>4
<1>5. CASE UNCHANGED <<quota, req>>
  BY <1>5 DEF Same, CountedAreFlat
<1>6. ASSUME NEW r \in Requests, NoneLeft(r) \/ UpstreamFails(r) \/ RecordHealth(r) PROVE Same
  BY <1>6, <1>b DEF NoneLeft, UpstreamFails, RecordHealth
<1>7. ASSUME NEW r \in Requests, NEW c, Block(r, c) PROVE Same
  BY <1>7, <1>b DEF Block
<1>8. CASE UNCHANGED vars \/ Tick \/ NextMonth \/ AdminStep
  BY <1>5, <1>8 DEF vars, Tick, NextMonth, AdminStep, SwapChannels, PublishKey,
                    ProbeHealthy, ProbeUnhealthy
<1>9. ASSUME NEW r \in Requests, RequestStep(r)
      PROVE  \/ \E c \in req[r].left : Accept(r, c)
             \/ \E tokens \in TokenCounts : RecordQuota(r, tokens)
             \/ Same
  BY <1>1, <1>2, <1>3, <1>4, <1>6, <1>7, <1>9 DEF RequestStep, SelectStep, ResponseStep
<1> QED
  BY <1>8, <1>9 DEF Next, Same

\* The requests that carry a mapping are finitely many, no more than there are.
LEMMA CarryingCounts ==
  /\ Cardinality(Requests) \in Nat \ {0}
  /\ \A S \in SUBSET Requests : /\ IsFiniteSet(S) /\ Cardinality(S) \in Nat
                               /\ Cardinality(S) <= Cardinality(Requests)
                               /\ \A T \in SUBSET S : Cardinality(T) <= Cardinality(S)
<1>1. Cardinality(Requests) \in Nat /\ Cardinality(Requests) # 0
  BY SlotAssumption, FS_CardinalityType, FS_EmptySet
<1>2. ASSUME NEW S \in SUBSET Requests
      PROVE  /\ IsFiniteSet(S) /\ Cardinality(S) \in Nat
             /\ Cardinality(S) <= Cardinality(Requests)
             /\ \A T \in SUBSET S : Cardinality(T) <= Cardinality(S)
  BY SlotAssumption, FS_Subset, FS_CardinalityType
<1> QED
  BY <1>1, <1>2

\* A request that select_channel gives a limited mapping found it within its limit, or
\* came by the last loop.
LEMMA AcceptBounded ==
  ASSUME OvershootInv, SpillStep, NEW r \in Requests, NEW c \in req[r].left, Accept(r, c)
  PROVE  CountedAreFlat' /\ Bounded'
<1> DEFINE row == req[r].rows[c[2]]
           q == [Idle EXCEPT !.pc = "picked", !.format = req[r].format, !.row = row]
<1>0. /\ req \in [Requests -> RequestStates] /\ quota \in [Mappings -> Usages]
      /\ Fits(req[r])
  BY TypeOKPointwise DEF OvershootInv
<1>1. /\ req' = [req EXCEPT ![r] = q] /\ quota' = quota /\ q.pc = "picked" /\ q.row = row
      /\ Examines(r, c) /\ Accepts(c[1], row) /\ req[r].pc = "scan"
  BY DEF Accept, Examines, Idle
<1>2. req[r].rows \in Catalogs /\ c[2] \in DOMAIN req[r].rows
  BY <1>0 DEF Fits, RequestStates
<1> HIDE DEF q
<1>3. req'[r] = q /\ \A p \in Requests \ {r} : req'[p] = req[p]
  BY <1>0, <1>1
<1>4. CountedAreFlat'
  BY <1>1, <1>3 DEF CountedAreFlat, OvershootInv
<1>5. ASSUME NEW m \in Mappings \ spilled', NEW n \in Nat, Limited(m, n)
      PROVE  quota'[m].requests + Cardinality(Carrying(m)')
               <= n + (Cardinality(Requests) - 1)
  <2>1. m \in Mappings \ spilled
    BY DEF SpillStep
  <2>2. quota[m].requests \in Nat
    BY <1>0, InputAssumption DEF Usages
  <2>3. CASE row.billing = "flatfee" /\ row.mapping_id = m
    <3>1. c[1] # "any"
      <4>1. ASSUME c[1] = "any" PROVE Spills(r)
        BY <1>1, <1>3, <2>3, <4>1 DEF Spills, Chooses
      <4>2. ASSUME Spills(r) PROVE m \in spilled'
        BY <1>1, <1>3, <2>3, <4>2 DEF SpillStep
      <4> QED
        BY <4>1, <4>2
    <3>2. c[1] = "flat"
      BY <1>1, <2>3, <3>1 DEF OvershootInv, LeftByBilling, LoopOf
    <3>3. IsWithinQuota(quota[m], row.quota)
      BY <1>1, <2>3, <3>2 DEF Accepts, WithinQuota
    <3>4. row \in Rows /\ row.quota.kind = "requests" /\ row.quota.per_month <= n
      BY <1>2, <1>5, <2>3, CatalogRows DEF Limited
    <3>5. row.quota.per_month \in Nat
      BY <3>4 DEF Rows, Quotas
    <3>6. quota[m].requests < n
      BY <2>2, <3>3, <3>4, <3>5 DEF IsWithinQuota
    <3>7. Carrying(m)' \in SUBSET Requests
      BY DEF Carrying
    <3> QED
      BY <1>1, <2>2, <3>6, <3>7, CarryingCounts
  <2>4. CASE ~(row.billing = "flatfee" /\ row.mapping_id = m)
    <3>1. ~Carries(q, m)
      BY <1>1, <2>4 DEF Carries
    <3>2. Carrying(m)' \subseteq Carrying(m) /\ Carrying(m) \subseteq Requests
      BY <1>3, <3>1 DEF Carrying
    <3>3. quota[m].requests + Cardinality(Carrying(m)) <= n + (Cardinality(Requests) - 1)
      BY <1>5, <2>1 DEF OvershootInv, Bounded
    <3> QED
      BY <1>1, <2>2, <3>2, <3>3, CarryingCounts
  <2> QED
    BY <2>3, <2>4
<1> QED
  BY <1>4, <1>5 DEF Bounded, Limited

\* A request that is counted is no longer carried.
LEMMA CountBounded ==
  ASSUME OvershootInv, SpillStep, NEW r \in Requests, NEW tokens \in TokenCounts,
         RecordQuota(r, tokens)
  PROVE  CountedAreFlat' /\ Bounded'
<1> DEFINE k == req[r].row.mapping_id
           q == [req[r] EXCEPT !.pc = "health"]
<1>0. /\ req \in [Requests -> RequestStates] /\ quota \in [Mappings -> Usages]
      /\ req[r].row \in Rows /\ month \in 0..MaxMonth
  BY DEF OvershootInv, TypeOK, RecordQuota
<1>1. /\ quota' = [quota EXCEPT ![k] = RecordUsage(quota[k], tokens)]
      /\ req' = [req EXCEPT ![r] = q] /\ req[r].pc = "quota" /\ q.pc = "health"
  BY <1>0 DEF RecordQuota, RequestStates
<1> HIDE DEF q
<1>2. req'[r] = q /\ \A p \in Requests \ {r} : req'[p] = req[p]
  BY <1>0, <1>1
<1>3. k \in Mappings /\ \A m : ~Carries(q, m)
  BY <1>0, <1>1 DEF Rows, Carries
<1>4. CountedAreFlat'
  BY <1>1, <1>2 DEF CountedAreFlat, OvershootInv
<1>5. ASSUME NEW m \in Mappings \ spilled', NEW n \in Nat, Limited(m, n)
      PROVE  quota'[m].requests + Cardinality(Carrying(m)')
               <= n + (Cardinality(Requests) - 1)
  <2>1. quota[m].requests + Cardinality(Carrying(m)) <= n + (Cardinality(Requests) - 1)
    BY <1>5 DEF SpillStep, OvershootInv, Bounded
  <2>2. Carrying(m)' = Carrying(m) \ {r} /\ Carrying(m) \in SUBSET Requests
    BY <1>2, <1>3 DEF Carrying
  <2>3. quota[m].requests \in Nat
    BY <1>0, InputAssumption DEF Usages
  <2>4. CASE m = k
    <3>1. r \in Carrying(m)
      BY <1>1, <2>4 DEF Carrying, Carries, OvershootInv, CountedAreFlat
    <3>2. Cardinality(Carrying(m)') = Cardinality(Carrying(m)) - 1
      BY <2>2, <3>1, CarryingCounts, FS_RemoveElement
    <3>3. quota'[m].requests \in Nat /\ quota'[m].requests <= quota[m].requests + 1
      <4>1. quota'[m] = RecordUsage(quota[m], tokens)
        BY <1>0, <1>1, <1>3, <2>4
      <4>2. MaybeReset(quota[m]) \in Usages /\ MaybeReset(quota[m]).requests <= quota[m].requests
        BY <1>0, <2>3, InputAssumption DEF MaybeReset, Usages
      <4>3. RecordUsage(quota[m], tokens).requests = Add(MaybeReset(quota[m]).requests, 1)
        BY <4>2 DEF RecordUsage, Usages
      <4>4. MaybeReset(quota[m]).requests \in Nat
        BY <4>2, InputAssumption DEF Usages
      <4> QED
        BY <2>3, <4>1, <4>2, <4>3, <4>4, InputAssumption DEF Add
    <3> QED
      BY <2>1, <2>2, <2>3, <3>2, <3>3, CarryingCounts
  <2>5. CASE m # k
    <3>1. quota'[m] = quota[m]
      BY <1>0, <1>1, <2>5
    <3>2. Carrying(m)' \subseteq Carrying(m)
      BY <2>2
    <3> QED
      BY <2>1, <2>2, <2>3, <3>1, <3>2, CarryingCounts
  <2> QED
    BY <2>4, <2>5
<1> QED
  BY <1>4, <1>5 DEF Bounded, Limited

\* select_channel asks for the quota and on_response counts it: however the requests and
\* the reloads between them interleave, the usage of a limited mapping exceeds its limit
\* by no more than the other requests in flight, until the last loop lets one pass.
THEOREM OvershootBounded == HSpec => []QuotaOvershoot
<1>1. HInit => OvershootInv
  <2> SUFFICES ASSUME HInit PROVE OvershootInv
    OBVIOUS
  <2>1. TypeOK
    BY InitTypeOK DEF HInit
  <2>2. \A r \in Requests : req[r].pc = "idle"
    BY DEF HInit, Init, Idle
  <2>3. \A m \in Mappings : quota[m].requests = 0 /\ Carrying(m) = {}
    BY <2>2 DEF HInit, Init, NewUsage, Carrying, Carries
  <2>4. Bounded
    BY <2>3, CarryingCounts, FS_EmptySet DEF Bounded
  <2> QED
    BY <2>1, <2>2, <2>4 DEF OvershootInv, LeftByBilling, CountedAreFlat
<1>2. OvershootInv /\ [HNext]_hvars => OvershootInv'
  <2> SUFFICES ASSUME OvershootInv, [HNext]_hvars PROVE OvershootInv'
    OBVIOUS
  <2>1. [Next]_vars /\ (SpillStep \/ UNCHANGED <<vars, spilled>>)
    BY DEF HNext, HistoryStep, hvars, history
  <2>2. TypeOK' /\ LeftByBilling'
    BY <2>1, NextTypeOK, LeftStaysByBilling DEF OvershootInv
  <2>3. ASSUME quota' = quota, CountedAreFlat', spilled \subseteq spilled',
               \A r \in Requests : \A m : Carries(req'[r], m) => Carries(req[r], m)
        PROVE  CountedAreFlat' /\ Bounded'
    <3>1. ASSUME NEW m \in Mappings \ spilled', NEW n \in Nat, Limited(m, n)
          PROVE  quota'[m].requests + Cardinality(Carrying(m)')
                   <= n + (Cardinality(Requests) - 1)
      <4>1. quota[m].requests + Cardinality(Carrying(m)) <= n + (Cardinality(Requests) - 1)
        BY <2>3, <3>1 DEF OvershootInv, Bounded
      <4>2. Carrying(m)' \subseteq Carrying(m) /\ Carrying(m) \subseteq Requests
        BY <2>3 DEF Carrying
      <4>3. quota[m].requests \in Nat
        BY InputAssumption DEF OvershootInv, TypeOK, Usages
      <4> QED
        BY <2>3, <4>1, <4>2, <4>3, CarryingCounts
    <3> QED
      BY <2>3, <3>1 DEF Bounded, Limited
  <2>4. CASE SpillStep
    <3>1. spilled \subseteq spilled'
      BY <2>4 DEF SpillStep
    <3> QED
      BY <2>1, <2>2, <2>3, <2>4, <3>1, CarrySteps, AcceptBounded, CountBounded DEF OvershootInv
  <2>5. CASE UNCHANGED <<vars, spilled>>
    <3>1. quota' = quota /\ req' = req /\ spilled' = spilled
      BY <2>5 DEF vars
    <3>2. CountedAreFlat'
      BY <3>1 DEF OvershootInv, CountedAreFlat
    <3> QED
      BY <2>2, <2>3, <3>1, <3>2 DEF OvershootInv
  <2> QED
    BY <2>1, <2>4, <2>5
<1>3. OvershootInv => QuotaOvershoot
  <2> SUFFICES ASSUME OvershootInv, NEW m \in Mappings \ spilled, NEW n \in 0..UsageCap,
                      Limited(m, n)
               PROVE  quota[m].requests <= n + (Cardinality(Requests) - 1)
    BY DEF QuotaOvershoot
  <2>1. quota[m].requests + Cardinality(Carrying(m)) <= n + (Cardinality(Requests) - 1)
    BY InputAssumption DEF OvershootInv, Bounded
  <2>2. quota[m].requests \in Nat /\ n \in Nat
    BY InputAssumption DEF OvershootInv, TypeOK, Usages
  <2>3. Carrying(m) \in SUBSET Requests
    BY DEF Carrying
  <2> QED
    BY <2>1, <2>2, <2>3, CarryingCounts
<1> QED
  BY <1>1, <1>2, <1>3, PTL DEF HSpec

=============================================================================
