---------------------------- MODULE ProxyPipeline ----------------------------
(***************************************************************************)
(* One request through the proxy: the engine (crates/core/src/server.rs),  *)
(* the middleware chain main.rs registers (crates/core/src/middleware.rs)  *)
(* and what each middleware does to the body: compress, model alias, model *)
(* router, protocol bridge (crates/bridge/src/lib.rs), and the cost        *)
(* recorder after the chain.                                               *)
(*                                                                         *)
(* on_request runs in registration order, on_response in reverse, and an   *)
(* error aborts the rest of the chain.  A body is abstracted to the format *)
(* it is written in, whether it has an `error` key, and the usage it       *)
(* reports.  The contents of a conversion belong to llm_bridge_core, a     *)
(* library, modelled by the formats it is called with: of the usage it may *)
(* lose any counter, but it changes none.                                  *)
(***************************************************************************)
EXTENDS ProtocolRouting, ModelAliases, UsageExtraction

CONSTANTS Clients,     \* the formats clients ask in
          Models,      \* the models they ask for
          Routes,      \* the (channel, mapping) pairs the router may select
          Reports      \* how a successful answer reports the tokens it metered

\* llm_bridge_core: the reports a body may have in place of the one it is converted
\* from.  Each meter is carried over or lost; what becomes of names that are not the
\* format's own is anybody's guess.
ConvertedReports(report, format) ==
  {converted \in Reports :
     /\ converted.format = format /\ converted.streaming = report.streaming
     /\ report.names = "own" =>
          /\ converted.names = "own"
          /\ \A m \in Meters : converted.metered[m] \in {0, report.metered[m]}}

ASSUME PipelineAssumption ==
  /\ Clients \subseteq ApiFormats /\ NoModel \notin Models
  /\ \A route \in Routes : /\ route.flat_fee \in BOOLEAN
                           /\ route.allowed \subseteq ApiFormats
                           /\ route.protocols \in Seq([protocol : STRING, has_url : BOOLEAN])
  /\ \A report \in Reports : /\ report.format \in ApiFormats /\ Honest(report)
                             /\ report.events \in Seq(Range(report.events))
  /\ \A report \in Reports, format \in ApiFormats : ConvertedReports(report, format) # {}

VARIABLES pc,       \* where the request is: a stage, and the middleware running
          ctx,      \* ProxyRequest and ConnectionContext
          res,      \* ProxyResponse
          ledger    \* the upstream's answer and what was recorded of it

pipeline == <<pc, ctx, res, ledger>>

vars == <<pipeline, aliasVars>>

Anthropic == "anthropic_messages"
Chat == "openai_chat"
Responses == "openai_responses"

NoProtocol == "unset"       \* target_protocol is None
Garbled == "garbled"        \* the output of a converter fed a foreign body
ErrorJson == "error_json"   \* {"error": ...}
PlainJson == "plain_json"   \* an error as JSON without that key
NotJson == "not_json"       \* such as a gateway's HTML page

Bodies == ApiFormats \cup {Garbled}
ErrorBodies == {ErrorJson, PlainJson, NotJson}

Statuses == {"ok", "client_error", "unauthorized", "rate_limited", "server_error"}

\* main.rs: the order of registration.
Chain == <<"compress", "model_alias", "model_router", "bridge">>

NoRoute == [force |-> NoForce, protocols |-> <<>>, allowed |-> {}, flat_fee |-> FALSE]
NoContext == [client |-> NoProtocol, streaming |-> FALSE, body |-> Garbled,
              model |-> NoModel, target |-> NoProtocol, reverse |-> FALSE,
              route |-> NoRoute]
NoReport == [format |-> NoProtocol, streaming |-> FALSE, events |-> <<>>,
             metered |-> Counts(0, 0, 0, 0), names |-> "own"]
NoResponse == [from |-> "none", status |-> "ok", body |-> NotJson, error |-> FALSE,
               report |-> NoReport]
\* lost: the meters of the upstream's report that the conversion did not carry over
EmptyLedger == [status |-> "none", body |-> "none", health |-> "none", quota |-> "none",
                cost |-> "none", usage |-> Counts(0, 0, 0, 0),
                metered |-> Counts(0, 0, 0, 0), names |-> "own", lost |-> {}]

-----------------------------------------------------------------------------
(* The bridge *)

\* Mutant: the two arguments are taken in the other order.
ResolveSwapped(client, upstream) ==
  CASE client = upstream -> "Passthrough"
    [] upstream = Anthropic /\ client = Chat -> "AnthropicToOpenai"
    [] upstream = Anthropic /\ client = Responses -> "AnthropicToResponses"
    [] upstream = Chat /\ client = Anthropic -> "OpenaiToAnthropic"
    [] upstream = Responses /\ client = Anthropic -> "ResponsesToAnthropic"
    [] OTHER -> "ResponsesToOpenai"

\* ConversionDirection::resolve
Resolve(client, upstream) ==
  CASE client = upstream -> "Passthrough"
    [] client = Anthropic /\ upstream = Chat -> "AnthropicToOpenai"
    [] client = Anthropic /\ upstream = Responses -> "AnthropicToResponses"
    [] client = Chat /\ upstream = Anthropic -> "OpenaiToAnthropic"
    [] client = Responses /\ upstream = Anthropic -> "ResponsesToAnthropic"
    [] OTHER -> "ResponsesToOpenai"   \* both pairs of Responses and Chat

\* The request transforms convert_request calls: what they read and write.
RequestTransform(direction) ==
  CASE direction = "AnthropicToOpenai" -> [reads |-> {Anthropic}, writes |-> Chat]
    [] direction = "AnthropicToResponses" -> [reads |-> {Anthropic}, writes |-> Responses]
    [] direction = "OpenaiToAnthropic" -> [reads |-> {Chat}, writes |-> Anthropic]
    [] direction = "ResponsesToAnthropic" -> [reads |-> {Responses}, writes |-> Anthropic]
    [] direction = "ResponsesToOpenai" -> [reads |-> {Responses}, writes |-> Chat]

\* The response transforms convert_response calls.  openai_response_to_anthropic_
\* message is used for Chat and for Responses bodies; ResponsesToOpenai goes
\* through Anthropic from Chat to Responses.
ResponseTransform(direction) ==
  CASE direction = "OpenaiToAnthropic" -> [reads |-> {Chat, Responses}, writes |-> Anthropic]
    [] direction = "AnthropicToOpenai" -> [reads |-> {Anthropic}, writes |-> Chat]
    [] direction = "AnthropicToResponses" -> [reads |-> {Anthropic}, writes |-> Responses]
    [] direction = "ResponsesToAnthropic" -> [reads |-> {Chat, Responses}, writes |-> Anthropic]
    [] direction = "ResponsesToOpenai" -> [reads |-> {Chat, Responses}, writes |-> Responses]

\* transform_stream_to_<client>_sse(body, upstream)
StreamTransform(upstream, client) == [reads |-> {upstream}, writes |-> client]

\* llm_bridge_core: a transform may refuse any body; one that it cannot read it
\* refuses or turns into nonsense.
Converted(transform, body) ==
  {Error, IF body \in transform.reads THEN transform.writes ELSE Garbled}

\* Mutant: an error body is converted like any other.
IsUpstreamErrorBodyNever(response) == FALSE

\* is_upstream_error_body: JSON with the key `error` at the top, whatever its value.
IsUpstreamErrorBody(response) == response.error

-----------------------------------------------------------------------------
(* The engine *)

\* The engine itself is at work, not a middleware.
At(stage) == <<stage, "engine">>

PipelineInit == /\ pc = At("idle")
                /\ ctx = NoContext /\ res = NoResponse /\ ledger = EmptyLedger

Init == PipelineInit /\ AliasInit

\* run_on_request_chain and run_on_response_chain: what follows middleware mw on
\* the way out, and on the way back.
Position(mw) == CHOOSE i \in DOMAIN Chain : Chain[i] = mw

Onward(mw) == IF Position(mw) = Len(Chain) THEN At("forward")
              ELSE <<"on_request", Chain[Position(mw) + 1]>>

Back(mw) == IF Position(mw) = 1 THEN At("record_cost")
            ELSE <<"on_response", Chain[Position(mw) - 1]>>

OnRequestOf(mw) == pc = <<"on_request", mw>>
OnResponseOf(mw) == pc = <<"on_response", mw>>

\* A ProxyError ends the request: the client gets the error's own answer.
Abort == /\ pc' = At("answered")
         /\ res' = [NoResponse EXCEPT !.from = "proxy", !.status = "server_error",
                                      !.body = ErrorJson]

\* handle_proxy_request turns the request away: unknown path, body too large, not
\* JSON by its content type, or empty.
RejectRequest ==
  /\ pc = At("idle")
  /\ Abort
  /\ UNCHANGED <<ctx, ledger>>

\* handle_proxy_request accepts a request of a known path.
AcceptRequest(client, streaming, model) ==
  /\ pc = At("idle")
  /\ ctx' = [NoContext EXCEPT !.client = client, !.streaming = streaming,
                               !.body = client, !.model = model]
  /\ pc' = <<"on_request", Chain[1]>>
  /\ UNCHANGED <<res, ledger>>

\* compress on_request: shorter tool schemas, in the same format.
CompressRequest ==
  /\ OnRequestOf("compress")
  /\ pc' = Onward("compress")
  /\ UNCHANGED <<ctx, res, ledger>>

\* ModelAliasMiddleware::on_request
AliasModel ==
  /\ OnRequestOf("model_alias")
  /\ ctx' = [ctx EXCEPT !.model = IF @ \in DOMAIN aliasMap THEN aliasMap[@] ELSE @]
  /\ pc' = Onward("model_alias")
  /\ UNCHANGED <<res, ledger>>

\* compress, alias and router refuse a body that is not JSON, the router also one
\* without a model or for which no channel is left, the bridge one too deep.
RefuseRequest ==
  /\ \E i \in DOMAIN Chain : OnRequestOf(Chain[i])
  /\ Abort
  /\ UNCHANGED <<ctx, ledger>>

\* The router's on_request, once it has selected a channel and a mapping.
RouteRequest(route) ==
  LET target == ResolveRoute(route.force, ctx.client, route.protocols, route.allowed)
  IN  /\ OnRequestOf("model_router") /\ ctx.model # NoModel
      /\ IF target = Error
         THEN Abort /\ UNCHANGED ctx
         ELSE /\ ctx' = [ctx EXCEPT !.model = "upstream", !.target = target,
                                    !.route = route]
              /\ pc' = Onward("model_router")
              /\ UNCHANGED res
      /\ UNCHANGED ledger

\* Mutant: the request is converted, the flag for the way back is not set.
BridgeRequestUnmarked ==
  LET direction == Resolve(ctx.client, ctx.target)
  IN  /\ OnRequestOf("bridge")
      /\ IF direction = "Passthrough"
         THEN pc' = Onward("bridge") /\ UNCHANGED <<ctx, res>>
         ELSE \E body \in Converted(RequestTransform(direction), ctx.body) :
                IF body = Error
                THEN Abort /\ UNCHANGED ctx
                ELSE /\ ctx' = [ctx EXCEPT !.body = body]
                     /\ pc' = Onward("bridge")
                     /\ UNCHANGED res
      /\ UNCHANGED ledger

\* The bridge's on_request
BridgeRequest ==
  LET direction == Resolve(ctx.client, ctx.target)
  IN  /\ OnRequestOf("bridge")
      /\ IF direction = "Passthrough"
         THEN pc' = Onward("bridge") /\ UNCHANGED <<ctx, res>>
         ELSE \E body \in Converted(RequestTransform(direction), ctx.body) :
                IF body = Error
                THEN Abort /\ UNCHANGED ctx
                ELSE /\ ctx' = [ctx EXCEPT !.body = body, !.reverse = TRUE]
                     /\ pc' = Onward("bridge")
                     /\ UNCHANGED res
      /\ UNCHANGED ledger

\* forward_to_upstream or the reading of the response fails: no on_response.
UpstreamUnreachable ==
  /\ pc = At("forward")
  /\ Abort
  /\ UNCHANGED <<ctx, ledger>>

\* What the upstream says arrives: the bodies are the middlewares' from now on.
Arrives(status, body, error, report) ==
  /\ pc = At("forward")
  /\ res' = [from |-> "upstream", status |-> status, body |-> body, error |-> error,
             report |-> report]
  /\ ledger' = [ledger EXCEPT !.status = status, !.body = body,
                              !.metered = report.metered, !.names = report.names]
  /\ pc' = <<"on_response", Chain[Len(Chain)]>>
  /\ UNCHANGED ctx

\* The upstream succeeds, in the protocol it speaks.  A JSON body may have the key
\* `error` all the same, as the Responses API's have, with null; a stream is no JSON.
UpstreamAnswers(error, report) ==
  /\ report.format = ctx.target /\ report.streaming = ctx.streaming
  /\ error => ~ctx.streaming
  /\ Arrives("ok", ctx.target, error, report)

\* It reports a failure, as JSON or as whatever a gateway in front of it says.
UpstreamFails(status, body) == Arrives(status, body, body = ErrorJson, NoReport)

\* The body is replaced by its conversion, and with it what it reports.
ReplaceBody(body, report) ==
  /\ res' = [res EXCEPT !.body = body, !.report = report]
  /\ ledger' = [ledger EXCEPT !.lost =
                  {m \in Meters : report.metered[m] # ledger.metered[m]}]
  /\ pc' = Back("bridge")

\* The bridge's on_response
BridgeResponse ==
  LET direction == Resolve(ctx.target, ctx.client)
      transform == IF ctx.streaming THEN StreamTransform(ctx.target, ctx.client)
                                    ELSE ResponseTransform(direction)
  IN  /\ OnResponseOf("bridge")
      /\ \/ /\ ~ctx.reverse \/ direction = "Passthrough" \/ IsUpstreamErrorBody(res)
            /\ pc' = Back("bridge") /\ UNCHANGED <<res, ledger>>
         \/ /\ ctx.reverse /\ direction # "Passthrough" /\ ~IsUpstreamErrorBody(res)
            /\ \E body \in Converted(transform, res.body) :
                 IF body = Error
                 THEN Abort /\ UNCHANGED ledger
                 ELSE \E report \in IF body \in ApiFormats THEN ConvertedReports(res.report, body)
                                                          ELSE {NoReport} :
                        ReplaceBody(body, report)
      /\ UNCHANGED ctx

\* extract_token_count finds the tokens of a body: only JSON bodies with the field
\* names of Anthropic and Responses.
CountsTokens(body, streaming) == ~streaming /\ body \in {Anthropic, Responses}

\* The router's on_response: quota of a flat-fee mapping, then the channel's health.
RouterResponse ==
  /\ OnResponseOf("model_router")
  /\ ledger' = [ledger EXCEPT
       !.quota = IF ~ctx.route.flat_fee THEN "none"
                 ELSE IF CountsTokens(res.body, ctx.streaming) THEN "tokens" ELSE "request",
       !.health = res.status]
  /\ pc' = Back("model_router")
  /\ UNCHANGED <<ctx, res>>

AliasResponse ==
  /\ OnResponseOf("model_alias")
  /\ pc' = Back("model_alias")
  /\ UNCHANGED <<ctx, res, ledger>>

\* compress on_response: a shorter body in the same format.
CompressResponse ==
  /\ OnResponseOf("compress")
  /\ pc' = Back("compress")
  /\ UNCHANGED <<ctx, res, ledger>>

\* Mutant: the usage is read in the upstream's format.
UsageFormatUpstream == ctx.target

\* The format record() extracts the usage in.
UsageFormat == ctx.client

\* The usage object record() is given, of the body as the chain left it: of JSON, or
\* merged from the events of a stream; a body of no format has none.
UsageIn(response) ==
  IF response.body \notin ApiFormats THEN NoUsage
  ELSE IF ctx.streaming THEN extract_usage_from_sse(response.report.events)
  ELSE response.report.events[1].usage

\* cost record(), for a streaming response or one that is JSON.
RecordCost ==
  /\ pc = At("record_cost")
  /\ ledger' = IF ~ctx.streaming /\ res.body = NotJson THEN ledger
               ELSE [ledger EXCEPT !.cost = "row",
                                   !.usage = extract_usage(UsageIn(res), UsageFormat)]
  /\ pc' = At("answered")
  /\ UNCHANGED <<ctx, res>>

\* The insert of the cost record fails: logged, the client is answered anyway.
RecordCostFails ==
  /\ pc = At("record_cost")
  /\ pc' = At("answered")
  /\ UNCHANGED <<ctx, res, ledger>>

\* The next request.
Done ==
  /\ pc = At("answered")
  /\ pc' = At("idle")
  /\ ctx' = NoContext /\ res' = NoResponse /\ ledger' = EmptyLedger

PipelineNext ==
  \/ RejectRequest \/ RefuseRequest
  \/ \E client \in Clients, streaming \in BOOLEAN, model \in Models :
       AcceptRequest(client, streaming, model)
  \/ CompressRequest \/ AliasModel
  \/ \E route \in Routes : RouteRequest(route)
  \/ BridgeRequest \/ UpstreamUnreachable
  \/ \E error \in BOOLEAN, report \in Reports : UpstreamAnswers(error, report)
  \/ \E status \in Statuses \ {"ok"}, body \in ErrorBodies : UpstreamFails(status, body)
  \/ BridgeResponse \/ RouterResponse \/ AliasResponse \/ CompressResponse
  \/ RecordCost \/ RecordCostFails \/ Done

\* The process ends, with the request it is serving.
Crash == Restart /\ pc' = At("idle") /\ ctx' = NoContext /\ res' = NoResponse
         /\ ledger' = EmptyLedger

Next ==
  \/ Up /\ PipelineNext /\ UNCHANGED aliasVars
  \/ AliasNext /\ UNCHANGED pipeline
  \/ Crash

Spec == Init /\ [][Next]_vars

-----------------------------------------------------------------------------
(* Properties *)

Delivered == pc = At("answered") /\ res.from = "upstream"

\* The one pair of formats for which the bridge has no transform of its own.
ChatToResponses == ctx.client = Chat /\ ctx.target = Responses

\* What reaches the upstream is in the protocol whose URL was chosen, which the
\* channel offers and the mapping allows, and names the upstream's model.
UpstreamFormat ==
  pc = At("forward") =>
    /\ ctx.body = ctx.target /\ ctx.model = "upstream"
    /\ HasUpstreamUrl(ctx.target, ctx.route.protocols)
    /\ ctx.route.allowed # {} => ctx.target \in ctx.route.allowed

\* The same for every pair of formats but the one.
RequestFits == ~ChatToResponses => UpstreamFormat

\* The client gets a successful answer in the protocol it asked in, whatever the
\* upstream speaks, streaming or not, with two exceptions: the pair above, and a
\* body with an `error` key, which arrives as the upstream wrote it.
AnswerFits ==
  Delivered /\ res.status = "ok" /\ ~ChatToResponses =>
    res.body = IF res.error THEN ctx.target ELSE ctx.client

\* A successful answer that reaches the client in its format is paid for as metered:
\* each meter of its cost record is what the upstream reported, in one body or over
\* the events of a stream, in whichever event and with zeros in others, except for
\* the meters the conversion does not carry over; and it is extracted from what the
\* conversion left.  Where only a total is reported, and to a client of the same
\* format, none of it is lost but the odd one.
UsageBilled ==
  LET usage == ledger.usage
      metered == ledger.metered
      readable == res.body = ctx.client /\ (ctx.reverse => ledger.names = "own")
  IN  Delivered /\ res.status = "ok" /\ ledger.cost = "row" /\ readable =>
        IF ledger.names = "total"
        THEN metered["input"] + metered["output"] - usage["input"] - usage["output"] \in {0, 1}
        ELSE \A m \in Meters : usage[m] = IF m \in ledger.lost THEN 0 ELSE metered[m]

\* "5xx: immediate unhealthy", "429: rate limit": a failure the upstream reports
\* as a JSON error passes the bridge untouched, reaches the client, and has
\* reached the router's health map, and the quota of a flat-fee mapping, by then.
FailureRecorded ==
  pc = At("answered") /\ ledger.body = ErrorJson =>
    /\ Delivered /\ res.status = ledger.status /\ res.body = ErrorJson
    /\ ledger.health = ledger.status
    /\ ctx.route.flat_fee => ledger.quota # "none"

=============================================================================
