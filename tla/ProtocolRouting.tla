--------------------------- MODULE ProtocolRouting ---------------------------
(***************************************************************************)
(* How the model router chooses the wire protocol of the upstream request  *)
(* (resolve_target_protocol, the mapping's protocol constraint and         *)
(* resolve_upstream_url in crates/model-router/src/lib.rs).  Pure          *)
(* operators: a channel's protocols are a sequence of entries              *)
(* [protocol, has_url], in the order of the channel's JSON column.         *)
(***************************************************************************)
EXTENDS Naturals, Sequences

\* protocol_to_str and parse_protocol: the known ApiFormat variants go by their
\* storage strings.
ApiFormats == {"anthropic_messages", "openai_chat", "openai_responses"}

NoForce == "none"   \* force_protocol is None
Error == "error"    \* ProxyError::Internal

ParseProtocol(s) == IF s \in ApiFormats THEN s ELSE Error

Supports(protocols, p) ==
  \E i \in DOMAIN protocols : protocols[i].protocol = p

\* The first entry whose protocol is in ps (iter().find); it must exist.
FirstEntry(protocols, ps) ==
  protocols[CHOOSE i \in DOMAIN protocols :
              /\ protocols[i].protocol \in ps
              /\ \A j \in DOMAIN protocols :
                   protocols[j].protocol \in ps => i <= j]

\* resolve_target_protocol: forced, else the client's own, else the first.
ResolveTargetProtocol(force, detected, protocols) ==
  IF force # NoForce
  THEN IF force \in ApiFormats /\ Supports(protocols, force) THEN force ELSE Error
  ELSE IF detected \in ApiFormats /\ Supports(protocols, detected)
  THEN detected
  ELSE IF protocols # <<>> THEN ParseProtocol(protocols[1].protocol) ELSE Error

\* The protocol-model compatibility check of on_request: an empty allowed set
\* means no constraint.
ApplyMappingConstraint(target, protocols, allowed) ==
  IF target = Error \/ allowed = {} \/ target \in allowed THEN target
  ELSE IF \E p \in allowed : Supports(protocols, p)
  THEN ParseProtocol(FirstEntry(protocols, allowed).protocol)
  ELSE Error

\* resolve_upstream_url, as a check: the first entry of the protocol has a URL.
HasUpstreamUrl(target, protocols) ==
  Supports(protocols, target) /\ FirstEntry(protocols, {target}).has_url

\* The protocol a request for this channel and mapping is sent in, or Error.
ResolveRoute(force, detected, protocols, allowed) ==
  LET target == ApplyMappingConstraint(
                  ResolveTargetProtocol(force, detected, protocols),
                  protocols, allowed)
  IN  IF target # Error /\ HasUpstreamUrl(target, protocols) THEN target
                                                             ELSE Error

=============================================================================
