--------------------------- MODULE MCProxyPipeline ---------------------------
(* Model-checking instances of ProxyPipeline. *)
EXTENDS ProxyPipeline

Entry(protocol) == [protocol |-> protocol, has_url |-> TRUE]

Route(protocols) == [force |-> NoForce, protocols |-> protocols, allowed |-> {},
                     flat_fee |-> FALSE]

\* Channels of one protocol and of several, a forced protocol, mappings that allow
\* only one, a protocol without a URL, one the proxy does not know, a force the
\* channel does not offer, no protocol at all.
AnthropicOrChat ==
  LET both == Route(<<Entry(Anthropic), Entry(Chat)>>)
  IN  { Route(<<Entry(Anthropic)>>), both,
        [both EXCEPT !.force = Chat],
        [both EXCEPT !.force = Responses],
        [both EXCEPT !.allowed = {Chat}, !.flat_fee = TRUE],
        [Route(<<Entry(Anthropic)>>) EXCEPT !.allowed = {Chat}],
        Route(<<[Entry(Chat) EXCEPT !.has_url = FALSE]>>),
        Route(<<Entry("gemini")>>),
        Route(<<Entry(Responses), Entry(Chat), Entry(Anthropic)>>),
        Route(<<>>) }

ResponsesOnly == { Route(<<Entry(Responses)>>) }

AnyChannel == AnthropicOrChat \cup ResponsesOnly
-----------------------------------------------------------------------------
(* How answers report 5 tokens in, 3 out, 2 written to and 4 read from the cache
   (2 are written only where the format can say so), or less where a conversion
   lost some, or nothing. *)

Absent == -1

Object(keys, values) ==
  LET given == {i \in DOMAIN keys : values[i] # Absent}
  IN  [key \in {keys[i] : i \in given} |-> values[CHOOSE i \in given : keys[i] = key]]

Event(kind, usage) == [kind |-> kind, usage |-> usage]

Report(format, streaming, events, metered) ==
  [format |-> format, streaming |-> streaming, events |-> events, metered |-> metered,
   names |-> "own"]

InAnthropic(i, o, w, c) ==
  Object(<<"input_tokens", "output_tokens", "cache_creation_input_tokens",
           "cache_read_input_tokens">>, <<i, o, w, c>>)
InChat(i, o, c) ==
  Object(<<"prompt_tokens", "completion_tokens", "prompt_tokens_details">>, <<i, o, c>>)
InResponses(i, o, c) ==
  Object(<<"input_tokens", "output_tokens", "input_tokens_details">>, <<i, o, c>>)

\* The input is known at the start, the output grows, the cache counters come
\* early or late, and other events repeat a counter, say 0 or leave it out.  The
\* last two are streams that were converted, one of them without the input.
AnthropicStreams ==
  { Report(Anthropic, TRUE,
           << Event("message_start", InAnthropic(5, s[1], s[2], 4 - s[2])),
              Event("content_block_delta", NoUsage),
              Event("message_delta", InAnthropic(s[3], 2, Absent, 0)),
              Event("message_delta", InAnthropic(s[3], 3, 2 - s[2], 4)) >>,
           Counts(5, 3, 2, 4)) :
      s \in {<<Absent, 2, Absent>>, <<1, 0, 0>>, <<0, 2, 5>>} } \cup
  { Report(Anthropic, TRUE, << Event("message_start", InAnthropic(i, 0, Absent, Absent)),
                               Event("message_delta", InAnthropic(Absent, 3, 0, 4)) >>,
           Counts(i, 3, 0, 4)) : i \in {0, 5} }

\* Usage in every chunk, or in an event of its own.
ChatStreams ==
  { Report(Chat, TRUE, << Event("chunk", InChat(5, 1, Absent)), Event("chunk", InChat(5, 3, 4)) >>,
           Counts(5, 3, 0, 4)),
    Report(Chat, TRUE, << Event("chunk", NoUsage), Event("bare", InChat(5, 3, 4)) >>,
           Counts(5, 3, 0, 4)) }

AllReports ==
  AnthropicStreams \cup ChatStreams \cup
  { Report(format, streaming, << Event("json", NoUsage) >>, Counts(0, 0, 0, 0)) :
      format \in ApiFormats, streaming \in BOOLEAN } \cup
  { Report(Anthropic, FALSE, << Event("json", InAnthropic(5, 3, 2, 4)) >>, Counts(5, 3, 2, 4)),
    Report(Chat, FALSE, << Event("json", InChat(5, 3, 4)) >>, Counts(5, 3, 0, 4)),
    [Report(Chat, FALSE, << Event("json", Object(<<"input", "output">>, <<5, 3>>)) >>,
            Counts(5, 3, 0, 0)) EXCEPT !.names = "short"],
    [Report(Chat, FALSE, << Event("json", Object(<<"total_tokens">>, <<9>>)) >>,
            Counts(6, 3, 0, 0)) EXCEPT !.names = "total"],
    Report(Anthropic, FALSE, << Event("json", InAnthropic(5, 3, 0, 4)) >>, Counts(5, 3, 0, 4)),
    Report(Responses, FALSE, << Event("json", InResponses(5, 3, 4)) >>, Counts(5, 3, 0, 4)),
    Report(Responses, TRUE, << Event("response.created", NoUsage),
                               Event("response.completed", InResponses(5, 3, 4)) >>,
           Counts(5, 3, 0, 4)) }

=============================================================================
