-------------------------- MODULE UsageExtraction --------------------------
(***************************************************************************)
(* The tokens a response reports: the usage the engine collects from the   *)
(* events of a stream (crates/core/src/server.rs) and the extractor of     *)
(* each format (crates/cost/src/lib.rs).                                   *)
(*                                                                         *)
(* A JSON usage object is a function from the keys it has to numbers.  The *)
(* value of a key in Nested is an object; the number is its cached_tokens. *)
(* An event is its kind and its usage; the kinds in UsageKinds carry it    *)
(* where the extractor looks for it.  Of the extractors, auto_detect_usage *)
(* is left out (only paths with a known format are proxied) and so is      *)
(* extract_usage_sse, which nothing calls.                                 *)
(***************************************************************************)
EXTENDS Integers, Sequences

Meters == {"input", "output", "cache_write", "cache_read"}

\* cost::Usage, without the thinking tokens, which no extractor sets
Usage == [Meters -> Nat]

NoUsage == [key \in {} |-> 0]

Nested == {"prompt_tokens_details", "input_tokens_details"}

\* get(key).and_then(as_u64).unwrap_or(0)
Tokens(usage, key) == IF key \in DOMAIN usage THEN usage[key] ELSE 0

Counts(input, output, cache_write, cache_read) ==
  [m \in Meters |-> CASE m = "input" -> input [] m = "output" -> output
                      [] m = "cache_write" -> cache_write [] m = "cache_read" -> cache_read]

extract_anthropic(usage) ==
  Counts(Tokens(usage, "input_tokens"), Tokens(usage, "output_tokens"),
         Tokens(usage, "cache_creation_input_tokens"),
         Tokens(usage, "cache_read_input_tokens"))

\* Without prompt and completion tokens, half of a total for each, or other names.
extract_openai_chat(usage) ==
  LET prompt == Tokens(usage, "prompt_tokens")
      completion == Tokens(usage, "completion_tokens")
      half == Tokens(usage, "total_tokens") \div 2
      cached == Tokens(usage, "prompt_tokens_details")
  IN  IF prompt > 0 \/ completion > 0 THEN Counts(prompt, completion, 0, cached)
      ELSE IF "total_tokens" \in DOMAIN usage THEN Counts(half, half, 0, cached)
      ELSE Counts(Tokens(usage, "input"), Tokens(usage, "output"), 0, cached)

extract_openai_responses(usage) ==
  Counts(Tokens(usage, "input_tokens"), Tokens(usage, "output_tokens"), 0,
         Tokens(usage, "input_tokens_details"))

extract_usage(usage, format) ==
  CASE format = "anthropic_messages" -> extract_anthropic(usage)
    [] format = "openai_chat" -> extract_openai_chat(usage)
    [] format = "openai_responses" -> extract_openai_responses(usage)

-----------------------------------------------------------------------------
(* Streams *)

\* message_start, message_delta, response.completed, a chunk with choices, and an
\* event with neither a type nor choices
UsageKinds == {"message_start", "message_delta", "response.completed", "chunk", "bare"}

\* Mutant: the last event wins, field by field.
merge_usage_fields_last(acc, usage) ==
  [key \in DOMAIN acc \cup DOMAIN usage |->
     IF key \in DOMAIN usage THEN usage[key] ELSE acc[key]]

\* A key there is is overwritten only by a number that is not zero.
merge_usage_fields(acc, usage) ==
  LET Takes(key) == \/ key \notin DOMAIN acc
                    \/ key \in DOMAIN usage \ Nested /\ usage[key] > 0
  IN  [key \in DOMAIN acc \cup DOMAIN usage |->
         IF Takes(key) THEN usage[key] ELSE acc[key]]

\* The accumulator after the first n events.
extract_usage_from_sse(events) ==
  LET Merged[n \in 0..Len(events)] ==
        IF n = 0 THEN NoUsage
        ELSE IF events[n].kind \in UsageKinds
        THEN merge_usage_fields(Merged[n - 1], events[n].usage)
        ELSE Merged[n - 1]
  IN  Merged[Len(events)]

-----------------------------------------------------------------------------
(* Honest reports.  A report is the answer of an upstream as far as usage is
   concerned: format, streaming, its events (one for a JSON body), the tokens it
   metered, and the names it calls them by: the format's own or, in Chat bodies,
   only a "total", or "short" ones. *)

Names == {"own", "total", "short"}

\* The events that say something of a key.
Saying(report, key) ==
  {i \in DOMAIN report.events : /\ key \in DOMAIN report.events[i].usage
                                /\ report.streaming => report.events[i].kind \in UsageKinds}

\* The report says n of a key.  Counters of a stream are cumulative: they do not go
\* back, except that a zero says nothing.  Details are said once or are the same.
Tells(report, key, n) ==
  LET said == Saying(report, key)
      Value(i) == report.events[i].usage[key]
  IN  IF key \in Nested
      THEN (said = {} => n = 0) /\ \A i \in said : Value(i) = n
      ELSE /\ \A i \in said : Value(i) <= n
           /\ \A i, j \in said : i < j /\ Value(j) # 0 => Value(i) <= Value(j)
           /\ n # 0 => \E i \in said : Value(i) = n

Silent(report, key) == Saying(report, key) = {}

\* Chat: the names of OpenAI, with the total or not; the total alone; or short names.
HonestChat(report) ==
  LET metered == report.metered
      sum == metered["input"] + metered["output"]
      Named(in, out) == Tells(report, in, metered["input"]) /\ Tells(report, out, metered["output"])
      NoNames == Tells(report, "prompt_tokens", 0) /\ Tells(report, "completion_tokens", 0)
  IN  /\ metered["cache_write"] = 0
      /\ Tells(report, "prompt_tokens_details", metered["cache_read"])
      /\ CASE report.names = "own" ->
                /\ Named("prompt_tokens", "completion_tokens")
                /\ Silent(report, "input") /\ Silent(report, "output")
                /\ Silent(report, "total_tokens") \/ Tells(report, "total_tokens", sum)
           [] report.names = "total" ->
                NoNames /\ ~Silent(report, "total_tokens") /\ Tells(report, "total_tokens", sum)
           [] report.names = "short" ->
                NoNames /\ Silent(report, "total_tokens") /\ Named("input", "output")

Honest(report) ==
  LET Meter(key, meter) == Tells(report, key, report.metered[meter])
  IN  /\ report.metered \in Usage /\ report.names \in Names
      /\ \A i \in DOMAIN report.events : \A key \in DOMAIN report.events[i].usage :
           report.events[i].usage[key] \in Nat
      /\ report.streaming \/ DOMAIN report.events = {1}
      /\ report.format # "openai_chat" => report.names = "own"
      /\ CASE report.format = "anthropic_messages" ->
                /\ Meter("input_tokens", "input") /\ Meter("output_tokens", "output")
                /\ Meter("cache_creation_input_tokens", "cache_write")
                /\ Meter("cache_read_input_tokens", "cache_read")
           [] report.format = "openai_chat" -> HonestChat(report)
           [] report.format = "openai_responses" ->
                /\ Meter("input_tokens", "input") /\ Meter("output_tokens", "output")
                /\ report.metered["cache_write"] = 0
                /\ Meter("input_tokens_details", "cache_read")

=============================================================================
