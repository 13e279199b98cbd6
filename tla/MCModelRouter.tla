--------------------------- MODULE MCModelRouter ---------------------------
(* Model-checking instances of ModelRouter. *)
EXTENDS ModelRouter, TLC

Chat == << [protocol |-> "openai_chat", has_url |-> TRUE] >>

\* A metered row; the other rows differ from it as stated.
Metered(id, name, mapping, prio) ==
  [channel_id |-> id, channel_name |-> name, api_key |-> "k", enabled |-> TRUE,
   priority |-> prio, force_protocol |-> NoForce, protocols |-> Chat,
   mapping_id |-> mapping, client_name |-> "m", billing |-> "metered",
   quota |-> [kind |-> "unlimited", per_month |-> 0],
   on_exhausted |-> "fallback_to_metered", allowed_protocols |-> {}]

FlatFee(row, kind, limit, exhausted) ==
  [row EXCEPT !.billing = "flatfee", !.on_exhausted = exhausted,
              !.quota = [kind |-> kind, per_month |-> limit]]

\* Channel names equal to their ids.
A(mapping, prio) == Metered("a", "a", mapping, prio)
B(mapping, prio) == Metered("b", "b", mapping, prio)

\* Two metered channels, the second one first by priority.
MeteredCatalogs == { << A("m1", 1), B("m2", 2) >> }

\* A flat-fee channel before a metered one; and two of them, of which the better one
\* blocks when it is exhausted and has no key at first, before a metered mapping that
\* allows no protocol of its channel and a disabled one.
QuotaCatalogs ==
  { << A("m1", 1), FlatFee(B("m2", 1), "requests", 1, "fallback_to_metered") >>,
    << FlatFee(A("m1", 1), "tokens", 1, "fallback_to_metered"),
       [FlatFee(B("m2", 2), "requests", 1, "block") EXCEPT !.api_key = NoKey],
       [A("m1", 1) EXCEPT !.allowed_protocols = {"anthropic_messages"}],
       [B("m2", 3) EXCEPT !.enabled = FALSE] >> }

\* The seed data's way: the display name is not the id.
SeedCatalogs == { << Metered("a", "Name A", "m1", 1) >> }

Symmetry == Permutations(Requests)

=============================================================================
