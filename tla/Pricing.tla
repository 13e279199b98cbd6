------------------------------ MODULE Pricing ------------------------------
(***************************************************************************)
(* What a request costs: the pricing formulas of the model router          *)
(* (crates/model-router/src/types.rs) as the cost crate applies them       *)
(* (crates/cost/src/lib.rs).                                               *)
(*                                                                         *)
(* Units: prices are whole numbers per million tokens and costs are counted*)
(* in quarters of a millionth, so that the division by a million and the   *)
(* factor 0.75 of CharBased stay integers.  An absent price is 0 and an    *)
(* absent multiplier 1, which is what unwrap_or makes of them; thinking    *)
(* tokens are left out because no extractor sets them.                     *)
(***************************************************************************)
EXTENDS UsageExtraction, FiniteSetsExt, Functions

Scale == 4
Million == 1000000

Unlimited == -1        \* up_to is None

\* Pricing::PerToken and TierPrice::Token
PerToken(price, currency) == [kind |-> "per_token", price |-> price, currency |-> currency]

\* Pricing::Credits, ::CharBased, ::PerUnit
Credits(input, output, request) ==
  [kind |-> "credits", input |-> input, output |-> output, request |-> request]

CharBased(price, multiplier) ==
  [kind |-> "char_based", per_char |-> price, multiplier |-> multiplier]

PerUnit(unit, currency) == [kind |-> "per_unit", unit |-> unit, currency |-> currency]

\* PricingTier: a bound and the prices of TierPrice::Token, or TierPrice::Unit
Tier(up_to, price) == [up_to |-> up_to, by_token |-> TRUE, price |-> price]
UnitTier(up_to) == [up_to |-> up_to, by_token |-> FALSE]

\* Pricing::Tiered
Tiered(dimension, tiers, currency) ==
  [kind |-> "tiered", dimension |-> dimension, tiers |-> tiers, currency |-> currency]

\* ChannelBilling::FlatFee: no pricing goes with the request.
FlatFee == [kind |-> "flat_fee"]

Prices == [Meters -> Int]

\* "Tiers ordered from lowest to highest range"; only the last can be unlimited.
Ordered(tiers) ==
  \A i, j \in DOMAIN tiers :
    i < j => /\ tiers[i].up_to # Unlimited
             /\ tiers[j].up_to = Unlimited \/ tiers[i].up_to < tiers[j].up_to

IsTier(t) == /\ t.up_to \in Nat \cup {Unlimited}
             /\ t.by_token \in BOOLEAN
             /\ t.by_token => t.price \in Prices

\* A billing as the types and their comments allow it.
IsBilling(p) ==
  \/ p.kind = "per_token" /\ p.price \in Prices
  \/ p.kind = "credits" /\ p.input \in Int /\ p.output \in Int /\ p.request \in Int
  \/ p.kind = "char_based" /\ p.per_char \in Int /\ p.multiplier \in Int
  \/ p.kind = "per_unit" /\ p.unit \in Int
  \/ /\ p.kind = "tiered" /\ p.tiers \in Seq(Range(p.tiers))
     /\ (\A t \in Range(p.tiers) : IsTier(t)) /\ Ordered(p.tiers)
  \/ p.kind = "flat_fee"

-----------------------------------------------------------------------------

Charge(amount, unit) == [amount |-> amount, unit |-> unit]

calc_per_token(usage, price, currency) ==
  Charge(Scale * (usage["input"] * price["input"] + usage["output"] * price["output"]
                  + usage["cache_write"] * price["cache_write"]
                  + usage["cache_read"] * price["cache_read"]), currency)

Covers(tier, tokens) == tier.up_to = Unlimited \/ tokens <= tier.up_to

\* The first tier that covers input and output; nothing if there is none, or if it
\* is priced by the unit.
calc_tiered_tokens(usage, tiers, currency) ==
  LET total == usage["input"] + usage["output"]
      covering == {i \in DOMAIN tiers : Covers(tiers[i], total)}
  IN  IF covering # {} /\ tiers[Min(covering)].by_token
      THEN calc_per_token(usage, tiers[Min(covering)].price, currency)
      ELSE Charge(0, currency)

calc_cost(usage, p) ==
  CASE p.kind = "per_token" -> calc_per_token(usage, p.price, p.currency)
    [] p.kind = "credits" ->
         Charge(Scale * (usage["input"] * p.input + usage["output"] * p.output
                         + p.request * Million), "credits")
    [] p.kind = "char_based" ->
         Charge(3 * (usage["input"] + usage["output"] * p.multiplier) * p.per_char, "CNY")
    [] p.kind = "per_unit" -> Charge(Scale * p.unit * Million, p.currency)
    [] p.kind = "tiered" -> IF p.dimension = "tokens"
                            THEN calc_tiered_tokens(usage, p.tiers, p.currency)
                            ELSE Charge(0, p.currency)

\* record(): a flat-fee request, which carries no pricing, costs nothing.
Cost(usage, p) == IF p.kind = "flat_fee" THEN Charge(0, "USD") ELSE calc_cost(usage, p)

-----------------------------------------------------------------------------
(* Reference *)

\* The price list that applies to a request: of the tiers that cover the tokens it
\* sent and received, the one with the narrowest bound, whatever the order
\* of the list.
NarrowestTier(tiers, tokens) ==
  CHOOSE i \in DOMAIN tiers :
    /\ Covers(tiers[i], tokens)
    /\ \A j \in DOMAIN tiers :
         Covers(tiers[j], tokens)
         => \/ tiers[j].up_to = Unlimited
            \/ tiers[i].up_to # Unlimited /\ tiers[i].up_to <= tiers[j].up_to

\* What a token of each meter costs the request.
PriceList(usage, p) ==
  LET tokens == usage["input"] + usage["output"]
  IN  CASE p.kind = "per_token" -> p.price
        [] p.kind = "credits" -> [m \in Meters |-> CASE m = "input" -> p.input
                                                     [] m = "output" -> p.output
                                                     [] OTHER -> 0]
        [] p.kind = "tiered" /\ p.dimension = "tokens"
             /\ \E t \in Range(p.tiers) : Covers(t, tokens) ->
               LET t == p.tiers[NarrowestTier(p.tiers, tokens)]
               IN  IF t.by_token THEN t.price ELSE [m \in Meters |-> 0]
        [] OTHER -> [m \in Meters |-> 0]

\* The price of the metered tokens, and the fixed part of a request's price.
ReferenceAmount(usage, p) ==
  Scale * SumFunction([m \in Meters |-> usage[m] * PriceList(usage, p)[m]])
  + CASE p.kind = "credits" -> Scale * Million * p.request
      [] p.kind = "per_unit" -> Scale * Million * p.unit
      [] p.kind = "char_based" ->
           (Scale - 1) * p.per_char * (usage["input"] + p.multiplier * usage["output"])
      [] OTHER -> 0

=============================================================================
