---------------------------- MODULE MCCostLedger ----------------------------
(* Model-checking instances of CostLedger. *)
EXTENDS CostLedger, TLC

\* Usages on, below and above the bounds of the tiers, with and without cache.
TwoAsks ==
  "r1" :> [project |-> <<"p">>, model |-> "m", usage |-> Counts(2, 1, 0, 5),
           hook |-> 7, proxy |-> 0, header |-> 2]
  @@ "r2" :> [project |-> <<"p", "q">>, model |-> "m", usage |-> Counts(3, 1, 2, 0),
              hook |-> 1, proxy |-> 3, header |-> 0]

\* Further east than the clamp, and west of UTC.
TwoOffsets == {6, -2}

\* A client that asks for a page as large as may be, one that asks for more and goes
\* on until nothing comes, and one that asks for more and stops at a short page.
ThreeReaders == { [limit |-> 1, until |-> "short"], [limit |-> 2, until |-> "empty"],
                  [limit |-> 2, until |-> "short"] }

\* Every kind of price, each edited into another while requests are under way.
TwoTiers == Tiered("tokens", << Tier(3, Counts(1, 2, 3, 1)),
                                Tier(Unlimited, Counts(4, 5, 6, 2)) >>, "USD")
Bounded == Tiered("tokens", << UnitTier(3), Tier(4, Counts(1, 1, 1, 1)) >>, "CNY")

Edits == { << TwoTiers, PerToken(Counts(3, 15, 4, 0), "USD") >>,
           << Credits(2, 3, 1), CharBased(5, 2) >>,
           << Bounded, FlatFee >>,
           << PerUnit(2, "CNY"), Tiered("duration", <<>>, "USD") >> }

=============================================================================
