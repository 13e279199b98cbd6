---------------------------- MODULE TokenCredit ----------------------------
(***************************************************************************)
(* What the rate limiter of the resilience crate promises of a channel:    *)
(* "Tokens refill at a rate of max_requests / window, up to max_requests.  *)
(* Each request consumes one token.  When tokens are exhausted, the        *)
(* request is rejected".  Credit grows with time and with nothing else,    *)
(* and only an admitted request spends it.                                 *)
(***************************************************************************)
EXTENDS Integers

CONSTANTS Names,       \* the channels
          Full,        \* the credit of a channel nobody has used
          PerTick,     \* what a channel earns in a tick
          Price        \* what an admitted request costs

VARIABLE credit        \* [Names -> 0..Full]

Init == credit = [c \in Names |-> Full]

Earn == credit' = [c \in Names |->
                     IF credit[c] + PerTick < Full THEN credit[c] + PerTick ELSE Full]

Admit(c) == /\ credit[c] >= Price
            /\ credit' = [credit EXCEPT ![c] = @ - Price]

Next == Earn \/ \E c \in Names : Admit(c)

Spec == Init /\ [][Next]_credit

=============================================================================
