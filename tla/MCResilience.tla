---------------------------- MODULE MCResilience ----------------------------
(* Model-checking instances of Resilience. *)
EXTENDS Resilience

\* One order for each way the middlewares can affect each other: breaker before or
\* after limiter on the way out, retry before or after breaker on the way back.
FourOrders == { <<"limiter", "retry", "breaker">>, <<"retry", "breaker", "limiter">>,
                <<"breaker", "limiter", "retry">>, <<"limiter", "breaker", "retry">> }

=============================================================================
