--------------------------- MODULE CircuitBreaker ---------------------------
(***************************************************************************)
(* The circuit-breaker middleware of the resilience crate                  *)
(* (crates/resilience/src/circuit_breaker.rs): one circuit per channel     *)
(* behind one mutex, consulted when a request goes out and updated when    *)
(* its response comes back.  Many requests are in flight at once, so a     *)
(* response can reach a circuit that has changed state since its request   *)
(* was admitted.                                                           *)
(*                                                                         *)
(* Time: circuit.elapsed is the time since opened_at, counted in ticks and *)
(* saturating at Cooldown, the only value the code compares it with.       *)
(* failure_count saturates at FailureThreshold for the same reason.        *)
(***************************************************************************)
EXTENDS Integers

CONSTANTS Channels,          \* names of the channels with a circuit
          NoChannel,         \* no ChannelConfig in the context: empty name
          Requests,          \* concurrency slots: requests in flight at once
          FailureThreshold,  \* config.failure_threshold
          Cooldown           \* config.cooldown, in ticks

ASSUME ThresholdAssumption == FailureThreshold \in Nat \ {0}
ASSUME CooldownAssumption == Cooldown \in Nat \ {0}
ASSUME NoChannelAssumption == NoChannel \notin Channels

VARIABLES circuits,  \* [channel -> ChannelCircuit]
          req        \* [request -> where it is and its channel]

vars == <<circuits, req>>

States == {"Closed", "Open", "HalfOpen"}

Statuses == {"ok", "client_error", "rate_limited", "server_error"}

\* elapsed of a circuit whose opened_at is None.
NotOpened == -1

Elapsed == 0..Cooldown \cup {NotOpened}

Circuit == [state : States, failure_count : 0..FailureThreshold,
            elapsed : Elapsed]

Idle == [pc |-> "idle", channel |-> NoChannel]

RequestState == [pc : {"idle", "sent"}, channel : Channels \cup {NoChannel}]

-----------------------------------------------------------------------------
(* ChannelCircuit *)

NewCircuit == [state |-> "Closed", failure_count |-> 0, elapsed |-> NotOpened]

CooldownOver(cc) == cc.elapsed # NotOpened /\ cc.elapsed >= Cooldown

\* allow_request, its result ...
Allows(cc) == cc.state \in {"Closed", "HalfOpen"} \/ CooldownOver(cc)

\* Mutant: the probe is let through but the state is not moved to HalfOpen.
AfterAllowStaysOpen(cc) == cc

\* ... and its effect on the circuit when it returns true.
AfterAllow(cc) == IF cc.state = "Open" THEN [cc EXCEPT !.state = "HalfOpen"]
                                       ELSE cc

RecordSuccess(cc) == NewCircuit

\* Mutant: record_failure trips the circuit without taking the time.
RecordFailureNoInstant(cc) ==
  LET n == IF cc.failure_count < FailureThreshold THEN cc.failure_count + 1
                                                  ELSE FailureThreshold
  IN  [cc EXCEPT !.failure_count = n,
                 !.state = IF n >= FailureThreshold THEN "Open" ELSE @]

\* Mutant: opened_at is kept when there is one already.
RecordFailureKeepsInstant(cc) ==
  LET n == IF cc.failure_count < FailureThreshold THEN cc.failure_count + 1
                                                  ELSE FailureThreshold
  IN  IF n >= FailureThreshold
      THEN [state |-> "Open", failure_count |-> n,
            elapsed |-> IF cc.elapsed = NotOpened THEN 0 ELSE cc.elapsed]
      ELSE [cc EXCEPT !.failure_count = n]

\* Mutant: the circuit opens one failure late, and the count goes on.
RecordFailureLate(cc) ==
  LET n == cc.failure_count + 1
  IN  IF n > FailureThreshold
      THEN [state |-> "Open", failure_count |-> n, elapsed |-> 0]
      ELSE [cc EXCEPT !.failure_count = n]

RecordFailure(cc) ==
  LET n == IF cc.failure_count < FailureThreshold THEN cc.failure_count + 1
                                                  ELSE FailureThreshold
  IN  IF n >= FailureThreshold
      THEN [state |-> "Open", failure_count |-> n, elapsed |-> 0]
      ELSE [cc EXCEPT !.failure_count = n]

IsRetryable(status) == status \in {"server_error", "rate_limited"}

AfterResponse(cc, status) ==
  IF IsRetryable(status) THEN RecordFailure(cc) ELSE RecordSuccess(cc)

-----------------------------------------------------------------------------
(* The middleware *)

\* CircuitBreakerMiddleware::new: an entry is inserted on first use and then
\* equals NewCircuit, so a missing entry and a new circuit are one state.
Init == /\ circuits = [c \in Channels |-> NewCircuit]
        /\ req = [r \in Requests |-> Idle]

\* on_request without a selected channel passes the request on untouched.
OnRequestNoChannel(r) ==
  /\ req[r].pc = "idle"
  /\ req' = [req EXCEPT ![r] = [Idle EXCEPT !.pc = "sent"]]
  /\ UNCHANGED circuits

\* on_request on a circuit that lets the request through.
OnRequestAllowed(r, c) ==
  /\ req[r].pc = "idle"
  /\ Allows(circuits[c])
  /\ circuits' = [circuits EXCEPT ![c] = AfterAllow(circuits[c])]
  /\ req' = [req EXCEPT ![r] = [pc |-> "sent", channel |-> c]]

\* on_request on a circuit that refuses: the client gets CircuitOpen at once,
\* nothing changes and the slot is free again.
OnRequestRejected(r, c) ==
  /\ req[r].pc = "idle"
  /\ ~Allows(circuits[c])
  /\ UNCHANGED vars

\* on_response without a selected channel returns early.
OnResponseNoChannel(r) ==
  /\ req[r].pc = "sent" /\ req[r].channel = NoChannel
  /\ req' = [req EXCEPT ![r] = Idle]
  /\ UNCHANGED circuits

\* on_response: the status decides, whatever the circuit's state is by now.
OnResponse(r, status) ==
  LET c == req[r].channel
  IN  /\ req[r].pc = "sent" /\ c # NoChannel
      /\ circuits' = [circuits EXCEPT ![c] = AfterResponse(circuits[c], status)]
      /\ req' = [req EXCEPT ![r] = Idle]

\* The engine failed to reach the upstream, or a later middleware refused the
\* request: on_response is never called for it.
Abandon(r) ==
  /\ req[r].pc = "sent"
  /\ req' = [req EXCEPT ![r] = Idle]
  /\ UNCHANGED circuits

\* Instant::elapsed grows for every circuit that has been opened.
Ages(cc) == cc.elapsed # NotOpened /\ cc.elapsed < Cooldown

Tick ==
  /\ \E c \in Channels : Ages(circuits[c])
  /\ circuits' = [c \in Channels |->
       IF Ages(circuits[c])
       THEN [circuits[c] EXCEPT !.elapsed = @ + 1]
       ELSE circuits[c]]
  /\ UNCHANGED req

RequestStep(r) ==
  \/ OnRequestNoChannel(r)
  \/ \E c \in Channels : OnRequestAllowed(r, c) \/ OnRequestRejected(r, c)
  \/ OnResponseNoChannel(r)
  \/ \E status \in Statuses : OnResponse(r, status)
  \/ Abandon(r)

Next == Tick \/ \E r \in Requests : RequestStep(r)

Spec == Init /\ [][Next]_vars

-----------------------------------------------------------------------------
(* Properties *)

\* Circuits and requests have the shape the Rust types give them.
TypeOK == /\ circuits \in [Channels -> Circuit]
          /\ req \in [Requests -> RequestState]

\* The three fields of a circuit agree in every interleaving: a closed circuit
\* is below the threshold and has no opened_at, an open or half-open one has
\* reached the threshold and has one (otherwise allow_request could never let
\* a probe through again and the channel would be rejected forever).
CircuitCoherent ==
  \A c \in Channels :
    LET cc == circuits[c]
    IN  IF cc.state = "Closed"
        THEN cc.failure_count < FailureThreshold /\ cc.elapsed = NotOpened
        ELSE cc.failure_count >= FailureThreshold /\ cc.elapsed # NotOpened

\* "success closes the circuit, failure re-opens it": whichever response reaches
\* a half-open circuit, the probe's or one of a request admitted long before,
\* the circuit ends up closed and clean or open with a whole cooldown ahead.
ProbeDecides ==
  [][\A c \in Channels :
       circuits[c].state = "HalfOpen" /\ circuits'[c] # circuits[c]
       => \/ circuits'[c] = NewCircuit
          \/ circuits'[c].state = "Open" /\ circuits'[c].elapsed = 0]_vars

\* An open circuit does not reject its channel's requests forever: once time
\* passes and traffic goes on, it lets a request through again, although late
\* failures of requests admitted earlier restart its cooldown.
OpenNotForever ==
  \A c \in Channels : circuits[c].state = "Open" ~> circuits[c].state # "Open"

=============================================================================
