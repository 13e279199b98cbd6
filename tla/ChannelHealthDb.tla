--------------------------- MODULE ChannelHealthDb ---------------------------
(***************************************************************************)
(* The health columns of the channels table                                *)
(* (crates/storage-sqlite/src/lib.rs) and the handlers that write them:    *)
(* POST /admin/channels/{id}/failure and .../healthy, the clearing of a    *)
(* key and the probes (apps/server/src/admin.rs).                          *)
(*                                                                         *)
(* record_channel_failure is three statements without a transaction on a   *)
(* connection of the pool; the statements of other connections come        *)
(* between them.                                                           *)
(***************************************************************************)
EXTENDS Naturals

CONSTANTS Channels,
          NoChannel,
          Writers,         \* calls in flight at once
          FailureCap       \* consecutive_failures is not counted further

ASSUME DbAssumption == /\ FailureCap \in Nat /\ FailureCap >= 3
                       /\ NoChannel \notin Channels

VARIABLES row,     \* channel -> the health columns, and whether the row exists
          writer,  \* the record_channel_failure calls in flight
          peak,    \* history: the most consecutive failures ever counted
          alone    \* history: channel -> whether the last call to write its row
                   \* had the row to itself and came to its end

vars == <<row, writer, peak, alone>>

\* The health columns; of cooldown_until, whether it is set.
NewRow == [exists |-> TRUE, health_status |-> "Healthy", cooldown_until |-> FALSE,
           failures |-> 0]

IdleWriter == [pc |-> "idle", channel |-> NoChannel, failures |-> 0]

-----------------------------------------------------------------------------

\* Mutant: cooldown one failure early.
StatusOfEarly(failures) ==
  IF failures >= 2 THEN "Cooldown" ELSE IF failures >= 1 THEN "Degraded" ELSE "Healthy"

\* The status record_channel_failure derives from the count it read back.
StatusOf(failures) ==
  IF failures >= 3 THEN "Cooldown" ELSE IF failures >= 1 THEN "Degraded" ELSE "Healthy"

Init ==
  /\ row = [c \in Channels |-> NewRow]
  /\ writer = [w \in Writers |-> IdleWriter]
  /\ peak = [c \in Channels |-> 0]
  /\ alone = [c \in Channels |-> TRUE]

\* No call is in flight on the channel.
Settled(c) == \A w \in Writers : writer[w].channel # c

\* A call begins to write the channel's row.
Enters(c) == alone' = [alone EXCEPT ![c] = Settled(c)]

Finish(w) == writer' = [writer EXCEPT ![w] = IdleWriter]

\* record_channel_failure, first statement: the increment, which no row may match.
CountFailure(w, c) ==
  LET n == IF row[c].failures < FailureCap THEN row[c].failures + 1 ELSE FailureCap
  IN  /\ writer[w].pc = "idle"
      /\ IF row[c].exists
         THEN /\ row' = [row EXCEPT ![c].failures = n]
              /\ peak' = [peak EXCEPT ![c] = IF n > @ THEN n ELSE @]
         ELSE UNCHANGED <<row, peak>>
      /\ writer' = [writer EXCEPT ![w] = [IdleWriter EXCEPT !.pc = "counted", !.channel = c]]
      /\ Enters(c)

\* Second statement: read the count back; without a row it is an error.
ReadBack(w) ==
  LET c == writer[w].channel
  IN  /\ writer[w].pc = "counted"
      /\ IF row[c].exists
         THEN writer' = [writer EXCEPT ![w].pc = "read", ![w].failures = row[c].failures]
         ELSE Finish(w)
      /\ UNCHANGED <<row, peak, alone>>

\* Third statement: write the status of the count that was read.
WriteStatus(w) ==
  LET c == writer[w].channel
      status == StatusOf(writer[w].failures)
  IN  /\ writer[w].pc = "read"
      /\ row' = IF row[c].exists
                THEN [row EXCEPT ![c].health_status = status,
                                 ![c].cooldown_until = (status = "Cooldown")]
                ELSE row
      /\ Finish(w)
      /\ UNCHANGED <<peak, alone>>

\* The second or the third statement fails; what was written stays written.
StatementFails(w) ==
  /\ writer[w].pc \in {"counted", "read"}
  /\ Finish(w)
  /\ alone' = [alone EXCEPT ![writer[w].channel] = FALSE]
  /\ UNCHANGED <<row, peak>>

\* Mutant: the failures go on counting from where they were.
MarkChannelHealthyKeepsCount(w, c) ==
  /\ writer[w].pc = "idle" /\ row[c].exists
  /\ row' = [row EXCEPT ![c].health_status = "Healthy", ![c].cooldown_until = FALSE]
  /\ Enters(c)
  /\ UNCHANGED <<writer, peak>>

\* mark_channel_healthy: one statement, by the admin or after a good probe.
MarkChannelHealthy(w, c) ==
  /\ writer[w].pc = "idle" /\ row[c].exists
  /\ row' = [row EXCEPT ![c] = NewRow]
  /\ Enters(c)
  /\ UNCHANGED <<writer, peak>>

DeleteChannel(w, c) ==
  /\ writer[w].pc = "idle" /\ row[c].exists
  /\ row' = [row EXCEPT ![c] = [NewRow EXCEPT !.exists = FALSE]]
  /\ UNCHANGED <<writer, peak, alone>>

Next ==
  \E w \in Writers :
    \/ \E c \in Channels :
         CountFailure(w, c) \/ MarkChannelHealthy(w, c) \/ DeleteChannel(w, c)
    \/ ReadBack(w) \/ WriteStatus(w) \/ StatementFails(w)

Spec == Init /\ [][Next]_vars

-----------------------------------------------------------------------------
(* Properties *)

\* However the statements interleave or fail, a stored row is in cooldown exactly
\* when it has an end of the cooldown, and only a channel that once failed three
\* times in a row ever is.
CooldownEarned ==
  \A c \in Channels :
    /\ row[c].health_status = "Cooldown" <=> row[c].cooldown_until
    /\ row[c].health_status = "Cooldown" => peak[c] >= 3

\* "Atomically increment consecutive_failures and update health_status" holds of
\* the calls that do not overlap: after the last call that had the row to itself
\* and did not fail half-way, the status is that of the count, whatever
\* overlapping or failed calls left behind before it.
StatusFollowsCount ==
  \A c \in Channels :
    Settled(c) /\ row[c].exists /\ alone[c]
    => row[c].health_status = StatusOf(row[c].failures)

=============================================================================
