----------------------- MODULE ChannelHealthDbProofs -----------------------
(***************************************************************************)
(* Proofs about ChannelHealthDb, for any channels and any number of calls  *)
(* of record_channel_failure whose statements interleave.                  *)
(***************************************************************************)
EXTENDS ChannelHealthDb, TLAPS

USE DbAssumption

HealthRows == [exists : BOOLEAN, health_status : {"Healthy", "Degraded", "Cooldown"},
               cooldown_until : BOOLEAN, failures : 0..FailureCap]

Calls == [pc : {"idle", "counted", "read"}, channel : Channels \cup {NoChannel},
          failures : 0..FailureCap]

\* Columns, calls and histories have their types; a call under way has a channel.
Shapes ==
  /\ row \in [Channels -> HealthRows]
  /\ writer \in [Writers -> Calls]
  /\ peak \in [Channels -> 0..FailureCap]
  /\ alone \in [Channels -> BOOLEAN]
  /\ \A w \in Writers : writer[w].channel = NoChannel <=> writer[w].pc = "idle"

\* No count, stored or read back, is above the highest the channel ever had.
BelowPeak ==
  /\ \A c \in Channels : row[c].failures <= peak[c]
  /\ \A w \in Writers : writer[w].pc = "read" => writer[w].failures <= peak[writer[w].channel]

\* The last writer of a row had it to itself: it is the only one under way, what it
\* read back is still the count, and once it is done the status is of that count.
Undisturbed(c) ==
  /\ \A v, w \in Writers : writer[v].channel = c /\ writer[w].channel = c => v = w
  /\ \A w \in Writers :
       writer[w].channel = c /\ writer[w].pc = "read" => writer[w].failures = row[c].failures
  /\ Settled(c) => row[c].health_status = StatusOf(row[c].failures)

AloneUndisturbed == \A c \in Channels : alone[c] /\ row[c].exists => Undisturbed(c)

\* The inductive invariant.
HealthInv == Shapes /\ BelowPeak /\ CooldownEarned /\ AloneUndisturbed

\* A status that is a cooldown is of at least three failures.
LEMMA StatusType ==
  ASSUME NEW n \in 0..FailureCap
  PROVE  /\ StatusOf(n) \in {"Healthy", "Degraded", "Cooldown"}
         /\ StatusOf(n) = "Cooldown" <=> n >= 3
         /\ n = 0 => StatusOf(n) = "Healthy"
  BY DEF StatusOf

LEMMA FreshShapes ==
  /\ NewRow \in HealthRows
  /\ NewRow.exists /\ NewRow.health_status = "Healthy" /\ ~NewRow.cooldown_until
  /\ NewRow.failures = 0
  /\ IdleWriter \in Calls
  <1>1. 0 \in 0..FailureCap
    OBVIOUS
  <1>2. NewRow \in HealthRows
    BY <1>1, Zenon DEF NewRow, HealthRows
  <1>3. IdleWriter \in Calls
    BY <1>1, Zenon DEF IdleWriter, Calls
  <1> QED
    BY <1>2, <1>3 DEF NewRow

\* A deleted row, which keeps no failure.
LEMMA GoneShape ==
  ASSUME NEW gone, gone = [NewRow EXCEPT !.exists = FALSE]
  PROVE  /\ gone \in HealthRows
         /\ ~gone.exists /\ gone.health_status = "Healthy" /\ ~gone.cooldown_until
         /\ gone.failures = 0
  <1>1. gone = [exists |-> FALSE, health_status |-> "Healthy", cooldown_until |-> FALSE,
                failures |-> 0]
    BY DEF NewRow
  <1>2. 0 \in 0..FailureCap
    OBVIOUS
  <1>3. [exists |-> FALSE, health_status |-> "Healthy", cooldown_until |-> FALSE,
         failures |-> 0] \in HealthRows
    BY <1>2, Zenon DEF HealthRows
  <1>4. gone \in HealthRows
    BY <1>1, <1>3, Zenon
  <1>5. gone.exists = FALSE /\ gone.cooldown_until = FALSE
    BY <1>1
  <1>6. gone.health_status = "Healthy" /\ gone.failures = 0
    BY <1>1
  <1> QED
    BY <1>4, <1>5, <1>6

LEMMA InitHealth == Init => HealthInv
  <1> SUFFICES ASSUME Init PROVE HealthInv
    OBVIOUS
  <1>1. Shapes
    BY FreshShapes DEF Init, Shapes, IdleWriter
  <1>2. BelowPeak /\ CooldownEarned
    BY FreshShapes DEF Init, BelowPeak, CooldownEarned, IdleWriter
  <1>3. AloneUndisturbed
    BY DEF Init, AloneUndisturbed, Undisturbed, NewRow, IdleWriter, StatusOf
  <1> QED
    BY <1>1, <1>2, <1>3 DEF HealthInv

\* The increment: a second call under way takes the row from the first.
LEMMA CountHealth ==
  ASSUME HealthInv, NEW w \in Writers, NEW c \in Channels, CountFailure(w, c)
  PROVE  HealthInv'
  <1> USE DEF HealthInv
  <1>1. Shapes'
    <2> DEFINE n == IF row[c].failures < FailureCap THEN row[c].failures + 1 ELSE FailureCap
    <2>1. n \in 0..FailureCap
      BY DEF Shapes, HealthRows
    <2> HIDE DEF n
    <2>2. row' \in [Channels -> HealthRows] /\ peak' \in [Channels -> 0..FailureCap]
      BY <2>1 DEF Shapes, CountFailure, HealthRows, n
    <2>3. alone' \in [Channels -> BOOLEAN]
      BY DEF Shapes, CountFailure, Enters, Settled
    <2>4. /\ writer' \in [Writers -> Calls]
          /\ \A v \in Writers : writer'[v].channel = NoChannel <=> writer'[v].pc = "idle"
      <3> DEFINE begun == [IdleWriter EXCEPT !.pc = "counted", !.channel = c]
      <3>1. begun \in Calls /\ begun.channel = c /\ begun.pc = "counted"
        BY FreshShapes DEF Calls
      <3>2. writer' = [writer EXCEPT ![w] = begun]
        BY DEF CountFailure
      <3> HIDE DEF begun
      <3> QED
        BY <3>1, <3>2 DEF Shapes
    <2> QED
      BY <2>2, <2>3, <2>4 DEF Shapes
  <1>2. BelowPeak'
    <2>1. /\ \A d \in Channels : row'[d].failures <= peak'[d]
          /\ \A d \in Channels : peak[d] <= peak'[d]
      BY DEF Shapes, BelowPeak, CountFailure, HealthRows
    <2>2. \A v \in Writers : writer'[v].pc = "read" => writer'[v] = writer[v]
      BY DEF Shapes, CountFailure, IdleWriter
    <2>3. \A v \in Writers : writer[v].pc = "read" =>
            writer[v].channel \in Channels /\ writer[v].failures \in Nat
      BY DEF Shapes, Calls
    <2>4. \A d \in Channels : peak[d] \in Nat /\ peak'[d] \in Nat
      BY <1>1 DEF Shapes
    <2> QED
      BY <2>1, <2>2, <2>3, <2>4 DEF BelowPeak
  <1>3. CooldownEarned'
    BY DEF Shapes, BelowPeak, CooldownEarned, CountFailure, HealthRows, Calls, IdleWriter
  <1>4. AloneUndisturbed'
    <2> SUFFICES ASSUME NEW d \in Channels, alone'[d], row'[d].exists
                 PROVE  Undisturbed(d)'
      BY DEF AloneUndisturbed
    <2>1. CASE d = c
      <3>1. Settled(c) /\ writer'[w].channel = c /\ writer'[w].pc = "counted"
        BY <2>1 DEF CountFailure, Enters, Shapes, IdleWriter, Calls
      <3>2. \A v \in Writers : writer'[v].channel = c => v = w
        BY <3>1 DEF CountFailure, Settled, Shapes
      <3> QED
        BY <2>1, <3>1, <3>2 DEF Undisturbed, Settled
    <2>2. CASE d # c
      <3>1. row'[d] = row[d] /\ alone'[d] = alone[d]
        BY <2>2 DEF CountFailure, Enters, Shapes
      <3>2. \A v \in Writers : \/ writer'[v] = writer[v]
                               \/ writer'[v].channel # d /\ writer[v].channel # d
        BY <2>2 DEF CountFailure, Shapes, IdleWriter, Calls
      <3>3. Undisturbed(d)
        BY <3>1 DEF AloneUndisturbed
      <3> QED
        BY <3>1, <3>2, <3>3 DEF Undisturbed, Settled
    <2> QED
      BY <2>1, <2>2
  <1> QED
    BY <1>1, <1>2, <1>3, <1>4

\* The steps of a call that leave the row alone: reading back, and failing.
LEMMA ReadHealth ==
  ASSUME HealthInv, NEW w \in Writers, ReadBack(w) \/ StatementFails(w)
  PROVE  HealthInv'
  <1> USE DEF HealthInv
  <1> DEFINE c == writer[w].channel
  <1>0. c \in Channels
    BY DEF Shapes, ReadBack, StatementFails, Calls
  <1>1. Shapes'
    <2>1. row' = row /\ peak' = peak /\ alone' \in [Channels -> BOOLEAN]
      BY <1>0 DEF Shapes, ReadBack, StatementFails
    <2>2. row[c].failures \in 0..FailureCap
      BY <1>0 DEF Shapes, HealthRows
    <2>3. /\ writer' \in [Writers -> Calls]
          /\ \A v \in Writers : writer'[v].channel = NoChannel <=> writer'[v].pc = "idle"
      <3>1. CASE writer' = [writer EXCEPT ![w] = IdleWriter]
        BY <3>1, FreshShapes DEF Shapes, IdleWriter
      <3>2. CASE writer' = [writer EXCEPT ![w].pc = "read", ![w].failures = row[c].failures]
        <4>1. writer'[w] = [writer[w] EXCEPT !.pc = "read", !.failures = row[c].failures]
          BY <3>2 DEF Shapes
        <4>2. writer'[w] \in Calls /\ writer'[w].channel = c /\ writer'[w].pc = "read"
          BY <2>2, <4>1 DEF Shapes, Calls
        <4>3. writer' = [writer EXCEPT ![w] = writer'[w]]
          BY <3>2, <4>1 DEF Shapes
        <4> QED
          BY <1>0, <4>2, <4>3 DEF Shapes
      <3> QED
        BY <3>1, <3>2 DEF ReadBack, StatementFails, Finish
    <2> QED
      BY <2>1, <2>3 DEF Shapes
  <1>2. BelowPeak'
    BY <1>0 DEF Shapes, BelowPeak, ReadBack, StatementFails, Finish, HealthRows, Calls, IdleWriter
  <1>3. CooldownEarned'
    BY DEF CooldownEarned, ReadBack, StatementFails
  <1>4. AloneUndisturbed'
    <2> SUFFICES ASSUME NEW d \in Channels, alone'[d], row'[d].exists
                 PROVE  Undisturbed(d)'
      BY DEF AloneUndisturbed
    <2>1. row' = row /\ alone[d] /\ Undisturbed(d)
      BY <1>0 DEF AloneUndisturbed, ReadBack, StatementFails, Shapes
    <2>2. CASE d = c
      <3>1. ReadBack(w)
        BY <1>0, <2>2 DEF StatementFails, Shapes
      <3>2. writer' = [writer EXCEPT ![w].pc = "read", ![w].failures = row[c].failures]
        BY <2>1, <2>2, <3>1 DEF ReadBack
      <3>3. /\ writer'[w].channel = c /\ writer'[w].failures = row[c].failures
            /\ \A v \in Writers \ {w} : writer'[v] = writer[v]
        BY <3>2 DEF Shapes, Calls
      <3> QED
        BY <2>1, <2>2, <3>3 DEF Undisturbed, Settled
    <2>3. CASE d # c
      <3>1. \A v \in Writers : \/ writer'[v] = writer[v]
                               \/ writer'[v].channel # d /\ writer[v].channel # d
        BY <2>3 DEF ReadBack, StatementFails, Finish, Shapes, IdleWriter, Calls
      <3> QED
        BY <2>1, <3>1 DEF Undisturbed, Settled
    <2> QED
      BY <2>2, <2>3
  <1> QED
    BY <1>1, <1>2, <1>3, <1>4

\* Writing the status, which leaves the row to nobody.
LEMMA WriteHealth ==
  ASSUME HealthInv, NEW w \in Writers, WriteStatus(w)
  PROVE  HealthInv'
  <1> USE DEF HealthInv
  <1> DEFINE c == writer[w].channel
             status == StatusOf(writer[w].failures)
  <1>0. /\ c \in Channels /\ writer[w].failures \in 0..FailureCap
        /\ writer[w].failures <= peak[c] /\ writer[w].pc = "read"
    BY DEF Shapes, BelowPeak, WriteStatus, Calls
  <1>s. /\ status \in {"Healthy", "Degraded", "Cooldown"}
        /\ status = "Cooldown" <=> writer[w].failures >= 3
    BY <1>0, StatusType
  <1> HIDE DEF status
  <1>w. row' = IF row[c].exists
               THEN [row EXCEPT ![c].health_status = status,
                                ![c].cooldown_until = (status = "Cooldown")]
               ELSE row
    BY DEF WriteStatus, status
  <1>1. Shapes'
    <2>1. row' \in [Channels -> HealthRows]
      BY <1>0, <1>s, <1>w DEF Shapes, HealthRows
    <2>2. writer' = [writer EXCEPT ![w] = IdleWriter] /\ UNCHANGED <<peak, alone>>
      BY DEF WriteStatus, Finish
    <2>3. writer' \in [Writers -> Calls]
      BY <2>2, FreshShapes DEF Shapes
    <2>4. \A v \in Writers : writer'[v].channel = NoChannel <=> writer'[v].pc = "idle"
      BY <2>2 DEF Shapes, IdleWriter
    <2> QED
      BY <2>1, <2>2, <2>3, <2>4 DEF Shapes
  <1>2. BelowPeak'
    BY <1>0, <1>w DEF Shapes, BelowPeak, WriteStatus, Finish, HealthRows, IdleWriter
  <1>3. CooldownEarned'
    BY <1>0, <1>s, <1>w DEF Shapes, CooldownEarned, WriteStatus, HealthRows
  <1>4. AloneUndisturbed'
    <2> SUFFICES ASSUME NEW d \in Channels, alone'[d], row'[d].exists
                 PROVE  Undisturbed(d)'
      BY DEF AloneUndisturbed
    <2>1. alone[d] /\ row[d].exists /\ Undisturbed(d)
      BY <1>0, <1>w DEF AloneUndisturbed, WriteStatus, Shapes, HealthRows
    <2>2. \A v \in Writers : \/ writer'[v] = writer[v] /\ v # w
                             \/ v = w /\ writer'[v].channel = NoChannel
      BY DEF WriteStatus, Finish, Shapes, IdleWriter
    <2>3. CASE d = c
      <3>1. /\ row'[c].health_status = status /\ row'[c].failures = row[c].failures
            /\ writer[w].failures = row[c].failures
        BY <1>0, <1>w, <2>1, <2>3 DEF Undisturbed, Shapes, HealthRows
      <3>2. row'[c].health_status = StatusOf(row'[c].failures)
        BY <3>1 DEF status
      <3>3. Settled(d)'
        <4>1. \A v \in Writers : writer[v].channel = c => v = w
          BY <2>1, <2>3 DEF Undisturbed
        <4>2. \A v \in Writers : writer'[v].channel # d
          BY <1>0, <2>2, <2>3, <4>1
        <4> QED
          BY <4>2 DEF Settled
      <3> QED
        BY <2>3, <3>2, <3>3 DEF Undisturbed, Settled
    <2>4. CASE d # c
      <3>1. row'[d] = row[d]
        BY <1>w, <2>4 DEF Shapes
      <3> QED
        BY <1>0, <2>1, <2>2, <2>4, <3>1 DEF Undisturbed, Settled
    <2> QED
      BY <2>3, <2>4
  <1> QED
    BY <1>1, <1>2, <1>3, <1>4

\* mark_channel_healthy and delete_channel: one statement for the whole row.
LEMMA OneStatementHealth ==
  ASSUME HealthInv, NEW w \in Writers, NEW c \in Channels,
         MarkChannelHealthy(w, c) \/ DeleteChannel(w, c)
  PROVE  HealthInv'
  <1> USE DEF HealthInv
  <1>0. PICK fresh \in HealthRows :
          /\ row' = [row EXCEPT ![c] = fresh]
          /\ fresh.health_status = "Healthy" /\ ~fresh.cooldown_until /\ fresh.failures = 0
    BY FreshShapes, GoneShape DEF MarkChannelHealthy, DeleteChannel
  <1>1. Shapes'
    BY <1>0 DEF Shapes, MarkChannelHealthy, DeleteChannel, Enters, Settled
  <1>2. BelowPeak'
    BY <1>0 DEF Shapes, BelowPeak, MarkChannelHealthy, DeleteChannel
  <1>3. CooldownEarned'
    BY <1>0 DEF Shapes, CooldownEarned, MarkChannelHealthy, DeleteChannel
  <1>4. AloneUndisturbed'
    <2> SUFFICES ASSUME NEW d \in Channels, alone'[d], row'[d].exists
                 PROVE  Undisturbed(d)'
      BY DEF AloneUndisturbed
    <2>0. writer' = writer
      BY DEF MarkChannelHealthy, DeleteChannel
    <2>1. CASE d = c
      <3>1. MarkChannelHealthy(w, c)
        BY <2>1 DEF DeleteChannel, Shapes, NewRow
      <3>2. Settled(c) /\ row'[c] = NewRow
        BY <2>1, <3>1 DEF MarkChannelHealthy, Enters, Shapes
      <3> QED
        BY <2>0, <2>1, <3>2 DEF Undisturbed, Settled, NewRow, StatusOf
    <2>2. CASE d # c
      <3>1. row'[d] = row[d] /\ alone'[d] = alone[d]
        BY <2>2 DEF MarkChannelHealthy, DeleteChannel, Enters, Shapes
      <3> QED
        BY <2>0, <3>1 DEF AloneUndisturbed, Undisturbed, Settled
    <2> QED
      BY <2>1, <2>2
  <1> QED
    BY <1>1, <1>2, <1>3, <1>4

LEMMA HealthInvariance == Spec => []HealthInv
  <1>1. HealthInv /\ [Next]_vars => HealthInv'
    <2> SUFFICES ASSUME HealthInv, [Next]_vars PROVE HealthInv'
      OBVIOUS
    <2>1. CASE UNCHANGED vars
      BY <2>1 DEF vars, HealthInv, Shapes, BelowPeak, CooldownEarned, AloneUndisturbed,
                  Undisturbed, Settled
    <2>2. CASE Next
      BY <2>2, CountHealth, ReadHealth, WriteHealth, OneStatementHealth DEF Next
    <2> QED
      BY <2>1, <2>2
  <1> QED
    BY <1>1, InitHealth, PTL DEF Spec

\* However the three statements of record_channel_failure interleave or fail, a
\* stored cooldown has an end, and three failures in a row behind it.
THEOREM CooldownsEarned == Spec => []CooldownEarned
  BY HealthInvariance, PTL DEF HealthInv

\* A call that had the row to itself leaves the status of its count, whatever
\* overlapping or failed calls left there before.
THEOREM StatusesFollow == Spec => []StatusFollowsCount
  <1>1. HealthInv => StatusFollowsCount
    BY DEF HealthInv, AloneUndisturbed, Undisturbed, StatusFollowsCount
  <1> QED
    BY <1>1, HealthInvariance, PTL

=============================================================================
