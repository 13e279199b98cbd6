------------------------ MODULE TokenlessReportProofs ------------------------
(***************************************************************************)
(* Lines are never skipped, save those read half-written; none is given    *)
(* twice, nor counted twice in the records, while the requests of its      *)
(* session do not overlap: for any number of sessions, requests, op types, *)
(* lines and restarts.                                                     *)
(***************************************************************************)
EXTENDS TokenlessReport, FiniteSetTheorems, TLAPS

Contents == [ops : Seq(OpTypes), torn : BOOLEAN]

\* What the proof needs of the types, and the room a half line leaves.
Shapes ==
  /\ file \in [Sessions -> Contents]
  /\ \A s \in Sessions : /\ Len(file[s].ops) <= MaxLines
                         /\ file[s].torn => Len(file[s].ops) < MaxLines
  /\ halved \in [Sessions -> SUBSET Nat]
  /\ cursor \in [Sessions -> Nat]
  /\ handed \in [Sessions -> [Lines -> Nat]]
  /\ req \in [Requests -> [pc : {"idle", "read", "sent"},
                           session : Sessions \cup {NoSession},
                           seen : Contents, share : SUBSET Lines]]

\* The half line a file ends in is on record.
Halves ==
  \A s \in Sessions : file[s].torn => Len(file[s].ops) + 1 \in halved[s]

\* What a request has read is at most what is there, and the half line it ends in
\* is on record.
Seen ==
  \A r \in Requests :
    req[r].pc = "read" =>
      /\ req[r].session \in Sessions
      /\ Length(req[r].seen) <= Length(file[req[r].session])
      /\ req[r].seen.torn => Len(req[r].seen.ops) + 1 \in halved[req[r].session]

\* Every line before the cursor, written or not yet, has been given or was halved.
Passed ==
  \A s \in Sessions :
    /\ cursor[s] <= Length(file[s])
    /\ \A i \in Lines : LineStart(i) < cursor[s] => handed[s][i] > 0 \/ i \in halved[s]

Inv == Shapes /\ Halves /\ Seen /\ Passed

\* The length of a file, and its number of lines.
LEMMA LengthOf ==
  ASSUME NEW f \in Contents
  PROVE  /\ f.ops \in Seq(OpTypes) /\ Len(f.ops) \in Nat /\ f.torn \in BOOLEAN
         /\ Length(f) \in Nat
         /\ f.torn => Length(f) = 2 * Len(f.ops) + 1
         /\ ~f.torn => Length(f) = 2 * Len(f.ops)
  <1>1. f.ops \in Seq(OpTypes) /\ f.torn \in BOOLEAN
    BY DEF Contents
  <1>2. Len(f.ops) \in Nat
    BY <1>1
  <1>3. f.torn => Length(f) = 2 * Len(f.ops) + 1
    BY <1>2 DEF Length
  <1>4. ~f.torn => Length(f) = 2 * Len(f.ops)
    BY <1>2 DEF Length
  <1>5. Length(f) \in Nat
    BY <1>2, <1>3, <1>4
  <1> QED
    BY <1>1, <1>2, <1>3, <1>4, <1>5

\* A file of m lines, or half a line more, has no more lines than one of n.
LEMMA NoMoreLines ==
  ASSUME NEW m \in Nat, NEW n \in Nat, NEW k \in Nat, 2 * m <= k, k <= 2 * n + 1
  PROVE  m <= n
  OBVIOUS

\* A line that begins before the end of n lines is one of them.
LEMMA LineWithin ==
  ASSUME NEW i \in Nat, NEW n \in Nat, i >= 1
  PROVE  /\ 2 * (i - 1) < 2 * n => i \in 1..n
         /\ 2 * (i - 1) < 2 * n + 1 => i \in 1..n \/ i = n + 1
  OBVIOUS

\* The invariant holds when the proxy starts.
LEMMA InitInv == Init => Inv
  <1> SUFFICES ASSUME Init PROVE Inv
    OBVIOUS
  <1>1. EmptyFile \in Contents /\ Len(EmptyFile.ops) = 0 /\ ~EmptyFile.torn
    BY DEF EmptyFile, Contents
  <1>2. Length(EmptyFile) = 0
    BY <1>1 DEF Length
  <1>3. Shapes
    BY <1>1, ReportAssumption DEF Init, Shapes, IdleRequest
  <1>4. Halves
    BY <1>1 DEF Init, Halves
  <1>5. Seen
    BY DEF Init, Seen, IdleRequest
  <1>6. Passed
    BY <1>2 DEF Init, Passed, LineStart, Lines
  <1> QED
    BY <1>3, <1>4, <1>5, <1>6 DEF Inv

\* Whatever a hook does, it only makes its file longer and puts the half line, if
\* it leaves one, on record; that disturbs no request and no cursor.
LEMMA GrowInv ==
  ASSUME Inv, UNCHANGED <<cursor, req, handed>>,
         file' \in [Sessions -> Contents],
         halved' \in [Sessions -> SUBSET Nat],
         \A t \in Sessions : /\ Len(file'[t].ops) <= MaxLines
                             /\ file'[t].torn => Len(file'[t].ops) < MaxLines
                             /\ file'[t].torn => Len(file'[t].ops) + 1 \in halved'[t]
                             /\ Length(file[t]) <= Length(file'[t])
                             /\ halved[t] \subseteq halved'[t]
  PROVE  Inv'
  <1>1. Shapes'
    BY DEF Inv, Shapes
  <1>2. Halves'
    BY DEF Halves
  <1>3. \A t \in Sessions : Length(file[t]) \in Nat /\ Length(file'[t]) \in Nat
    BY LengthOf DEF Inv, Shapes
  <1>4. Seen'
    <2> SUFFICES ASSUME NEW r \in Requests, req[r].pc = "read"
                 PROVE  /\ req[r].session \in Sessions
                        /\ Length(req[r].seen) <= Length(file'[req[r].session])
                        /\ req[r].seen.torn =>
                             Len(req[r].seen.ops) + 1 \in halved'[req[r].session]
      BY DEF Seen, Length
    <2>1. /\ req[r].session \in Sessions
          /\ Length(req[r].seen) <= Length(file[req[r].session])
          /\ req[r].seen.torn => Len(req[r].seen.ops) + 1 \in halved[req[r].session]
      BY DEF Inv, Seen
    <2>2. Length(req[r].seen) \in Nat
      BY LengthOf DEF Inv, Shapes
    <2>3. Length(file[req[r].session]) <= Length(file'[req[r].session])
      BY <2>1
    <2>4. Length(req[r].seen) <= Length(file'[req[r].session])
      BY <1>3, <2>1, <2>2, <2>3
    <2>5. halved[req[r].session] \subseteq halved'[req[r].session]
      BY <2>1
    <2> QED
      BY <2>1, <2>4, <2>5
  <1>5. Passed'
    <2> SUFFICES ASSUME NEW t \in Sessions
                 PROVE  /\ cursor[t] <= Length(file'[t])
                        /\ \A i \in Lines : LineStart(i) < cursor[t] =>
                                              handed[t][i] > 0 \/ i \in halved'[t]
      BY DEF Passed, Length
    <2>1. cursor[t] <= Length(file[t]) /\ cursor[t] \in Nat
      BY DEF Inv, Passed, Shapes
    <2>2. cursor[t] <= Length(file'[t])
      BY <1>3, <2>1
    <2> QED
      BY <2>2 DEF Inv, Passed
  <1> QED
    BY <1>1, <1>2, <1>4, <1>5 DEF Inv

\* A line appended whole, or the second half of one.
LEMMA AppendInv ==
  ASSUME Inv, NEW s \in Sessions, NEW op \in OpTypes,
         AppendLine(s, op) \/ FinishLine(s, op)
  PROVE  Inv'
  <1> DEFINE grown == [ops |-> Append(file[s].ops, op), torn |-> FALSE]
  <1>1. /\ file[s] \in Contents
        /\ file[s].ops \in Seq(OpTypes) /\ Len(file[s].ops) \in Nat
        /\ file' = [file EXCEPT ![s] = grown]
        /\ UNCHANGED <<cursor, req, handed, halved>>
    BY LengthOf DEF AppendLine, FinishLine, Inv, Shapes
  <1>2. Len(file[s].ops) < MaxLines
    BY <1>1 DEF AppendLine, FinishLine, Inv, Shapes
  <1>3. grown.ops \in Seq(OpTypes) /\ Len(grown.ops) = Len(file[s].ops) + 1
    BY <1>1
  <1>4. grown \in Contents /\ ~grown.torn
    BY <1>3 DEF Contents
  <1>5. Length(grown) = 2 * Len(grown.ops)
    BY <1>4, LengthOf
  <1>6. Length(file[s]) <= Length(grown) /\ Len(grown.ops) <= MaxLines
    BY <1>1, <1>2, <1>3, <1>5, LengthOf, ReportAssumption
  <1> HIDE DEF grown
  <1>7. file' \in [Sessions -> Contents]
    BY <1>1, <1>4 DEF Inv, Shapes
  <1>8. ASSUME NEW t \in Sessions
        PROVE  /\ Len(file'[t].ops) <= MaxLines
               /\ file'[t].torn => Len(file'[t].ops) < MaxLines
               /\ file'[t].torn => Len(file'[t].ops) + 1 \in halved'[t]
               /\ Length(file[t]) <= Length(file'[t])
               /\ halved[t] \subseteq halved'[t]
    <2>1. CASE t = s
      <3>1. file'[t] = grown /\ halved'[t] = halved[t]
        BY <1>1, <2>1 DEF Inv, Shapes
      <3> QED
        BY <3>1, <2>1, <1>4, <1>6
    <2>2. CASE t # s
      <3>1. file'[t] = file[t] /\ halved'[t] = halved[t]
        BY <1>1, <2>2 DEF Inv, Shapes
      <3>2. Length(file[t]) \in Nat
        BY LengthOf DEF Inv, Shapes
      <3>3. /\ Len(file[t].ops) <= MaxLines
            /\ file[t].torn => Len(file[t].ops) < MaxLines
            /\ file[t].torn => Len(file[t].ops) + 1 \in halved[t]
        BY DEF Inv, Shapes, Halves
      <3> QED
        BY <3>1, <3>2, <3>3
    <2> QED
      BY <2>1, <2>2
  <1>9. halved' \in [Sessions -> SUBSET Nat]
    BY <1>1 DEF Inv, Shapes
  <1> QED
    BY <1>1, <1>7, <1>8, <1>9, GrowInv

\* The first half of a line.
LEMMA BeginInv ==
  ASSUME Inv, NEW s \in Sessions, BeginLine(s)
  PROVE  Inv'
  <1> DEFINE half == [file[s] EXCEPT !.torn = TRUE]
             line == Len(file[s].ops) + 1
  <1>1. /\ file[s] \in Contents
        /\ file[s].ops \in Seq(OpTypes) /\ Len(file[s].ops) \in Nat
        /\ Len(file[s].ops) < MaxLines /\ ~file[s].torn
        /\ file' = [file EXCEPT ![s] = half]
        /\ halved' = [halved EXCEPT ![s] = halved[s] \cup {line}]
        /\ UNCHANGED <<cursor, req, handed>>
    BY LengthOf DEF BeginLine, Inv, Shapes
  <1>2. half \in Contents /\ half.torn /\ half.ops = file[s].ops
    BY <1>1 DEF Contents
  <1>3. Length(half) = 2 * Len(half.ops) + 1
    BY <1>2, LengthOf
  <1>4. Length(file[s]) <= Length(half) /\ Len(half.ops) < MaxLines
        /\ Len(half.ops) + 1 = line /\ Len(half.ops) <= MaxLines
    BY <1>1, <1>2, <1>3, LengthOf, ReportAssumption
  <1>5. line \in Nat
    BY <1>1
  <1> HIDE DEF half, line
  <1>6. /\ file' \in [Sessions -> Contents]
        /\ halved' \in [Sessions -> SUBSET Nat]
    BY <1>1, <1>2, <1>5 DEF Inv, Shapes
  <1>7. ASSUME NEW t \in Sessions
        PROVE  /\ Len(file'[t].ops) <= MaxLines
               /\ file'[t].torn => Len(file'[t].ops) < MaxLines
               /\ file'[t].torn => Len(file'[t].ops) + 1 \in halved'[t]
               /\ Length(file[t]) <= Length(file'[t])
               /\ halved[t] \subseteq halved'[t]
    <2>1. CASE t = s
      <3>1. file'[t] = half /\ halved'[t] = halved[t] \cup {line}
        BY <1>1, <2>1 DEF Inv, Shapes
      <3> QED
        BY <3>1, <2>1, <1>2, <1>4
    <2>2. CASE t # s
      <3>1. file'[t] = file[t] /\ halved'[t] = halved[t]
        BY <1>1, <2>2 DEF Inv, Shapes
      <3>2. Length(file[t]) \in Nat
        BY LengthOf DEF Inv, Shapes
      <3>3. /\ Len(file[t].ops) <= MaxLines
            /\ file[t].torn => Len(file[t].ops) < MaxLines
            /\ file[t].torn => Len(file[t].ops) + 1 \in halved[t]
        BY DEF Inv, Shapes, Halves
      <3> QED
        BY <3>1, <3>2, <3>3
    <2> QED
      BY <2>1, <2>2
  <1> QED
    BY <1>1, <1>6, <1>7, GrowInv

\* A request keeps what it reads; nothing else changes.
LEMMA ReadInv ==
  ASSUME Inv, NEW s \in Sessions, NEW r \in Requests, ReadReport(r, s)
  PROVE  Inv'
  <1>1. /\ file[s] \in Contents /\ Length(file[s]) \in Nat
        /\ UNCHANGED <<file, cursor, handed, halved>>
    BY LengthOf DEF Inv, Shapes, ReadReport
  <1>2. Shapes'
    BY <1>1 DEF ReadReport, Inv, Shapes
  <1>3. Halves' /\ Passed'
    BY <1>1 DEF Inv, Halves, Passed
  <1>4. Seen'
    <2> SUFFICES ASSUME NEW q \in Requests, req'[q].pc = "read"
                 PROVE  /\ req'[q].session \in Sessions
                        /\ Length(req'[q].seen) <= Length(file[req'[q].session])
                        /\ req'[q].seen.torn =>
                             Len(req'[q].seen.ops) + 1 \in halved[req'[q].session]
      BY <1>1 DEF Seen, Length
    <2>1. CASE q = r
      <3>1. req'[q].session = s /\ req'[q].seen = file[s]
        BY <2>1 DEF ReadReport, Inv, Shapes
      <3> QED
        BY <3>1, <1>1 DEF Inv, Halves
    <2>2. CASE q # r
      <3>1. req'[q] = req[q]
        BY <2>2 DEF ReadReport, Inv, Shapes
      <3> QED
        BY <3>1 DEF Inv, Seen
    <2> QED
      BY <2>1, <2>2
  <1> QED
    BY <1>2, <1>3, <1>4 DEF Inv

\* The heart of the matter: a reset cursor gives all that was read, a cursor
\* within it the rest, and either way the new cursor is where the reading ended,
\* at most one half line past the lines given.
LEMMA ConsumeInv ==
  ASSUME Inv, NEW r \in Requests, ConsumeReport(r)
  PROVE  Inv'
  <1> DEFINE s == req[r].session
             seen == req[r].seen
             start == StartByte(cursor[s], seen)
             new == NewLines(seen, start)
  <1>1. /\ s \in Sessions
        /\ Length(seen) <= Length(file[s])
        /\ seen.torn => Len(seen.ops) + 1 \in halved[s]
    BY DEF ConsumeReport, Inv, Seen
  <1>2. /\ seen \in Contents /\ file[s] \in Contents
        /\ cursor[s] \in Nat /\ Len(file[s].ops) <= MaxLines
    BY <1>1 DEF Inv, Shapes
  <1>3. /\ Len(seen.ops) \in Nat /\ Length(seen) \in Nat
        /\ seen.torn => Length(seen) = 2 * Len(seen.ops) + 1
        /\ ~seen.torn => Length(seen) = 2 * Len(seen.ops)
        /\ Len(file[s].ops) \in Nat /\ Length(file[s]) \in Nat
        /\ Length(file[s]) <= 2 * Len(file[s].ops) + 1
    <2>1. /\ Len(seen.ops) \in Nat /\ Length(seen) \in Nat
          /\ seen.torn => Length(seen) = 2 * Len(seen.ops) + 1
          /\ ~seen.torn => Length(seen) = 2 * Len(seen.ops)
      BY <1>2, LengthOf
    <2>2. /\ Len(file[s].ops) \in Nat /\ Length(file[s]) \in Nat
          /\ Length(file[s]) = 2 * Len(file[s].ops) + 1 \/ Length(file[s]) = 2 * Len(file[s].ops)
      BY <1>2, LengthOf
    <2> QED
      BY <2>1, <2>2
  <1>4. Len(seen.ops) <= MaxLines
    <2>1. 2 * Len(seen.ops) <= Length(seen)
      BY <1>3
    <2>2. Length(seen) <= 2 * Len(file[s].ops) + 1
      BY <1>1, <1>3
    <2>3. Len(seen.ops) <= Len(file[s].ops)
      BY <2>1, <2>2, <1>3, NoMoreLines
    <2>4. Len(file[s].ops) <= MaxLines
      BY <1>2
    <2> QED
      BY <2>3, <2>4, <1>3, ReportAssumption
  <1>5. start \in Nat /\ start <= Length(seen) /\ (start = 0 \/ start = cursor[s])
    BY <1>2, <1>3 DEF StartByte
  <1>6. new \subseteq Lines
    BY <1>3, <1>4, ReportAssumption DEF NewLines, Lines
  <1>7. /\ cursor' = [cursor EXCEPT ![s] = Advanced(s, cursor[s], seen)]
        /\ req' = [req EXCEPT ![r] = [pc |-> "sent", session |-> s, seen |-> seen,
                                      share |-> new]]
        /\ handed' = [handed EXCEPT ![s] = [i \in Lines |->
                        IF i \in new /\ handed[s][i] < 2 THEN handed[s][i] + 1
                                                         ELSE handed[s][i]]]
        /\ file' = file /\ halved' = halved
    BY DEF ConsumeReport, Inv, Shapes
  <1>8. Advanced(s, cursor[s], seen) \in {Length(seen), start}
    BY DEF Advanced
  <1>9. Advanced(s, cursor[s], seen) \in Nat /\ Advanced(s, cursor[s], seen) <= Length(seen)
    BY <1>3, <1>5, <1>8
  <1>10. handed' \in [Sessions -> [Lines -> Nat]]
    BY <1>1, <1>7 DEF Inv, Shapes
  <1>11. Shapes'
    BY <1>1, <1>2, <1>6, <1>7, <1>9, <1>10 DEF Inv, Shapes
  <1>12. Halves'
    BY <1>7 DEF Inv, Halves
  <1>13. Seen'
    <2> SUFFICES ASSUME NEW q \in Requests, req'[q].pc = "read"
                 PROVE  /\ req'[q].session \in Sessions
                        /\ Length(req'[q].seen) <= Length(file[req'[q].session])
                        /\ req'[q].seen.torn =>
                             Len(req'[q].seen.ops) + 1 \in halved[req'[q].session]
      BY <1>7 DEF Seen, Length
    <2>1. q # r /\ req'[q] = req[q]
      BY <1>7 DEF Inv, Shapes
    <2> QED
      BY <2>1 DEF Inv, Seen
  <1>14. Passed'
    <2> SUFFICES ASSUME NEW t \in Sessions
                 PROVE  /\ cursor'[t] <= Length(file[t])
                        /\ \A i \in Lines : LineStart(i) < cursor'[t] =>
                                              handed'[t][i] > 0 \/ i \in halved[t]
      BY <1>7 DEF Passed, Length
    <2>1. CASE t # s
      BY <2>1, <1>1, <1>7 DEF Inv, Passed, Shapes
    <2>2. CASE t = s
      <3>1. cursor'[s] = Advanced(s, cursor[s], seen)
        BY <1>1, <1>7 DEF Inv, Shapes
      <3>2. cursor'[s] <= Length(file[s])
        BY <3>1, <1>1, <1>3, <1>9
      <3>3. ASSUME NEW i \in Lines, LineStart(i) < cursor'[s]
            PROVE  handed'[s][i] > 0 \/ i \in halved[s]
        <4>1. i \in Nat /\ i >= 1 /\ LineStart(i) = 2 * (i - 1)
          BY ReportAssumption DEF Lines, LineStart
        <4>2. /\ handed[s][i] \in Nat
              /\ handed'[s][i] = IF i \in new /\ handed[s][i] < 2 THEN handed[s][i] + 1
                                                                  ELSE handed[s][i]
          BY <1>1, <1>7 DEF Inv, Shapes
        <4>3. CASE LineStart(i) >= start
          <5>1. LineStart(i) < Length(seen)
            BY <3>1, <3>3, <1>3, <1>9, <4>1
          <5>2. i \in 1..Len(seen.ops) \/ (seen.torn /\ i = Len(seen.ops) + 1)
            <6>1. CASE seen.torn
              BY <5>1, <4>1, <1>3, <6>1, LineWithin
            <6>2. CASE ~seen.torn
              BY <5>1, <4>1, <1>3, <6>2, LineWithin
            <6> QED
              BY <6>1, <6>2
          <5>3. CASE i \in 1..Len(seen.ops)
            <6>1. i \in new
              BY <5>3, <4>3 DEF NewLines, IsNew
            <6> QED
              BY <6>1, <4>2
          <5>4. CASE seen.torn /\ i = Len(seen.ops) + 1
            BY <5>4, <1>1
          <5> QED
            BY <5>2, <5>3, <5>4
        <4>4. CASE LineStart(i) < start
          <5>1. LineStart(i) < cursor[s]
            BY <4>4, <4>1, <1>5
          <5>2. handed[s][i] > 0 \/ i \in halved[s]
            BY <5>1, <1>1 DEF Inv, Passed
          <5> QED
            BY <5>2, <4>2
        <4> QED
          BY <4>3, <4>4, <4>1, <1>5
      <3> QED
        BY <2>2, <3>2, <3>3
    <2> QED
      BY <2>1, <2>2
  <1> QED
    BY <1>11, <1>12, <1>13, <1>14 DEF Inv

\* The end of a request.
LEMMA EndInv ==
  ASSUME Inv, NEW r \in Requests, RecordCost(r) \/ RequestFails(r)
  PROVE  Inv'
  <1>1. /\ req' = [req EXCEPT ![r] = IdleRequest]
        /\ UNCHANGED <<file, cursor, handed, halved>>
    BY DEF RecordCost, RequestFails
  <1>2. EmptyFile \in Contents
    BY DEF EmptyFile, Contents
  <1>3. Shapes'
    BY <1>1, <1>2 DEF Inv, Shapes, IdleRequest
  <1>4. Seen'
    <2> SUFFICES ASSUME NEW q \in Requests, req'[q].pc = "read"
                 PROVE  /\ req'[q].session \in Sessions
                        /\ Length(req'[q].seen) <= Length(file[req'[q].session])
                        /\ req'[q].seen.torn =>
                             Len(req'[q].seen.ops) + 1 \in halved[req'[q].session]
      BY <1>1 DEF Seen, Length
    <2>1. q # r /\ req'[q] = req[q]
      BY <1>1 DEF Inv, Shapes, IdleRequest
    <2> QED
      BY <2>1 DEF Inv, Seen
  <1>5. Halves' /\ Passed'
    BY <1>1 DEF Inv, Halves, Passed
  <1> QED
    BY <1>3, <1>4, <1>5 DEF Inv

\* A restart puts every cursor back to the start, before which there is no line.
LEMMA RestartInv == Inv /\ Restart => Inv'
  <1> SUFFICES ASSUME Inv, Restart PROVE Inv'
    OBVIOUS
  <1>1. EmptyFile \in Contents
    BY DEF EmptyFile, Contents
  <1>2. Shapes'
    BY <1>1 DEF Restart, Inv, Shapes, IdleRequest
  <1>3. Halves' /\ Seen'
    BY DEF Restart, Inv, Halves, Seen, IdleRequest
  <1>4. Passed'
    <2>1. \A s \in Sessions : Length(file[s]) \in Nat
      BY LengthOf DEF Inv, Shapes
    <2>2. \A i \in Lines : ~(LineStart(i) < 0)
      BY ReportAssumption DEF LineStart, Lines
    <2> QED
      BY <2>1, <2>2 DEF Restart, Passed
  <1> QED
    BY <1>2, <1>3, <1>4 DEF Inv

\* Every step keeps the invariant.
LEMMA NextInv == Inv /\ [Next]_vars => Inv'
  <1> SUFFICES ASSUME Inv, [Next]_vars PROVE Inv'
    OBVIOUS
  <1>1. ASSUME NEW s \in Sessions, BeginLine(s) PROVE Inv'
    BY <1>1, BeginInv
  <1>2. ASSUME NEW s \in Sessions, NEW op \in OpTypes,
               AppendLine(s, op) \/ FinishLine(s, op)
        PROVE  Inv'
    BY <1>2, AppendInv
  <1>3. ASSUME NEW s \in Sessions, NEW r \in Requests, ReadReport(r, s) PROVE Inv'
    BY <1>3, ReadInv
  <1>4. ASSUME NEW r \in Requests, ConsumeReport(r) PROVE Inv'
    BY <1>4, ConsumeInv
  <1>5. ASSUME NEW r \in Requests, RecordCost(r) \/ RequestFails(r) PROVE Inv'
    BY <1>5, EndInv
  <1>6. CASE Restart
    BY <1>6, RestartInv
  <1>7. CASE UNCHANGED vars
    BY <1>7 DEF vars, Inv, Shapes, Halves, Seen, Passed
  <1> QED
    BY <1>1, <1>2, <1>3, <1>4, <1>5, <1>6, <1>7 DEF Next

\* No line of a session's report is ever passed over by the cursor without some
\* request having been given its savings, unless it was written in two halves.
THEOREM NoLineSkipped == Spec => []NothingSkipped
  <1>1. Inv => NothingSkipped
    <2> SUFFICES ASSUME Inv, NEW s \in Sessions, NEW i \in 1..Len(file[s].ops),
                        LineStart(i) < cursor[s]
                 PROVE  handed[s][i] > 0 \/ i \in halved[s]
      BY DEF NothingSkipped
    <2>1. Len(file[s].ops) \in Nat /\ Len(file[s].ops) <= MaxLines
      BY LengthOf DEF Inv, Shapes
    <2>2. i \in Lines
      BY <2>1, ReportAssumption DEF Lines
    <2> QED
      BY <2>2 DEF Inv, Passed
  <1> QED
    BY InitInv, NextInv, <1>1, PTL DEF Spec

-----------------------------------------------------------------------------

Reading(r, s) == req[r].pc = "read" /\ req[r].session = s

\* Where a session's requests take turns, the one that has read has not been
\* overtaken, and the lines given are those before the cursor, once each.
Turns ==
  \A s \in Sessions \ overlapped :
    /\ \A q, r \in Requests : Reading(q, s) /\ Reading(r, s) => q = r
    /\ \A r \in Requests : Reading(r, s) => cursor[s] <= Length(req[r].seen)
    /\ \A i \in Lines : /\ handed[s][i] <= 1
                        /\ handed[s][i] > 0 => LineStart(i) < cursor[s]

Sent(r, s) == req[r].pc = "sent" /\ req[r].session = s

\* What a request has read is how the file begins; no line was given that the file
\* does not hold.
Prefixes ==
  /\ \A r \in Requests :
       req[r].pc # "idle" =>
         /\ req[r].session \in Sessions
         /\ Len(req[r].seen.ops) <= Len(file[req[r].session].ops)
         /\ \A i \in 1..Len(req[r].seen.ops) :
              req[r].seen.ops[i] = file[req[r].session].ops[i]
         /\ req[r].share \subseteq 1..Len(req[r].seen.ops)
  /\ \A s \in Sessions : \A i \in Lines :
       handed[s][i] > 0 => i <= Len(file[s].ops)

\* Where requests take turns, the shares under way hold given lines and no line twice.
Shares ==
  \A s \in Sessions \ overlapped :
    /\ \A r \in Requests : Sent(r, s) => \A i \in req[r].share : handed[s][i] > 0
    /\ \A q, r \in Requests :
         Sent(q, s) /\ Sent(r, s) /\ q # r => req[q].share \cap req[r].share = {}

\* The lines given to requests that have ended, and what lines count for in either
\* summand of tokens_saved.
Settled(s) ==
  {i \in Lines : handed[s][i] > 0 /\ ~\E r \in Requests : Sent(r, s) /\ i \in req[r].share}

Parts == {"hooks", "layers"}

PartOf(s, p, S) == {i \in S : p = "hooks" \/ file[s].ops[i] \in Itemised}

Worth(s, p, S) == Cardinality(PartOf(s, p, S))

\* The records of a session hold no more than its settled lines count for.
Accounted ==
  /\ saved \in [Sessions -> [hooks : Nat, layers : Nat]] /\ restarts \in Nat
  /\ restarts = 0 =>
       \A s \in Sessions \ overlapped, p \in Parts : saved[s][p] <= Worth(s, p, Settled(s))

TurnsInv == Inv /\ Turns

CountInv == TurnsInv /\ Prefixes /\ Shares /\ Accounted

-----------------------------------------------------------------------------

\* Nothing is read or given yet, when the proxy starts and when it starts again.
LEMMA FreshTurns ==
  ASSUME req = [r \in Requests |-> IdleRequest],
         handed = [s \in Sessions |-> [i \in Lines |-> 0]]
  PROVE  Turns
  BY DEF Turns, Reading, IdleRequest

\* The hooks touch neither cursors nor requests.
LEMMA HookTurns ==
  ASSUME Turns, UNCHANGED <<cursor, req, handed, overlapped>>
  PROVE  Turns'
  <1> SUFFICES ASSUME NEW s \in Sessions \ overlapped
               PROVE  /\ \A q, r \in Requests : Reading(q, s)' /\ Reading(r, s)' => q = r
                      /\ \A r \in Requests : Reading(r, s)' => cursor'[s] <= Length(req'[r].seen)
                      /\ \A i \in Lines : /\ handed'[s][i] <= 1
                                          /\ handed'[s][i] > 0 => LineStart(i) < cursor'[s]
    BY DEF Turns, Length
  <1>1. \A r \in Requests : Reading(r, s)' <=> Reading(r, s)
    BY DEF Reading
  <1> QED
    BY <1>1 DEF Turns

\* A request that reads while no other has read is the only one, and reads a
\* file in which the cursor lies.
LEMMA ReadTurns ==
  ASSUME TurnsInv, NEW s \in Sessions, NEW r \in Requests, ReadReport(r, s)
  PROVE  Turns'
  <1>1. /\ UNCHANGED <<file, cursor, handed>>
        /\ overlapped \subseteq overlapped'
        /\ s \notin overlapped' => \A q \in Requests : ~Reading(q, s)
    BY DEF ReadReport, Reading
  <1>2. /\ req'[r].session = s /\ req'[r].seen = file[s]
        /\ \A q \in Requests : q # r => req'[q] = req[q]
    BY DEF ReadReport, TurnsInv, Inv, Shapes
  <1> SUFFICES ASSUME NEW t \in Sessions \ overlapped'
               PROVE  /\ \A q, p \in Requests :
                           Reading(q, t)' /\ Reading(p, t)' => q = p
                      /\ \A q \in Requests :
                           Reading(q, t)' => cursor[t] <= Length(req'[q].seen)
                      /\ \A i \in Lines : /\ handed[t][i] <= 1
                                          /\ handed[t][i] > 0 => LineStart(i) < cursor[t]
    BY <1>1 DEF Turns, Reading, Length, LineStart
  <1>3. t \in Sessions \ overlapped
    BY <1>1
  <1>4. CASE t = s
    <2>1. \A q \in Requests : Reading(q, t)' => q = r
      BY <1>1, <1>2, <1>4 DEF Reading
    <2>2. cursor[t] <= Length(req'[r].seen)
      BY <1>2, <1>4 DEF TurnsInv, Inv, Passed
    <2> QED
      BY <2>1, <2>2, <1>3 DEF TurnsInv, Turns
  <1>5. CASE t # s
    <2>1. \A q \in Requests : Reading(q, t)' => Reading(q, t) /\ req'[q] = req[q]
      BY <1>2, <1>5 DEF Reading
    <2> QED
      BY <2>1, <1>3 DEF TurnsInv, Turns
  <1> QED
    BY <1>4, <1>5

\* The turn at the cursor, where nobody else has read: the cursor lies within what
\* was read, so the lines given lie at or after it and were not given before; it
\* moves past them.
LEMMA TurnTaken ==
  ASSUME TurnsInv, NEW r \in Requests, ConsumeReport(r),
         req[r].session \notin overlapped
  PROVE  LET s    == req[r].session
             seen == req[r].seen
             new  == NewLines(seen, StartByte(cursor[s], seen))
         IN  /\ s \in Sessions
             /\ new \subseteq Lines
             /\ new \subseteq 1..Len(seen.ops)
             /\ cursor'[s] \in Nat /\ cursor[s] \in Nat /\ cursor[s] <= cursor'[s]
             /\ \A i \in new : handed[s][i] = 0 /\ handed'[s][i] = 1
                               /\ LineStart(i) < cursor'[s]
             /\ \A i \in Lines \ new : handed'[s][i] = handed[s][i]
  <1> DEFINE s == req[r].session
             seen == req[r].seen
             new == NewLines(seen, StartByte(cursor[s], seen))
  <1>1. /\ s \in Sessions /\ Reading(r, s)
        /\ seen \in Contents /\ file[s] \in Contents
        /\ cursor[s] \in Nat /\ Len(file[s].ops) <= MaxLines
        /\ Length(seen) <= Length(file[s])
    BY DEF ConsumeReport, TurnsInv, Inv, Seen, Shapes, Reading
  <1>2. cursor[s] <= Length(seen)
    BY <1>1 DEF TurnsInv, Turns
  <1>3. /\ Len(seen.ops) \in Nat /\ Length(seen) \in Nat
        /\ Length(seen) = 2 * Len(seen.ops) + 1 \/ Length(seen) = 2 * Len(seen.ops)
    BY <1>1, LengthOf
  <1>4. /\ Len(file[s].ops) \in Nat /\ Length(file[s]) \in Nat
        /\ Length(file[s]) = 2 * Len(file[s].ops) + 1 \/ Length(file[s]) = 2 * Len(file[s].ops)
    BY <1>1, LengthOf
  <1>5. Len(seen.ops) <= Len(file[s].ops)
    <2>1. 2 * Len(seen.ops) <= Length(seen)
      BY <1>3
    <2>2. Length(seen) <= 2 * Len(file[s].ops) + 1
      BY <1>1, <1>3, <1>4
    <2> QED
      BY <2>1, <2>2, <1>3, <1>4, NoMoreLines
  <1>6. StartByte(cursor[s], seen) = cursor[s]
    BY <1>1, <1>2, <1>3 DEF StartByte
  <1>7. new = {i \in 1..Len(seen.ops) : LineStart(i) >= cursor[s]}
    BY <1>6 DEF NewLines, IsNew
  <1>8. cursor'[s] = IF new # {} THEN Length(seen) ELSE cursor[s]
    BY <1>1, <1>6 DEF ConsumeReport, TurnsInv, Inv, Shapes, Advanced
  <1>9. handed'[s] = [i \in Lines |-> IF i \in new /\ handed[s][i] < 2
                                      THEN handed[s][i] + 1 ELSE handed[s][i]]
    BY <1>1 DEF ConsumeReport, TurnsInv, Inv, Shapes
  <1> HIDE DEF new
  <1>10. new \subseteq Lines /\ new \subseteq 1..Len(seen.ops)
    <2>1. Len(seen.ops) <= MaxLines
      BY <1>1, <1>3, <1>4, <1>5, ReportAssumption
    <2>2. 1..Len(seen.ops) \subseteq Lines
      BY <2>1, <1>3, ReportAssumption DEF Lines
    <2> QED
      BY <2>2, <1>7
  <1>11. cursor'[s] \in Nat /\ cursor[s] <= cursor'[s]
    BY <1>1, <1>2, <1>3, <1>8
  <1>12. ASSUME NEW i \in new
         PROVE  handed[s][i] = 0 /\ handed'[s][i] = 1 /\ LineStart(i) < cursor'[s]
    <2>1. /\ i \in Lines /\ i \in 1..Len(seen.ops) /\ LineStart(i) >= cursor[s]
          /\ LineStart(i) = 2 * (i - 1) /\ handed[s][i] \in Nat
      BY <1>1, <1>7, <1>10 DEF LineStart, TurnsInv, Inv, Shapes
    <2>2. ~(handed[s][i] > 0)
      <3>1. handed[s][i] > 0 => LineStart(i) < cursor[s]
        BY <1>1, <2>1 DEF TurnsInv, Turns
      <3> QED
        BY <3>1, <2>1, <1>1, <1>3
    <2>3. handed[s][i] = 0
      BY <2>1, <2>2
    <2>4. handed'[s][i] = 1
      BY <1>9, <2>1, <2>3
    <2>5. LineStart(i) < cursor'[s]
      BY <1>3, <1>8, <2>1
    <2> QED
      BY <2>3, <2>4, <2>5
  <1>13. \A i \in Lines \ new : handed'[s][i] = handed[s][i]
    BY <1>9
  <1> QED
    BY <1>1, <1>10, <1>11, <1>12, <1>13 DEF new

LEMMA ConsumeTurns ==
  ASSUME TurnsInv, NEW r \in Requests, ConsumeReport(r)
  PROVE  Turns'
  <1> DEFINE s == req[r].session
             new == NewLines(req[r].seen, StartByte(cursor[s], req[r].seen))
  <1>1. /\ overlapped' = overlapped
        /\ req'[r].pc = "sent"
        /\ \A q \in Requests : q # r => req'[q] = req[q]
        /\ \A t \in Sessions : t # s => cursor'[t] = cursor[t] /\ handed'[t] = handed[t]
    BY DEF ConsumeReport, TurnsInv, Inv, Shapes
  <1>2. \A q \in Requests : \A t \in Sessions :
          Reading(q, t)' => q # r /\ Reading(q, t) /\ req'[q] = req[q]
    BY <1>1 DEF Reading
  <1> SUFFICES ASSUME NEW t \in Sessions \ overlapped
               PROVE  /\ \A q, p \in Requests :
                           Reading(q, t)' /\ Reading(p, t)' => q = p
                      /\ \A q \in Requests :
                           Reading(q, t)' => cursor'[t] <= Length(req'[q].seen)
                      /\ \A i \in Lines : /\ handed'[t][i] <= 1
                                          /\ handed'[t][i] > 0 => LineStart(i) < cursor'[t]
    BY <1>1 DEF Turns, Reading, Length, LineStart
  <1>3. /\ \A q, p \in Requests : Reading(q, t) /\ Reading(p, t) => q = p
        /\ \A q \in Requests : Reading(q, t) => cursor[t] <= Length(req[q].seen)
        /\ \A i \in Lines : /\ handed[t][i] <= 1
                            /\ handed[t][i] > 0 => LineStart(i) < cursor[t]
    BY DEF TurnsInv, Turns
  <1>4. CASE t # s
    BY <1>1, <1>2, <1>3, <1>4
  <1>5. CASE t = s
    <2>1. \A q \in Requests : ~Reading(q, t)'
      BY <1>2, <1>3, <1>5 DEF ConsumeReport, Reading
    <2>2. /\ cursor'[t] \in Nat /\ cursor[t] \in Nat /\ cursor[t] <= cursor'[t]
          /\ \A i \in new : handed'[t][i] = 1 /\ LineStart(i) < cursor'[t]
          /\ \A i \in Lines \ new : handed'[t][i] = handed[t][i]
      BY <1>5, TurnTaken
    <2> HIDE DEF new
    <2>3. ASSUME NEW i \in Lines
          PROVE  handed'[t][i] <= 1 /\ (handed'[t][i] > 0 => LineStart(i) < cursor'[t])
      <3>1. LineStart(i) \in Nat
        BY ReportAssumption DEF LineStart, Lines
      <3> QED
        BY <3>1, <2>2, <1>3
    <2> QED
      BY <2>1, <2>3
  <1> QED
    BY <1>4, <1>5

LEMMA EndTurns ==
  ASSUME TurnsInv, NEW r \in Requests, RecordCost(r) \/ RequestFails(r)
  PROVE  Turns'
  <1>1. /\ UNCHANGED <<cursor, handed, overlapped>>
        /\ req'[r].pc = "idle"
        /\ \A q \in Requests : q # r => req'[q] = req[q]
    BY DEF RecordCost, RequestFails, TurnsInv, Inv, Shapes, IdleRequest
  <1>2. \A q \in Requests : \A t \in Sessions :
          Reading(q, t)' => Reading(q, t) /\ req'[q] = req[q]
    BY <1>1 DEF Reading
  <1> SUFFICES ASSUME NEW t \in Sessions \ overlapped
               PROVE  /\ \A q, p \in Requests :
                           Reading(q, t)' /\ Reading(p, t)' => q = p
                      /\ \A q \in Requests :
                           Reading(q, t)' => cursor[t] <= Length(req'[q].seen)
                      /\ \A i \in Lines : /\ handed[t][i] <= 1
                                          /\ handed[t][i] > 0 => LineStart(i) < cursor[t]
    BY <1>1 DEF Turns, Reading, Length, LineStart
  <1> QED
    BY <1>2 DEF TurnsInv, Turns

LEMMA NextTurns == TurnsInv /\ [Next]_vars => TurnsInv'
  <1> SUFFICES ASSUME TurnsInv, [Next]_vars PROVE TurnsInv'
    OBVIOUS
  <1>1. Inv'
    BY NextInv DEF TurnsInv
  <1>2. Turns'
    <2>1. ASSUME NEW s \in Sessions, NEW op \in OpTypes,
                 AppendLine(s, op) \/ FinishLine(s, op)
          PROVE  Turns'
      BY <2>1, HookTurns DEF TurnsInv, AppendLine, FinishLine
    <2>2. ASSUME NEW s \in Sessions, BeginLine(s) PROVE Turns'
      BY <2>2, HookTurns DEF TurnsInv, BeginLine
    <2>3. ASSUME NEW s \in Sessions, NEW r \in Requests, ReadReport(r, s) PROVE Turns'
      BY <2>3, ReadTurns
    <2>4. ASSUME NEW r \in Requests, ConsumeReport(r) PROVE Turns'
      BY <2>4, ConsumeTurns
    <2>5. ASSUME NEW r \in Requests, RecordCost(r) \/ RequestFails(r) PROVE Turns'
      BY <2>5, EndTurns
    <2>6. CASE Restart
      BY <2>6 DEF Restart, Turns, Reading, IdleRequest
    <2>7. CASE UNCHANGED vars
      BY <2>7, HookTurns DEF TurnsInv, vars
    <2> QED
      BY <2>1, <2>2, <2>3, <2>4, <2>5, <2>6, <2>7 DEF Next
  <1> QED
    BY <1>1, <1>2 DEF TurnsInv

\* While the requests of a session do not overlap between the read and the cursor,
\* no line is given to two of them in one run of the proxy.
THEOREM GivenOnce == Spec => []HandedOnceAlone
  <1>1. Init => TurnsInv
    BY InitInv, FreshTurns DEF Init, TurnsInv
  <1>2. TurnsInv => HandedOnceAlone
    BY DEF TurnsInv, Turns, HandedOnceAlone
  <1> QED
    BY <1>1, <1>2, NextTurns, PTL DEF Spec

-----------------------------------------------------------------------------

\* Any lines count for a number of tokens.
LEMMA WorthOf ==
  ASSUME NEW s \in Sessions, NEW p \in Parts, NEW S \in SUBSET Lines
  PROVE  IsFiniteSet(PartOf(s, p, S)) /\ Worth(s, p, S) \in Nat
  <1>1. IsFiniteSet(Lines)
    BY FS_Interval, ReportAssumption DEF Lines
  <1>2. IsFiniteSet(PartOf(s, p, S))
    BY <1>1, FS_Subset DEF PartOf
  <1> QED
    BY <1>2, FS_CardinalityType DEF Worth

\* More lines count for more, and separate lines for their sum.
LEMMA WorthGrows ==
  ASSUME NEW s \in Sessions, NEW p \in Parts, NEW T \in SUBSET Lines, NEW S \in SUBSET T
  PROVE  Worth(s, p, S) <= Worth(s, p, T)
  <1>1. PartOf(s, p, S) \in SUBSET PartOf(s, p, T)
    BY DEF PartOf
  <1> QED
    BY <1>1, WorthOf, FS_Subset DEF Worth

LEMMA WorthAdds ==
  ASSUME NEW s \in Sessions, NEW p \in Parts, NEW S \in SUBSET Lines, NEW T \in SUBSET Lines,
         S \cap T = {}
  PROVE  Worth(s, p, S \cup T) = Worth(s, p, S) + Worth(s, p, T)
  <1>1. /\ PartOf(s, p, S \cup T) = PartOf(s, p, S) \cup PartOf(s, p, T)
        /\ PartOf(s, p, S) \cap PartOf(s, p, T) = {}
    BY DEF PartOf
  <1>2. /\ Cardinality(PartOf(s, p, S)) \in Nat /\ Cardinality(PartOf(s, p, T)) \in Nat
        /\ IsFiniteSet(PartOf(s, p, S)) /\ IsFiniteSet(PartOf(s, p, T))
    BY WorthOf DEF Worth
  <1>3. Cardinality(PartOf(s, p, S) \cup PartOf(s, p, T))
          = Cardinality(PartOf(s, p, S)) + Cardinality(PartOf(s, p, T))
              - Cardinality(PartOf(s, p, S) \cap PartOf(s, p, T))
    BY <1>2, FS_Union
  <1>4. Cardinality(PartOf(s, p, S) \cap PartOf(s, p, T)) = 0
    BY <1>1, FS_EmptySet, Zenon
  <1>5. Cardinality(PartOf(s, p, S) \cup PartOf(s, p, T))
          = Cardinality(PartOf(s, p, S)) + Cardinality(PartOf(s, p, T))
    BY <1>2, <1>3, <1>4
  <1> QED
    BY <1>1, <1>5, Zenon DEF Worth

\* Of a request, its record counts what its lines are worth.
LEMMA RecordWorth ==
  ASSUME CountInv, NEW r \in Requests, req[r].pc = "sent"
  PROVE  /\ req[r].session \in Sessions /\ req[r].share \in SUBSET Lines
         /\ TokensSaved(req[r])
              = [hooks |-> Worth(req[r].session, "hooks", req[r].share),
                 layers |-> Worth(req[r].session, "layers", req[r].share)]
  <1>1. /\ req[r].session \in Sessions
        /\ req[r].share \subseteq 1..Len(req[r].seen.ops)
        /\ \A i \in 1..Len(req[r].seen.ops) :
             req[r].seen.ops[i] = file[req[r].session].ops[i]
    BY DEF CountInv, Prefixes
  <1>2. req[r].share \in SUBSET Lines
    BY DEF CountInv, TurnsInv, Inv, Shapes
  <1>3. /\ ItemisedShare(req[r]) = PartOf(req[r].session, "layers", req[r].share)
        /\ req[r].share = PartOf(req[r].session, "hooks", req[r].share)
    BY <1>1 DEF ItemisedShare, PartOf
  <1>4. /\ Cardinality(ItemisedShare(req[r])) = Worth(req[r].session, "layers", req[r].share)
        /\ Cardinality(req[r].share) = Worth(req[r].session, "hooks", req[r].share)
    BY <1>3, Zenon DEF Worth
  <1> QED
    BY <1>1, <1>2, <1>4 DEF TokensSaved

\* Whatever a hook does, the lines that were there stay as they are.
LEMMA GrowCount ==
  ASSUME CountInv, UNCHANGED <<req, handed, overlapped, saved, restarts>>,
         file' \in [Sessions -> Contents],
         \A t \in Sessions : /\ Len(file[t].ops) <= Len(file'[t].ops)
                             /\ \A i \in 1..Len(file[t].ops) :
                                  file'[t].ops[i] = file[t].ops[i]
  PROVE  Prefixes' /\ Shares' /\ Accounted'
  <1>1. \A t \in Sessions : Len(file[t].ops) \in Nat /\ Len(file'[t].ops) \in Nat
    BY LengthOf DEF CountInv, TurnsInv, Inv, Shapes
  <1>2. Prefixes'
    <2>1. ASSUME NEW r \in Requests, req[r].pc # "idle"
          PROVE  /\ req[r].session \in Sessions
                 /\ Len(req[r].seen.ops) <= Len(file'[req[r].session].ops)
                 /\ \A i \in 1..Len(req[r].seen.ops) :
                      req[r].seen.ops[i] = file'[req[r].session].ops[i]
                 /\ req[r].share \subseteq 1..Len(req[r].seen.ops)
      <3>1. /\ req[r].session \in Sessions
            /\ Len(req[r].seen.ops) <= Len(file[req[r].session].ops)
            /\ \A i \in 1..Len(req[r].seen.ops) :
                 req[r].seen.ops[i] = file[req[r].session].ops[i]
            /\ req[r].share \subseteq 1..Len(req[r].seen.ops)
        BY <2>1 DEF CountInv, Prefixes
      <3>2. Len(req[r].seen.ops) \in Nat
        BY LengthOf DEF CountInv, TurnsInv, Inv, Shapes
      <3>3. \A i \in 1..Len(req[r].seen.ops) : i \in 1..Len(file[req[r].session].ops)
        BY <3>1, <3>2, <1>1
      <3>4. Len(req[r].seen.ops) <= Len(file'[req[r].session].ops)
        BY <3>1, <3>2, <1>1
      <3>5. \A i \in 1..Len(file[req[r].session].ops) :
              file'[req[r].session].ops[i] = file[req[r].session].ops[i]
        BY <3>1
      <3> QED
        BY <3>1, <3>3, <3>4, <3>5
    <2>2. ASSUME NEW t \in Sessions, NEW i \in Lines, handed[t][i] > 0
          PROVE  i <= Len(file'[t].ops)
      <3>1. i <= Len(file[t].ops) /\ i \in Nat
        BY <2>2, ReportAssumption DEF CountInv, Prefixes, Lines
      <3> QED
        BY <3>1, <1>1
    <2> QED
      BY <2>1, <2>2 DEF Prefixes
  <1>3. Shares'
    BY DEF CountInv, Shares, Sent
  <1>4. Accounted'
    <2>1. ASSUME NEW t \in Sessions, NEW p \in Parts
          PROVE  Worth(t, p, Settled(t))' = Worth(t, p, Settled(t))
      <3>1. Settled(t)' = Settled(t)
        BY DEF Settled, Sent
      <3>2. \A i \in Settled(t) : i \in 1..Len(file[t].ops)
        BY <1>1, ReportAssumption DEF Settled, CountInv, Prefixes, Lines
      <3>3. \A i \in Settled(t) : file'[t].ops[i] = file[t].ops[i]
        BY <3>2
      <3>4. PartOf(t, p, Settled(t))' = PartOf(t, p, Settled(t))
        BY <3>1, <3>3 DEF PartOf
      <3> QED
        BY <3>1, <3>4 DEF Worth
    <2> QED
      BY <2>1 DEF CountInv, Accounted
  <1> QED
    BY <1>2, <1>3, <1>4

\* A request begins with no share; nothing is settled by it.
LEMMA ReadCount ==
  ASSUME CountInv, NEW s \in Sessions, NEW r \in Requests, ReadReport(r, s)
  PROVE  Prefixes' /\ Shares' /\ Accounted'
  <1>1. /\ UNCHANGED <<file, handed, saved, restarts>>
        /\ overlapped \subseteq overlapped'
        /\ req[r].pc = "idle"
    BY DEF ReadReport
  <1>2. /\ req'[r].session = s /\ req'[r].seen = file[s] /\ req'[r].share = {}
        /\ \A q \in Requests : q # r => req'[q] = req[q]
    BY DEF ReadReport, CountInv, TurnsInv, Inv, Shapes
  <1>3. Len(file[s].ops) \in Nat
    BY LengthOf DEF CountInv, TurnsInv, Inv, Shapes
  <1>4. Prefixes'
    <2>1. ASSUME NEW q \in Requests, req'[q].pc # "idle"
          PROVE  /\ req'[q].session \in Sessions
                 /\ Len(req'[q].seen.ops) <= Len(file[req'[q].session].ops)
                 /\ \A i \in 1..Len(req'[q].seen.ops) :
                      req'[q].seen.ops[i] = file[req'[q].session].ops[i]
                 /\ req'[q].share \subseteq 1..Len(req'[q].seen.ops)
      <3>1. CASE q = r
        BY <3>1, <1>2, <1>3
      <3>2. CASE q # r
        <4>1. req'[q] = req[q] /\ req[q].pc # "idle"
          BY <3>2, <2>1, <1>2
        <4> QED
          BY <4>1 DEF CountInv, Prefixes
      <3> QED
        BY <3>1, <3>2
    <2>2. \A t \in Sessions : \A i \in Lines : handed[t][i] > 0 => i <= Len(file[t].ops)
      BY DEF CountInv, Prefixes
    <2> QED
      BY <2>1, <2>2, <1>1 DEF Prefixes
  <1>5. Shares'
    <2> SUFFICES ASSUME NEW t \in Sessions \ overlapped'
                 PROVE  /\ \A q \in Requests :
                             Sent(q, t)' => \A i \in req'[q].share : handed[t][i] > 0
                        /\ \A q, p \in Requests : Sent(q, t)' /\ Sent(p, t)' /\ q # p =>
                             req'[q].share \cap req'[p].share = {}
      BY <1>1 DEF Shares, Sent
    <2>1. t \in Sessions \ overlapped
      BY <1>1
    <2>2. \A q \in Requests : Sent(q, t)' /\ q # r => Sent(q, t) /\ req'[q] = req[q]
      BY <1>2 DEF Sent
    <2>3. /\ \A q \in Requests : Sent(q, t) => \A i \in req[q].share : handed[t][i] > 0
          /\ \A q, p \in Requests : Sent(q, t) /\ Sent(p, t) /\ q # p =>
               req[q].share \cap req[p].share = {}
      BY <2>1 DEF CountInv, Shares
    <2> QED
      BY <2>2, <2>3, <1>2
  <1>6. Accounted'
    <2>1. ASSUME NEW t \in Sessions, NEW p \in Parts
          PROVE  Worth(t, p, Settled(t))' = Worth(t, p, Settled(t))
      <3>1. \A i \in Lines :
              (\E q \in Requests : Sent(q, t)' /\ i \in req'[q].share)
                <=> (\E q \in Requests : Sent(q, t) /\ i \in req[q].share)
        <4>1. \A q \in Requests : q # r => (Sent(q, t)' <=> Sent(q, t)) /\ req'[q] = req[q]
          BY <1>2 DEF Sent
        <4>2. ~Sent(r, t) /\ req'[r].share = {}
          BY <1>1, <1>2 DEF Sent
        <4> QED
          BY <4>1, <4>2
      <3>2. Settled(t)' = Settled(t)
        BY <3>1, <1>1 DEF Settled, Lines
      <3>3. PartOf(t, p, Settled(t))' = PartOf(t, p, Settled(t))
        BY <3>2, <1>1 DEF PartOf
      <3> QED
        BY <3>2, <3>3 DEF Worth
    <2> QED
      BY <2>1, <1>1 DEF CountInv, Accounted
  <1> QED
    BY <1>4, <1>5, <1>6

\* The lines given in a turn were not given before, so they are in no other share
\* under way, and none of them is settled.
LEMMA ConsumeCount ==
  ASSUME CountInv, NEW r \in Requests, ConsumeReport(r)
  PROVE  Prefixes' /\ Shares' /\ Accounted'
  <1> DEFINE s == req[r].session
             seen == req[r].seen
             new == NewLines(seen, StartByte(cursor[s], seen))
  <1>1. /\ UNCHANGED <<file, overlapped, saved, restarts>>
        /\ req[r].pc = "read"
        /\ req'[r].pc = "sent" /\ req'[r].session = s /\ req'[r].seen = seen
        /\ req'[r].share = new
        /\ \A q \in Requests : q # r => req'[q] = req[q]
        /\ \A t \in Sessions : t # s => handed'[t] = handed[t]
    BY DEF ConsumeReport, CountInv, TurnsInv, Inv, Shapes
  <1>2. /\ s \in Sessions
        /\ Len(seen.ops) <= Len(file[s].ops)
        /\ \A i \in 1..Len(seen.ops) : seen.ops[i] = file[s].ops[i]
    BY <1>1 DEF CountInv, Prefixes
  <1>3. new \subseteq 1..Len(seen.ops)
    BY DEF NewLines
  <1>4. Len(seen.ops) \in Nat /\ Len(file[s].ops) \in Nat
    BY <1>2, LengthOf DEF CountInv, TurnsInv, Inv, Shapes
  <1>5. \A i \in Lines : /\ handed[s][i] \in Nat
                         /\ i \notin new => handed'[s][i] = handed[s][i]
    BY <1>2 DEF ConsumeReport, CountInv, TurnsInv, Inv, Shapes
  <1>6. s \notin overlapped =>
          /\ new \subseteq Lines
          /\ \A i \in new : handed[s][i] = 0 /\ handed'[s][i] = 1
    BY TurnTaken DEF CountInv
  <1> HIDE DEF new
  <1>7. Prefixes'
    <2>1. ASSUME NEW q \in Requests, req'[q].pc # "idle"
          PROVE  /\ req'[q].session \in Sessions
                 /\ Len(req'[q].seen.ops) <= Len(file[req'[q].session].ops)
                 /\ \A i \in 1..Len(req'[q].seen.ops) :
                      req'[q].seen.ops[i] = file[req'[q].session].ops[i]
                 /\ req'[q].share \subseteq 1..Len(req'[q].seen.ops)
      <3>1. CASE q = r
        BY <3>1, <1>1, <1>2, <1>3
      <3>2. CASE q # r
        <4>1. req'[q] = req[q] /\ req[q].pc # "idle"
          BY <3>2, <2>1, <1>1
        <4> QED
          BY <4>1 DEF CountInv, Prefixes
      <3> QED
        BY <3>1, <3>2
    <2>2. ASSUME NEW t \in Sessions, NEW i \in Lines, handed'[t][i] > 0
          PROVE  i <= Len(file[t].ops)
      <3>1. CASE t = s /\ i \in new
        <4>1. i \in Nat /\ i <= Len(seen.ops)
          BY <3>1, <1>3, <1>4
        <4> QED
          BY <4>1, <3>1, <1>2, <1>4
      <3>2. CASE t # s \/ i \notin new
        <4>1. handed[t][i] > 0
          BY <3>2, <2>2, <1>1, <1>5
        <4> QED
          BY <4>1 DEF CountInv, Prefixes
      <3> QED
        BY <3>1, <3>2
    <2> QED
      BY <2>1, <2>2, <1>1 DEF Prefixes
  <1>8. ASSUME NEW t \in Sessions \ overlapped
        PROVE  /\ \A q \in Requests : Sent(q, t) => \A i \in req[q].share : handed[t][i] > 0
               /\ \A q, p \in Requests : Sent(q, t) /\ Sent(p, t) /\ q # p =>
                    req[q].share \cap req[p].share = {}
    BY DEF CountInv, Shares
  <1>9. \A t \in Sessions : \A q \in Requests :
          q # r => (Sent(q, t)' <=> Sent(q, t)) /\ req'[q] = req[q]
    BY <1>1 DEF Sent
  <1>10. \A t \in Sessions : ~Sent(r, t) /\ (Sent(r, t)' <=> t = s)
    BY <1>1 DEF Sent
  <1>11. \A q \in Requests : req[q].share \subseteq Lines
    BY DEF CountInv, TurnsInv, Inv, Shapes
  <1>12. ASSUME NEW t \in Sessions \ overlapped, NEW i \in Lines
         PROVE  /\ handed[t][i] > 0 => handed'[t][i] > 0
                /\ t = s /\ i \in new => ~(handed[t][i] > 0) /\ handed'[t][i] > 0
                /\ t # s \/ i \notin new => handed'[t][i] = handed[t][i]
    BY <1>1, <1>5, <1>6
  <1>13. Shares'
    <2> SUFFICES ASSUME NEW t \in Sessions \ overlapped
                 PROVE  /\ \A q \in Requests :
                             Sent(q, t)' => \A i \in req'[q].share : handed'[t][i] > 0
                        /\ \A q, p \in Requests : Sent(q, t)' /\ Sent(p, t)' /\ q # p =>
                             req'[q].share \cap req'[p].share = {}
      BY <1>1 DEF Shares, Sent
    <2>1. t = s => new \subseteq Lines
      BY <1>6
    <2>2. ASSUME NEW q \in Requests, Sent(q, t)', NEW i \in req'[q].share
          PROVE  handed'[t][i] > 0
      <3>1. CASE q = r
        BY <3>1, <2>1, <2>2, <1>1, <1>10, <1>12
      <3>2. CASE q # r
        BY <3>2, <2>2, <1>8, <1>9, <1>11, <1>12
      <3> QED
        BY <3>1, <3>2
    <2>3. ASSUME NEW q \in Requests, q # r, Sent(q, t), t = s
          PROVE  req[q].share \cap new = {}
      BY <2>3, <1>8, <1>11, <1>12
    <2>4. ASSUME NEW q \in Requests, NEW p \in Requests, Sent(q, t)', Sent(p, t)', q # p
          PROVE  req'[q].share \cap req'[p].share = {}
      <3>1. CASE q = r
        <4>1. t = s /\ p # r /\ Sent(p, t) /\ req'[p] = req[p]
          BY <3>1, <2>4, <1>9, <1>10
        <4> QED
          BY <4>1, <3>1, <2>3, <1>1
      <3>2. CASE p = r
        <4>1. t = s /\ q # r /\ Sent(q, t) /\ req'[q] = req[q]
          BY <3>2, <2>4, <1>9, <1>10
        <4> QED
          BY <4>1, <3>2, <2>3, <1>1
      <3>3. CASE q # r /\ p # r
        BY <3>3, <2>4, <1>8, <1>9
      <3> QED
        BY <3>1, <3>2, <3>3
    <2> QED
      BY <2>2, <2>4
  <1>14. Accounted'
    <2>1. ASSUME NEW t \in Sessions \ overlapped, NEW p \in Parts
          PROVE  Worth(t, p, Settled(t))' = Worth(t, p, Settled(t))
      <3>1. ASSUME NEW i \in Lines
            PROVE  (/\ handed'[t][i] > 0
                    /\ ~\E q \in Requests : Sent(q, t)' /\ i \in req'[q].share)
                   <=> (/\ handed[t][i] > 0
                        /\ ~\E q \in Requests : Sent(q, t) /\ i \in req[q].share)
        <4>1. CASE t = s /\ i \in new
          BY <4>1, <1>1, <1>10, <1>12
        <4>2. CASE t # s \/ i \notin new
          BY <4>2, <1>1, <1>9, <1>10, <1>12
        <4> QED
          BY <4>1, <4>2
      <3>2. Settled(t)' = Settled(t)
        BY <3>1 DEF Settled, Lines
      <3>3. PartOf(t, p, Settled(t))' = PartOf(t, p, Settled(t))
        BY <3>2, <1>1 DEF PartOf
      <3> QED
        BY <3>2, <3>3 DEF Worth
    <2> QED
      BY <2>1, <1>1 DEF CountInv, Accounted
  <1> QED
    BY <1>7, <1>13, <1>14

\* A request that ends settles its share, which was settled by no other; a record
\* adds at most what the share is worth, a failure adds nothing.
LEMMA EndCount ==
  ASSUME CountInv, NEW r \in Requests, RecordCost(r) \/ RequestFails(r)
  PROVE  Prefixes' /\ Shares' /\ Accounted'
  <1> DEFINE s == req[r].session
             share == req[r].share
  <1>1. /\ UNCHANGED <<file, handed, overlapped, restarts>>
        /\ req[r].pc = "sent" /\ req'[r].pc = "idle"
        /\ \A q \in Requests : q # r => req'[q] = req[q]
    BY DEF RecordCost, RequestFails, CountInv, TurnsInv, Inv, Shapes, IdleRequest
  <1>2. /\ s \in Sessions /\ share \in SUBSET Lines
        /\ TokensSaved(req[r]) = [hooks |-> Worth(s, "hooks", share),
                                  layers |-> Worth(s, "layers", share)]
    BY <1>1, RecordWorth
  <1>3. saved \in [Sessions -> [hooks : Nat, layers : Nat]] /\ restarts \in Nat
    BY DEF CountInv, Accounted
  <1>4. \A p \in Parts : Worth(s, p, share) \in Nat
    BY <1>2, WorthOf
  <1>5. /\ saved' \in [Sessions -> [hooks : Nat, layers : Nat]]
        /\ \A p \in Parts : saved'[s][p] <= saved[s][p] + Worth(s, p, share)
        /\ \A t \in Sessions : t # s => saved'[t] = saved[t]
    <2>1. CASE RequestFails(r)
      BY <2>1, <1>2, <1>3, <1>4 DEF RequestFails, Parts
    <2>2. CASE RecordCost(r)
      <3> DEFINE h == saved[s].hooks + Worth(s, "hooks", share)
                 l == saved[s].layers + Worth(s, "layers", share)
      <3>1. saved' = [saved EXCEPT ![s] = [hooks |-> Saturated(h), layers |-> Saturated(l)]]
        BY <2>2, <1>2, <1>3 DEF RecordCost
      <3>2. h \in Nat /\ l \in Nat
        BY <1>2, <1>3, <1>4 DEF Parts
      <3>3. \A n \in Nat : Saturated(n) \in Nat /\ Saturated(n) <= n
        BY ReportAssumption DEF Saturated
      <3>4. /\ saved'[s] = [hooks |-> Saturated(h), layers |-> Saturated(l)]
            /\ saved' \in [Sessions -> [hooks : Nat, layers : Nat]]
            /\ \A t \in Sessions : t # s => saved'[t] = saved[t]
        BY <3>1, <3>2, <3>3, <1>2, <1>3
      <3> QED
        BY <3>2, <3>3, <3>4 DEF Parts
    <2> QED
      BY <2>1, <2>2
  <1>6. \A t \in Sessions : \A q \in Requests :
          q # r => (Sent(q, t)' <=> Sent(q, t)) /\ req'[q] = req[q]
    BY <1>1 DEF Sent
  <1>7. \A t \in Sessions : ~Sent(r, t)' /\ (Sent(r, t) <=> t = s)
    BY <1>1 DEF Sent
  <1>8. Prefixes'
    <2>1. ASSUME NEW q \in Requests, req'[q].pc # "idle"
          PROVE  /\ req'[q].session \in Sessions
                 /\ Len(req'[q].seen.ops) <= Len(file[req'[q].session].ops)
                 /\ \A i \in 1..Len(req'[q].seen.ops) :
                      req'[q].seen.ops[i] = file[req'[q].session].ops[i]
                 /\ req'[q].share \subseteq 1..Len(req'[q].seen.ops)
      <3>1. req'[q] = req[q] /\ req[q].pc # "idle"
        BY <2>1, <1>1
      <3> QED
        BY <3>1 DEF CountInv, Prefixes
    <2>2. \A t \in Sessions : \A i \in Lines : handed[t][i] > 0 => i <= Len(file[t].ops)
      BY DEF CountInv, Prefixes
    <2> QED
      BY <2>1, <2>2, <1>1 DEF Prefixes
  <1>9. ASSUME NEW t \in Sessions \ overlapped
        PROVE  /\ \A q \in Requests : Sent(q, t) => \A i \in req[q].share : handed[t][i] > 0
               /\ \A q, p \in Requests : Sent(q, t) /\ Sent(p, t) /\ q # p =>
                    req[q].share \cap req[p].share = {}
    BY DEF CountInv, Shares
  <1>10. Shares'
    <2> SUFFICES ASSUME NEW t \in Sessions \ overlapped
                 PROVE  /\ \A q \in Requests :
                             Sent(q, t)' => \A i \in req'[q].share : handed[t][i] > 0
                        /\ \A q, p \in Requests : Sent(q, t)' /\ Sent(p, t)' /\ q # p =>
                             req'[q].share \cap req'[p].share = {}
      BY <1>1 DEF Shares, Sent
    <2> QED
      BY <1>6, <1>7, <1>9
  <1>11. ASSUME restarts = 0, NEW t \in Sessions \ overlapped, NEW p \in Parts
         PROVE  saved'[t][p] <= Worth(t, p, Settled(t))'
    <2>1. saved[t][p] <= Worth(t, p, Settled(t)) /\ saved[t][p] \in Nat
      BY <1>11, <1>3 DEF CountInv, Accounted, Parts
    <2>2. CASE t # s
      <3>1. Settled(t)' = Settled(t)
        BY <2>2, <1>1, <1>6, <1>7 DEF Settled, Lines
      <3>2. PartOf(t, p, Settled(t))' = PartOf(t, p, Settled(t))
        BY <3>1, <1>1 DEF PartOf
      <3>3. Worth(t, p, Settled(t))' = Worth(t, p, Settled(t))
        BY <3>1, <3>2 DEF Worth
      <3> QED
        BY <2>1, <2>2, <3>3, <1>5
    <2>3. CASE t = s
      <3>1. Settled(t) \cap share = {} /\ Settled(t) \in SUBSET Lines
        BY <2>3, <1>7 DEF Settled
      <3>2. ASSUME NEW i \in Lines
            PROVE  (/\ handed[t][i] > 0
                    /\ ~\E q \in Requests : Sent(q, t)' /\ i \in req'[q].share)
                   <=> i \in Settled(t) \/ i \in share
        <4>1. CASE i \in share
          <5>1. handed[t][i] > 0
            BY <4>1, <2>3, <1>7, <1>9
          <5>2. ~\E q \in Requests : Sent(q, t)' /\ i \in req'[q].share
            BY <4>1, <2>3, <1>6, <1>7, <1>9
          <5> QED
            BY <4>1, <5>1, <5>2
        <4>2. CASE i \notin share
          <5>1. (\E q \in Requests : Sent(q, t)' /\ i \in req'[q].share)
                  <=> (\E q \in Requests : Sent(q, t) /\ i \in req[q].share)
            BY <4>2, <1>6, <1>7
          <5> QED
            BY <4>2, <5>1 DEF Settled
        <4> QED
          BY <4>1, <4>2
      <3>3. Settled(t)' = Settled(t) \cup share
        <4>1. Settled(t)' = {i \in Lines : /\ handed[t][i] > 0
                               /\ ~\E q \in Requests : Sent(q, t)' /\ i \in req'[q].share}
          BY <1>1 DEF Settled, Lines
        <4> QED
          BY <4>1, <3>1, <3>2, <1>2
      <3>4. PartOf(t, p, Settled(t))' = PartOf(t, p, Settled(t) \cup share)
        BY <3>3, <1>1 DEF PartOf
      <3>5. Worth(t, p, Settled(t))' = Worth(t, p, Settled(t) \cup share)
        BY <3>3, <3>4 DEF Worth
      <3>6. Worth(t, p, Settled(t) \cup share) = Worth(t, p, Settled(t)) + Worth(t, p, share)
        BY <3>1, <1>2, WorthAdds
      <3>7. Worth(t, p, Settled(t)) \in Nat
        BY <3>1, WorthOf
      <3> QED
        <4>1. saved'[t][p] <= saved[t][p] + Worth(t, p, share) /\ Worth(t, p, share) \in Nat
          BY <2>3, <1>4, <1>5
        <4>2. saved'[t][p] \in Nat
          BY <1>5 DEF Parts
        <4>3. Worth(t, p, Settled(t))' = Worth(t, p, Settled(t)) + Worth(t, p, share)
          BY <3>5, <3>6
        <4> QED
          BY <2>1, <3>7, <4>1, <4>2, <4>3
    <2> QED
      BY <2>2, <2>3
  <1>12. Accounted'
    BY <1>1, <1>3, <1>5, <1>11 DEF Accounted
  <1> QED
    BY <1>8, <1>10, <1>12

\* A line that is added leaves those before it.
LEMMA AppendCount ==
  ASSUME CountInv, Inv', NEW s \in Sessions, NEW op \in OpTypes,
         AppendLine(s, op) \/ FinishLine(s, op)
  PROVE  Prefixes' /\ Shares' /\ Accounted'
  <1>1. /\ UNCHANGED <<req, handed, overlapped, saved, restarts>>
        /\ file' = [file EXCEPT ![s] = [ops |-> Append(file[s].ops, op), torn |-> FALSE]]
    BY DEF AppendLine, FinishLine
  <1>2. file[s].ops \in Seq(OpTypes) /\ Len(file[s].ops) \in Nat
    BY LengthOf DEF CountInv, TurnsInv, Inv, Shapes
  <1>3. /\ file'[s].ops = Append(file[s].ops, op)
        /\ \A t \in Sessions : t # s => file'[t] = file[t]
    BY <1>1 DEF CountInv, TurnsInv, Inv, Shapes
  <1>4. /\ Len(file'[s].ops) = Len(file[s].ops) + 1
        /\ \A i \in 1..Len(file[s].ops) : file'[s].ops[i] = file[s].ops[i]
    BY <1>2, <1>3
  <1>5. \A t \in Sessions : Len(file[t].ops) \in Nat
    BY LengthOf DEF CountInv, TurnsInv, Inv, Shapes
  <1>6. \A t \in Sessions : /\ Len(file[t].ops) <= Len(file'[t].ops)
                            /\ \A i \in 1..Len(file[t].ops) :
                                 file'[t].ops[i] = file[t].ops[i]
    BY <1>3, <1>4, <1>5
  <1>7. file' \in [Sessions -> Contents]
    BY DEF Inv, Shapes
  <1> QED
    BY <1>1, <1>6, <1>7, GrowCount

LEMMA BeginCount ==
  ASSUME CountInv, Inv', NEW s \in Sessions, BeginLine(s)
  PROVE  Prefixes' /\ Shares' /\ Accounted'
  <1>1. UNCHANGED <<req, handed, overlapped, saved, restarts>>
    BY DEF BeginLine
  <1>2. \A t \in Sessions : file'[t].ops = file[t].ops
    BY DEF BeginLine, CountInv, TurnsInv, Inv, Shapes, Contents
  <1>3. \A t \in Sessions : Len(file[t].ops) \in Nat
    BY LengthOf DEF CountInv, TurnsInv, Inv, Shapes
  <1>4. file' \in [Sessions -> Contents]
    BY DEF Inv, Shapes
  <1> QED
    BY <1>1, <1>2, <1>3, <1>4, GrowCount

LEMMA NextCount == CountInv /\ [Next]_vars => CountInv'
  <1> SUFFICES ASSUME CountInv, [Next]_vars PROVE CountInv'
    OBVIOUS
  <1>1. TurnsInv' /\ Inv'
    BY NextTurns DEF CountInv, TurnsInv
  <1>2. Prefixes' /\ Shares' /\ Accounted'
    <2>1. ASSUME NEW s \in Sessions, NEW op \in OpTypes,
                 AppendLine(s, op) \/ FinishLine(s, op)
          PROVE  Prefixes' /\ Shares' /\ Accounted'
      BY <2>1, <1>1, AppendCount
    <2>2. ASSUME NEW s \in Sessions, BeginLine(s)
          PROVE  Prefixes' /\ Shares' /\ Accounted'
      BY <2>2, <1>1, BeginCount
    <2>3. ASSUME NEW s \in Sessions, NEW r \in Requests, ReadReport(r, s)
          PROVE  Prefixes' /\ Shares' /\ Accounted'
      BY <2>3, ReadCount
    <2>4. ASSUME NEW r \in Requests, ConsumeReport(r)
          PROVE  Prefixes' /\ Shares' /\ Accounted'
      BY <2>4, ConsumeCount
    <2>5. ASSUME NEW r \in Requests, RecordCost(r) \/ RequestFails(r)
          PROVE  Prefixes' /\ Shares' /\ Accounted'
      BY <2>5, EndCount
    <2>6. CASE Restart
      <3>1. restarts' \in Nat /\ restarts' # 0 /\ saved' \in [Sessions -> [hooks : Nat, layers : Nat]]
        BY <2>6 DEF Restart, CountInv, Accounted
      <3>2. Accounted'
        BY <3>1 DEF Accounted
      <3>3. Prefixes' /\ Shares'
        BY <2>6 DEF Restart, Prefixes, Shares, Sent, IdleRequest
      <3> QED
        BY <3>2, <3>3
    <2>7. CASE UNCHANGED vars
      <3>1. UNCHANGED <<file, req, handed, overlapped, saved, restarts>>
        BY <2>7 DEF vars
      <3>2. /\ file' \in [Sessions -> Contents]
            /\ \A t \in Sessions : Len(file[t].ops) \in Nat
        BY <3>1, LengthOf DEF CountInv, TurnsInv, Inv, Shapes
      <3> QED
        BY <3>1, <3>2, GrowCount
    <2> QED
      BY <2>1, <2>2, <2>3, <2>4, <2>5, <2>6, <2>7 DEF Next
  <1> QED
    BY <1>1, <1>2 DEF CountInv

\* While the process lives and the requests of a session do not overlap between
\* the read and the cursor, neither summand of its cost records' tokens_saved counts
\* a report line twice, whichever requests fail and in whatever order they end.
THEOREM SavingsBounded == Spec => []SavedBounded
  <1>1. Init => CountInv
    <2> SUFFICES ASSUME Init PROVE CountInv
      OBVIOUS
    <2>1. TurnsInv
      BY InitInv, FreshTurns DEF Init, TurnsInv
    <2>2. Prefixes /\ Shares
      BY DEF Init, Prefixes, Shares, Sent, IdleRequest
    <2>3. ASSUME NEW t \in Sessions, NEW p \in Parts
          PROVE  saved[t][p] <= Worth(t, p, Settled(t))
      <3>1. Worth(t, p, Settled(t)) \in Nat
        BY WorthOf DEF Settled
      <3> QED
        BY <3>1 DEF Init, Parts
    <2> QED
      BY <2>1, <2>2, <2>3 DEF Init, CountInv, Accounted
  <1>2. CountInv => SavedBounded
    <2> SUFFICES ASSUME CountInv, restarts = 0, NEW s \in Sessions \ overlapped
                 PROVE  LET ops == file[s].ops
                        IN  /\ saved[s].hooks <= Len(ops)
                            /\ saved[s].layers
                                 <= Cardinality({i \in DOMAIN ops : ops[i] \in Itemised})
      BY DEF SavedBounded
    <2> DEFINE ops == file[s].ops
               all == 1..Len(ops)
    <2>1. ops \in Seq(OpTypes) /\ Len(ops) \in Nat /\ Len(ops) <= MaxLines
      BY LengthOf DEF CountInv, TurnsInv, Inv, Shapes
    <2>2. all \in SUBSET Lines
      BY <2>1, ReportAssumption DEF Lines
    <2>3. Settled(s) \in SUBSET all
      BY <2>1, ReportAssumption DEF Settled, CountInv, Prefixes, Lines
    <2>4. ASSUME NEW p \in Parts PROVE saved[s][p] <= Worth(s, p, all)
      <3>1. Worth(s, p, Settled(s)) <= Worth(s, p, all)
        BY <2>2, <2>3, WorthGrows
      <3>2. /\ Worth(s, p, Settled(s)) \in Nat /\ Worth(s, p, all) \in Nat
            /\ saved[s][p] \in Nat
        BY <2>2, <2>3, WorthOf DEF CountInv, Accounted, Parts
      <3>3. saved[s][p] <= Worth(s, p, Settled(s))
        BY DEF CountInv, Accounted
      <3> QED
        BY <3>1, <3>2, <3>3
    <2>5. Cardinality(all) = Len(ops)
      BY <2>1, FS_Interval
    <2>6. /\ PartOf(s, "hooks", all) = all
          /\ PartOf(s, "layers", all) = {i \in DOMAIN ops : ops[i] \in Itemised}
      BY <2>1 DEF PartOf
    <2>7. /\ Worth(s, "hooks", all) = Len(ops)
          /\ Worth(s, "layers", all) = Cardinality({i \in DOMAIN ops : ops[i] \in Itemised})
      <3> HIDE DEF all
      <3> QED
        BY <2>5, <2>6 DEF Worth
    <2>8. "hooks" \in Parts /\ "layers" \in Parts
      BY DEF Parts
    <2> QED
      BY <2>4, <2>7, <2>8
  <1> QED
    BY <1>1, <1>2, NextCount, PTL DEF Spec

=============================================================================
