--------------------------- MODULE TokenlessReport ---------------------------
(***************************************************************************)
(* How the savings that the tokenless hooks report reach the cost records  *)
(* (consume_report in crates/core/src/report.rs, its call in               *)
(* crates/core/src/server.rs, the sum in crates/cost/src/lib.rs).          *)
(*                                                                         *)
(* The hooks, which are other processes, append a JSON line to the file of *)
(* a session.  Every request of the session reads the whole file, then     *)
(* locks the session's cursor, takes the lines that start at or after it   *)
(* as its share and moves the cursor to the end of what it read.           *)
(*                                                                         *)
(* A line is two units long and saves one token; a line that is written    *)
(* in two halves is torn, and one unit long, in between.                   *)
(***************************************************************************)
EXTENDS Naturals, Sequences, FiniteSets

CONSTANTS Sessions,
          NoSession,
          Requests,      \* concurrency slots
          OpTypes,       \* the op types that occur in the reports
          MaxLines,      \* bound: lines per session
          MaxRestarts,   \* bound: restarts of the proxy
          SavedCap       \* bound: each sum of a session's savings saturates here

ASSUME ReportAssumption ==
  /\ MaxLines \in Nat /\ MaxRestarts \in Nat /\ SavedCap \in Nat
  /\ NoSession \notin Sessions

VARIABLES file,      \* session -> its lines (op types) and a torn last line
          cursor,    \* REPORT_CURSORS
          req,       \* the requests being handled
          handed,    \* history: session -> line -> times given, up to 2
          halved,    \* history: session -> the lines written in two halves
          overlapped,\* history: sessions with two requests between read and cursor
          saved,     \* tokens_saved of the session's cost records, in its two summands
          restarts

vars == <<file, cursor, req, handed, halved, overlapped, saved, restarts>>

Lines == 1..MaxLines

\* A report file: the op_type of each whole line, and whether half a line follows.
EmptyFile == [ops |-> <<>>, torn |-> FALSE]

Length(f) == 2 * Len(f.ops) + (IF f.torn THEN 1 ELSE 0)

LineStart(i) == 2 * (i - 1)

IdleRequest == [pc |-> "idle", session |-> NoSession, seen |-> EmptyFile, share |-> {}]

-----------------------------------------------------------------------------

Init ==
  /\ file = [s \in Sessions |-> EmptyFile]
  /\ cursor = [s \in Sessions |-> 0]
  /\ req = [r \in Requests |-> IdleRequest]
  /\ handed = [s \in Sessions |-> [i \in Lines |-> 0]]
  /\ halved = [s \in Sessions |-> {}]
  /\ overlapped = {}
  /\ saved = [s \in Sessions |-> [hooks |-> 0, layers |-> 0]]
  /\ restarts = 0

\* A hook appends a whole line ...
AppendLine(s, op) ==
  /\ Len(file[s].ops) < MaxLines /\ ~file[s].torn
  /\ file' = [file EXCEPT ![s] = [ops |-> Append(file[s].ops, op), torn |-> FALSE]]
  /\ UNCHANGED <<cursor, req, handed, halved, overlapped, saved, restarts>>

\* ... or the first half of one ...
BeginLine(s) ==
  /\ Len(file[s].ops) < MaxLines /\ ~file[s].torn
  /\ file' = [file EXCEPT ![s].torn = TRUE]
  /\ halved' = [halved EXCEPT ![s] = @ \cup {Len(file[s].ops) + 1}]
  /\ UNCHANGED <<cursor, req, handed, overlapped, saved, restarts>>

\* ... and then the other.
FinishLine(s, op) ==
  /\ file[s].torn
  /\ file' = [file EXCEPT ![s] = [ops |-> Append(file[s].ops, op), torn |-> FALSE]]
  /\ UNCHANGED <<cursor, req, handed, halved, overlapped, saved, restarts>>

\* consume_report reads the file, before it looks at the cursor; without a file,
\* or with an empty one, the request goes on without a share.
ReadReport(r, s) ==
  /\ req[r].pc = "idle"
  /\ req' = [req EXCEPT ![r] =
               [pc |-> IF Length(file[s]) = 0 THEN "sent" ELSE "read",
                session |-> s, seen |-> file[s], share |-> {}]]
  /\ overlapped' = IF \E q \in Requests : req[q].pc = "read" /\ req[q].session = s
                   THEN overlapped \cup {s} ELSE overlapped
  /\ UNCHANGED <<file, cursor, handed, halved, saved, restarts>>

\* The cursor consume_report starts from: one beyond the content is reset.
StartByte(c, content) == IF c > Length(content) THEN 0 ELSE c

\* Mutant: the comparison leaves out the line that starts at the cursor.
IsNewAfter(i, start) == LineStart(i) > start

\* Mutant: a line is new when its end is not before the cursor.
IsNewByEnd(i, start) == LineStart(i) + 2 >= start

IsNew(i, start) == LineStart(i) >= start

\* The complete lines parse; a torn one does not and is passed over.
NewLines(content, start) == {i \in 1..Len(content.ops) : IsNew(i, start)}

\* Mutant: the cursor is set from the length the file has by now.
AdvancedToFileEnd(s, c, content) ==
  LET start == StartByte(c, content)
  IN  IF NewLines(content, start) # {} THEN Length(file[s]) ELSE start

\* The cursor after the scan: past everything read if a line was new.
Advanced(s, c, content) ==
  LET start == StartByte(c, content)
  IN  IF NewLines(content, start) # {} THEN Length(content) ELSE start

\* consume_report with the session's cursor locked.
ConsumeReport(r) ==
  LET s == req[r].session
      new == NewLines(req[r].seen, StartByte(cursor[s], req[r].seen))
  IN  /\ req[r].pc = "read"
      /\ cursor' = [cursor EXCEPT ![s] = Advanced(s, cursor[s], req[r].seen)]
      /\ req' = [req EXCEPT ![r] = [pc |-> "sent", session |-> s,
                                    seen |-> req[r].seen, share |-> new]]
      /\ handed' = [handed EXCEPT ![s] = [i \in Lines |->
                      IF i \in new /\ @[i] < 2 THEN @[i] + 1 ELSE @[i]]]
      /\ UNCHANGED <<file, halved, overlapped, saved, restarts>>

\* The op types whose savings consume_report also sums up on their own.
Itemised == {"rewrite-command", "compress-response", "compress-schema"}

\* The part of a share in rtk_saved, response_saved and schema_saved.
ItemisedShare(q) == {i \in q.share : q.seen.ops[i] \in Itemised}

\* Mutant: every line that was read is counted, not only the share.
TokensSavedOfAllRead(q) ==
  [hooks |-> Len(q.seen.ops),
   layers |-> Cardinality({i \in DOMAIN q.seen.ops : q.seen.ops[i] \in Itemised})]

\* tokens_saved of the cost record is the sum of two: the total of the hooks'
\* lines, and the layers, which hold the itemised lines of that total again.
TokensSaved(q) == [hooks |-> Cardinality(q.share), layers |-> Cardinality(ItemisedShare(q))]

Saturated(n) == IF n < SavedCap THEN n ELSE SavedCap

\* The request was answered and its cost record inserted.
RecordCost(r) ==
  LET s == req[r].session
      tokens == TokensSaved(req[r])
  IN  /\ req[r].pc = "sent"
      /\ saved' = [saved EXCEPT ![s] = [hooks |-> Saturated(@.hooks + tokens.hooks),
                                         layers |-> Saturated(@.layers + tokens.layers)]]
      /\ req' = [req EXCEPT ![r] = IdleRequest]
      /\ UNCHANGED <<file, cursor, handed, halved, overlapped, restarts>>

\* A middleware or the upstream failed, the response is not JSON, or the insert
\* failed: no cost record.
RequestFails(r) ==
  /\ req[r].pc = "sent"
  /\ req' = [req EXCEPT ![r] = IdleRequest]
  /\ UNCHANGED <<file, cursor, handed, halved, overlapped, saved, restarts>>

\* The cursors live in memory; the files and the cost records stay.
Restart ==
  /\ restarts < MaxRestarts
  /\ restarts' = restarts + 1
  /\ cursor' = [s \in Sessions |-> 0]
  /\ req' = [r \in Requests |-> IdleRequest]
  /\ handed' = [s \in Sessions |-> [i \in Lines |-> 0]]
  /\ overlapped' = {}
  /\ UNCHANGED <<file, halved, saved>>

Next ==
  \/ \E s \in Sessions : \/ BeginLine(s)
                         \/ \E op \in OpTypes : AppendLine(s, op) \/ FinishLine(s, op)
                         \/ \E r \in Requests : ReadReport(r, s)
  \/ \E r \in Requests : ConsumeReport(r) \/ RecordCost(r) \/ RequestFails(r)
  \/ Restart

Spec == Init /\ [][Next]_vars

\* A request that began is worked on to its end; the session's agent keeps
\* sending requests.  The hooks owe nothing.
Fairness ==
  /\ \A r \in Requests : /\ WF_vars(ConsumeReport(r))
                         /\ WF_vars(RecordCost(r) \/ RequestFails(r))
  /\ \A s \in Sessions : SF_vars(\E r \in Requests : ReadReport(r, s))

FairSpec == Spec /\ Fairness

-----------------------------------------------------------------------------
(* Properties *)

\* "Advance cursor past all content we just scanned, so the next read only picks
\* up newly appended lines": the cursor never passes a line whose savings no
\* request was given, whatever is appended between a request's read and its
\* turn at the cursor; only a line that was there by half when it was read may
\* be lost.
NothingSkipped ==
  \A s \in Sessions : \A i \in 1..Len(file[s].ops) :
    LineStart(i) < cursor[s] => handed[s][i] > 0 \/ i \in halved[s]

\* "returning only the incremental savings since the last read": while no two
\* requests of a session are between their read and the cursor at once, no line
\* is given to two requests of one run of the proxy.
HandedOnceAlone ==
  \A s \in Sessions \ overlapped : \A i \in Lines : handed[s][i] <= 1

\* Every line that was appended whole is at last given to a request.
SavingsHanded ==
  \A s \in Sessions : \A i \in Lines :
    i <= Len(file[s].ops) ~> handed[s][i] > 0 \/ i \in halved[s]

\* Over all cost records of a session, the hooks' total counts a line of its report
\* at most once, and the layers an itemised line at most once, with any number of
\* requests that read the file again, that fail after their turn at the cursor
\* or that end in another order, while the process lives and no two of them
\* overlap.  That tokens_saved then adds the two up, and so counts an itemised
\* line twice, is not excused by it.
SavedBounded ==
  restarts = 0 =>
    \A s \in Sessions \ overlapped :
      LET ops == file[s].ops
      IN  /\ saved[s].hooks <= Len(ops)
          /\ saved[s].layers <= Cardinality({i \in DOMAIN ops : ops[i] \in Itemised})

=============================================================================
