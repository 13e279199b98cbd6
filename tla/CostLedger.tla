----------------------------- MODULE CostLedger -----------------------------
(***************************************************************************)
(* The cost ledger: the recorder that writes a row for each answered       *)
(* request (crates/cost/src/lib.rs), the cost_records table                *)
(* (crates/storage-sqlite/src/lib.rs), and the admin endpoints that read,  *)
(* sum up and prune it (apps/server/src/admin.rs).                         *)
(*                                                                         *)
(* Requests, the administrator who edits prices and prunes, and a reader   *)
(* who walks the records page by page take turns at any time; a row's      *)
(* timestamp is taken before its insert runs on another thread.            *)
(*                                                                         *)
(* Time: now is in ticks, Second and Day are multiples of a tick.  RFC     *)
(* 3339 strings of UTC times compare as the times do.  The moments at      *)
(* which anything happens are Instants; no two rows have the same          *)
(* timestamp (the code's has nanoseconds).                                 *)
(***************************************************************************)
EXTENDS Pricing, Sequences, SequencesExt

CONSTANTS Requests,      \* the requests of a behaviour, one row each
          Asks,          \* [Requests -> project (as a path), model, usage, saved tokens]
          Histories,     \* sequences of billings an administrator gives the mapping
          Instants,      \* the moments at which something happens
          Second, Hour, Day,  \* in ticks
          Offsets,       \* tz_offset values asked for, in ticks
          UtcDays,       \* tz_offset is None
          DaysAsked,     \* the days of queries and of prunes
          Readers,       \* the ways of clients to page: the limit they ask for, and
                         \* whether a short page is their last or only an empty one
          DefaultLimit,  \* limit of a query that names none: 100
          MaxLimit       \* limit of any query: 1000

ASSUME TimeAssumption ==
  /\ Instants \subseteq Nat /\ Instants # {} /\ IsFiniteSet(Instants)
  /\ Second \in Nat \ {0} /\ Hour \in Nat \ {0} /\ Day \in Nat /\ Day >= 2 * Second
  /\ Day % Second = 0 /\ Day % Hour = 0
  /\ UtcDays \notin Offsets /\ \A o \in Offsets : o \in Int /\ o % Second = 0
  /\ DaysAsked \subseteq Nat
  /\ Readers \subseteq [limit : Nat \ {0}, until : {"short", "empty"}]
  /\ MaxLimit \in Nat \ {0} /\ DefaultLimit \in 0..MaxLimit

ASSUME BillingAssumption ==
  /\ \A h \in Histories : /\ h \in Seq(Range(h)) /\ h # <<>>
                          /\ \A p \in Range(h) : IsBilling(p)
  /\ \A r \in Requests :
       LET ask == Asks[r]
       IN  /\ ask.project \in Seq(Range(ask.project)) /\ ask.usage \in Usage
           /\ ask.hook \in Nat /\ ask.proxy \in Nat /\ ask.header \in Nat

VARIABLES now,       \* Utc::now()
          editions,  \* the billing the router's snapshot holds, and later ones
          req,       \* [request -> stage, the billing it was routed with, timestamp]
          table,     \* cost_records
          reader     \* the reader's way and query, offset, rows seen and rows it is owed

vars == <<now, editions, req, table, reader>>

NoTime == -1

\* The CostRecord of a request.  Saved tokens come from the hooks' report (all of
\* whose lines are itemised here), from the compress middleware and from the
\* tokenless environment's statistics (header, as a request header brings them): the
\* first two fill the columns schema, response and rtk (here their sum, parts), all
\* three compression_tokens_saved, and tokens_saved adds the hooks' once more.
Row(r) ==
  LET ask == Asks[r]
      compression == ask.hook + ask.proxy + ask.header
  IN  [id |-> r, project |-> ask.project, model |-> ask.model, usage |-> ask.usage,
       parts |-> ask.hook + ask.proxy, compression |-> compression,
       total |-> ask.hook + compression,
       cost |-> req[r].cost, snapshot |-> req[r].pricing, at |-> req[r].at]

NotReading == [pc |-> "idle", way |-> [limit |-> 1, until |-> "empty"], days |-> 0, tz |-> UtcDays,
               offset |-> 0, seen |-> {}, owed |-> {}]

NotAsked == [pc |-> "idle", pricing |-> FlatFee, cost |-> Charge(0, "USD"), at |-> NoTime]

Init ==
  /\ now = Min(Instants)
  /\ editions \in Histories
  /\ req = [r \in Requests |-> NotAsked]
  /\ table = {}
  /\ reader = NotReading

-----------------------------------------------------------------------------
(* Time ranges *)

\* DateTime::timestamp: whole seconds.
Truncated(t) == t - (t % Second)

Clamp(o) == Max({-(Day \div 2), Min({o, (7 * Day) \div 12})})

\* Mutant: a local day starts later in UTC the further east it is.
LocalStartAdded(days, o) ==
  LET local == now + Clamp(o)
      back == IF days > 0 THEN days - 1 ELSE 0
  IN  local - (local % Day) - back * Day + Clamp(o)

\* The calendar branch of compute_time_range: 00:00 local time, days - 1 days
\* before today, in UTC.
LocalStart(days, o) ==
  LET local == now + Clamp(o)
      back == IF days > 0 THEN days - 1 ELSE 0
  IN  local - (local % Day) - back * Day - Clamp(o)

\* Mutant: 3600 seconds for a day.
compute_time_range_hours(days, tz) ==
  [start |-> IF tz = UtcDays THEN Truncated(now) - days * Hour ELSE LocalStart(days, tz),
   end |-> Truncated(now)]

\* Whole days back from now, or local days, up to the last whole second.
compute_time_range(days, tz) ==
  [start |-> IF tz = UtcDays THEN Truncated(now) - days * Day ELSE LocalStart(days, tz),
   end |-> Truncated(now)]

InRange(row, range) == range.start <= row.at /\ row.at < range.end

-----------------------------------------------------------------------------
(* cost_records *)

\* Mutant: the oldest first.
OlderRows(row, rows) == {other \in rows : other.at < row.at}

\* ORDER BY timestamp DESC: the rows that come before a row.
RowsBefore(row, rows) == {other \in rows : other.at > row.at}

\* query_cost_records: LIMIT, which is capped, and OFFSET over the rows in that order.
query_cost_records(rows, limit, offset) ==
  {row \in rows : Cardinality(RowsBefore(row, rows))
                   \in offset..(offset + Min({limit, MaxLimit}) - 1)}

\* The columns of GROUP BY; project_model_month puts all months of a project and
\* a model into one group.
GroupKey(row, group_by) ==
  CASE group_by = "project" -> row.project
    [] group_by = "project_model_month" -> <<row.project, row.model>>
    [] group_by = "hourly" -> row.at \div Hour
    [] group_by = "daily" -> row.at \div Day

\* aggregate_costs: per group, how many rows and the sums of their columns.
aggregate_costs(group_by, rows) ==
  [k \in {GroupKey(row, group_by) : row \in rows} |->
     LET group == {row \in rows : GroupKey(row, group_by) = k}
     IN  [input |-> SumFunction([row \in group |-> row.usage["input"]]),
          output |-> SumFunction([row \in group |-> row.usage["output"]]),
          cost |-> SumFunction([row \in group |-> row.cost.amount]),
          saved |-> SumFunction([row \in group |-> row.compression]),
          count |-> Cardinality(group)]]

InProject(rows, project) == {row \in rows : row.project = project}

RowsIn(range) == {row \in table : InRange(row, range)}

-----------------------------------------------------------------------------
(* The admin endpoints *)

\* cost_report, without a project and with one: the groups are then the ones whose
\* key starts with it.
cost_report(days, tz) == aggregate_costs("project", RowsIn(compute_time_range(days, tz)))

cost_report_of(days, tz, project) ==
  LET groups == aggregate_costs("project_model_month", RowsIn(compute_time_range(days, tz)))
  IN  Restrict(groups, {k \in DOMAIN groups : IsPrefix(project, k[1])})

\* Mutant: the project is left out of the WHERE clause.
cost_trend_all(days, tz, projects, group_by) ==
  aggregate_costs(group_by, RowsIn(compute_time_range(days, tz)))

\* cost_trend of a project, or of all
cost_trend(days, tz, projects, group_by) ==
  aggregate_costs(group_by, {row \in RowsIn(compute_time_range(days, tz)) :
                               row.project \in projects})

\* cost_savings of a project: the rows come from query_cost_records, which limits
\* them.
cost_savings(days, tz, project) ==
  LET rows == query_cost_records(InProject(RowsIn(compute_time_range(days, tz)), project),
                                 DefaultLimit, 0)
  IN  [parts |-> SumFunction([row \in rows |-> row.parts]),
       total |-> SumFunction([row \in rows |-> row.total])]

\* Mutant: the cutoff is the start of the last day kept.
PruneShort(days) ==
  /\ table' = {row \in table : row.at >= now - (days - 1) * Day}
  /\ UNCHANGED <<now, editions, req, reader>>

\* prune_cost_records
Prune(days) ==
  /\ table' = {row \in table : row.at >= now - days * Day}
  /\ UNCHANGED <<now, editions, req, reader>>

\* A client of GET /admin/cost-records begins to walk the pages of a query that has
\* rows (once in a behaviour; another walk would be like the first).
StartReading(way, days, tz) ==
  /\ reader.pc = "idle" /\ RowsIn(compute_time_range(days, tz)) # {}
  /\ reader' = [NotReading EXCEPT
       !.pc = "reading", !.way = way, !.days = days, !.tz = tz,
       !.owed = {row.id : row \in RowsIn(compute_time_range(days, tz))}]
  /\ UNCHANGED <<now, editions, req, table>>

\* It asks for the page behind the rows it was given; the time range is computed
\* anew for each.  It stops at a page shorter than it asked for, or at an empty one.
ReadPage ==
  LET rows == RowsIn(compute_time_range(reader.days, reader.tz))
      page == query_cost_records(rows, reader.way.limit, reader.offset)
      least == IF reader.way.until = "short" THEN reader.way.limit ELSE 1
  IN  /\ reader.pc = "reading"
      /\ reader' = [reader EXCEPT
           !.offset = @ + Cardinality(page),
           !.seen = @ \cup {row.id : row \in page},
           !.pc = IF Cardinality(page) < least THEN "done" ELSE @]
      /\ UNCHANGED <<now, editions, req, table>>

-----------------------------------------------------------------------------
(* Recording *)

\* The router's on_request puts the mapping's pricing, and its JSON as the snapshot
\* for the audit trail, into the request's context.
Route(r) ==
  /\ req[r].pc = "idle"
  /\ req' = [req EXCEPT ![r] = [@ EXCEPT !.pc = "routed", !.pricing = Head(editions)]]
  /\ UNCHANGED <<now, editions, table, reader>>

\* The administrator edits the mapping's billing and the router reloads.
EditBilling ==
  /\ Len(editions) > 1
  /\ editions' = Tail(editions)
  /\ UNCHANGED <<now, req, table, reader>>

\* Mutant: the price is looked up when the response is there.
BuildRecordLate(r) ==
  /\ req[r].pc = "routed"
  /\ \A s \in Requests : req[s].at # now
  /\ req' = [req EXCEPT ![r] =
       [@ EXCEPT !.pc = "stamped", !.at = now, !.cost = Cost(Asks[r].usage, Head(editions))]]
  /\ UNCHANGED <<now, editions, table, reader>>

\* record(), up to the insert: cost and timestamp of an answered request.
BuildRecord(r) ==
  /\ req[r].pc = "routed"
  /\ \A s \in Requests : req[s].at # now
  /\ req' = [req EXCEPT ![r] =
       [@ EXCEPT !.pc = "stamped", !.at = now, !.cost = Cost(Asks[r].usage, req[r].pricing)]]
  /\ UNCHANGED <<now, editions, table, reader>>

\* insert_cost_record on a blocking thread
InsertRecord(r) ==
  /\ req[r].pc = "stamped"
  /\ table' = table \cup {Row(r)}
  /\ req' = [req EXCEPT ![r].pc = "recorded"]
  /\ UNCHANGED <<now, editions, reader>>

\* The insert fails, and a warning is logged, or the process stops before it: the row
\* is lost.
InsertFails(r) ==
  /\ req[r].pc = "stamped"
  /\ req' = [req EXCEPT ![r].pc = "lost"]
  /\ UNCHANGED <<now, editions, table, reader>>

Tick ==
  /\ now # Max(Instants)
  /\ now' = Min({t \in Instants : t > now})
  /\ UNCHANGED <<editions, req, table, reader>>

Next ==
  \/ Tick \/ EditBilling \/ ReadPage
  \/ \E days \in DaysAsked : Prune(days)
  \/ \E way \in Readers, days \in DaysAsked, tz \in Offsets \cup {UtcDays} :
       StartReading(way, days, tz)
  \/ \E r \in Requests : Route(r) \/ BuildRecord(r) \/ InsertRecord(r) \/ InsertFails(r)

Spec == Init /\ [][Next]_vars

\* Time passes, and a blocking task runs.
Fairness == /\ WF_vars(Tick)
            /\ \A r \in Requests : WF_vars(InsertRecord(r) \/ InsertFails(r))

FairSpec == Spec /\ Fairness

-----------------------------------------------------------------------------
(* Properties *)

Zones == Offsets \cup {UtcDays}

\* "Serialized pricing snapshot for audit trail": the audit of any row succeeds.
\* Its cost is what its own snapshot charges for its usage, at the tier of
\* its tokens, although prices are edited between request and response.
CostAudits ==
  \A row \in table : row.cost.amount = ReferenceAmount(row.usage, row.snapshot)

\* The local calendar day of a moment.
LocalDay(t, o) == (t + Clamp(o)) \div Day

\* "days = 1 means today 00:00 local time -> now, days = 2 yesterday 00:00": a
\* moment is in the range exactly if it lies on one of the last days local days,
\* in every time zone, and its second is over.
CalendarRange ==
  \A days \in DaysAsked \ {0}, o \in Offsets :
    LET range == compute_time_range(days, o)
        first == LocalDay(now, o) - days + 1
    IN  \A t \in Instants :
          InRange([at |-> t], range) <=> LocalDay(t, o) >= first /\ t < Truncated(now)

\* A reader who takes a short page for the last and asks for more rows than any
\* page holds stops after the first.
Deceived(way) == way.until = "short" /\ way.limit > MaxLimit

\* A reader who walks the pages by offset until one is empty, or until one is not
\* full where it asks for no more than a page may hold, has seen every row that was
\* there when it began and still is, although rows are inserted (late ones behind
\* newer ones), rows are pruned, and the range moves with the clock between any two
\* pages.
ReaderMissesNothing ==
  reader.pc = "done" /\ ~Deceived(reader.way) =>
    \A row \in RowsIn(compute_time_range(reader.days, reader.tz)) :
      row.id \in reader.owed => row.id \in reader.seen

\* Pruning what is older than some days takes nothing from a calendar report of as
\* many days, in any time zone, nor from a rolling one of fewer.
PruneSparesReports ==
  [][\A days \in DaysAsked \ {0} :
       Prune(days) =>
         \A row \in table \ table' :
           /\ \A o \in Offsets : ~InRange(row, compute_time_range(days, o))
           /\ ~InRange(row, compute_time_range(days - 1, UtcDays))]_vars

\* The lines of an aggregate added up.
Total(aggregate) ==
  [column \in {"input", "output", "cost", "saved", "count"} |->
     SumFunction([k \in DOMAIN aggregate |-> aggregate[k][column]])]

\* The endpoints tell one story: whatever a range holds, the report by project and
\* the trends by hour and by day, summed up, charge the same; a project's line
\* is its own trend, and its own groups in its own report, which may also hold
\* those of projects whose path continues its path.  As long as its rows fit
\* into one default page, its savings leave out none of them: the layers add up to
\* no more than its line says was saved, and the total to no less.
ReportsAgree ==
  \A days \in DaysAsked, tz \in Zones :
    LET report == cost_report(days, tz)
        projects == {Asks[r].project : r \in Requests}
        total == Total(report)
    IN  /\ Total(cost_trend(days, tz, projects, "hourly")) = total
        /\ Total(cost_trend(days, tz, projects, "daily")) = total
        /\ \A p \in DOMAIN report :
             LET own == cost_report_of(days, tz, p)
                 savings == cost_savings(days, tz, p)
             IN  /\ Total(cost_trend(days, tz, {p}, "hourly")) = report[p]
                 /\ Total(Restrict(own, {k \in DOMAIN own : k[1] = p})) = report[p]
                 /\ report[p].count <= DefaultLimit =>
                      /\ savings.parts <= report[p].saved
                      /\ savings.total >= report[p].saved

Reported(r) == \E row \in RowsIn(compute_time_range(Max(DaysAsked), UtcDays)) : row.id = r

\* A recorded request shows up: its second passes, and a report of the rolling days
\* has its row, unless the insert failed or an administrator pruned it.
RecordReported ==
  \A r \in Requests :
    (req[r].pc = "stamped" /\ req[r].at < Truncated(Max(Instants)))
      ~> \/ Reported(r) \/ req[r].pc = "lost"
         \/ req[r].pc = "recorded" /\ \A row \in table : row.id # r

=============================================================================
