------------------------- MODULE ProxyPipelineProofs -------------------------
(***************************************************************************)
(* Proofs about ProxyPipeline: the request pipeline, for any routes and    *)
(* any formats of clients, and the model aliases beside it, for any        *)
(* aliases and however often the process crashes in their migration.       *)
(***************************************************************************)
EXTENDS ProxyPipeline, WellFoundedInduction, TLAPS

-----------------------------------------------------------------------------
(* The inductive invariant of the aliases *)

\* Rows as the table has them: ids up to the sequence, a name in one row only.
RowsOK(rows, sequence) ==
  /\ rows = [id \in DOMAIN rows |-> rows[id]]
  /\ DOMAIN rows \subseteq 1..sequence
  /\ \A id \in DOMAIN rows : /\ DOMAIN rows[id] = {"name", "target", "enabled"}
                             /\ rows[id].enabled \in BOOLEAN
  /\ \A i, j \in DOMAIN rows : rows[i].name = rows[j].name => i = j

AliasTable ==
  /\ aliasDb = [version |-> aliasDb.version, rows |-> aliasDb.rows,
                sequence |-> aliasDb.sequence]
  /\ aliasDb.version \in 0..2 /\ aliasDb.sequence \in Nat
  /\ RowsOK(aliasDb.rows, aliasDb.sequence)

\* The migration is behind the proxy once it is up, and where the version is read as
\* it is, none follows a deletion.
AliasStart ==
  /\ start \in {"migrate", "aliases", "aliases_unread", "version", "list", "up", "up_bare"}
  /\ start = "aliases" => aliasDb.version < 2
  /\ start \in {"list", "up", "up_bare"} => aliasDb.version = 2
  /\ aliasDb.version < 2 => told.gone = {}
  /\ told = [gone |-> told.gone, back |-> told.back, edited |-> told.edited]
  /\ told.edited \in BOOLEAN

\* The id on the administrator's screen has been given out, to that name.
ScreenOK ==
  /\ screen = [id |-> screen.id, name |-> screen.name]
  /\ screen.id \in 0..aliasDb.sequence
  /\ screen.id \in DOMAIN aliasDb.rows => aliasDb.rows[screen.id].name = screen.name

MapOK == start = "up" /\ ~told.edited => aliasMap = MapOf(aliasDb.rows)

AliasInv == AliasTable /\ AliasStart /\ ScreenOK /\ MapOK /\ DeletedStaysDeleted

\* A row is inserted: the others stay, and it gets an id that was never used.
LEMMA InsertedOK ==
  ASSUME AliasTable, NEW row, DOMAIN row = {"name", "target", "enabled"},
         row.enabled \in BOOLEAN, row.name \notin NamesIn(aliasDb.rows),
         aliasDb' = Inserted(row)
  PROVE  /\ AliasTable'
         /\ aliasDb'.version = aliasDb.version
         /\ aliasDb'.sequence = aliasDb.sequence + 1
         /\ DOMAIN aliasDb'.rows = DOMAIN aliasDb.rows \cup {aliasDb.sequence + 1}
         /\ aliasDb'.rows[aliasDb.sequence + 1] = row
         /\ \A id \in DOMAIN aliasDb.rows : aliasDb'.rows[id] = aliasDb.rows[id]
  <1> DEFINE n == aliasDb.sequence + 1
             new == [id \in DOMAIN aliasDb.rows \cup {n} |->
                       IF id = n THEN row ELSE aliasDb.rows[id]]
  <1>1. aliasDb' = [version |-> aliasDb.version, rows |-> new, sequence |-> n]
    BY DEF Inserted, NextId, AliasTable
  <1>2. /\ aliasDb.version \in 0..2 /\ aliasDb.sequence \in Nat
        /\ DOMAIN aliasDb.rows \subseteq 1..aliasDb.sequence
        /\ n \in Nat /\ n \notin DOMAIN aliasDb.rows
    BY DEF AliasTable, RowsOK
  <1>3. /\ DOMAIN new = DOMAIN aliasDb.rows \cup {n} /\ new[n] = row
        /\ \A id \in DOMAIN aliasDb.rows : new[id] = aliasDb.rows[id]
        /\ new = [id \in DOMAIN new |-> new[id]]
    BY <1>2
  <1> HIDE DEF new
  <1>4. RowsOK(new, n)
    <2>1. DOMAIN new \subseteq 1..n
      BY <1>2, <1>3
    <2>2. \A id \in DOMAIN new : /\ DOMAIN new[id] = {"name", "target", "enabled"}
                                 /\ new[id].enabled \in BOOLEAN
      BY <1>3 DEF AliasTable, RowsOK
    <2>3. \A i, j \in DOMAIN new : new[i].name = new[j].name => i = j
      BY <1>3 DEF AliasTable, RowsOK, NamesIn
    <2> QED
      BY <1>3, <2>1, <2>2, <2>3 DEF RowsOK
  <1> QED
    BY <1>1, <1>2, <1>3, <1>4 DEF AliasTable

LEMMA AliasInitOK == Init => AliasInv
  BY DEF Init, AliasInit, AliasInv, AliasTable, RowsOK, AliasStart, ScreenOK, MapOK,
         DeletedStaysDeleted, NamesIn, NotPicked

\* A statement of the migration's insert.
LEMMA InsertStep ==
  ASSUME AliasInv, NEW name, InsertBuiltIn(name)
  PROVE  AliasInv'
  <1> DEFINE row == AliasRow(name, NoModel, TRUE)
  <1>1. /\ DOMAIN row = {"name", "target", "enabled"} /\ row.enabled \in BOOLEAN
        /\ row.name = name
    BY DEF AliasRow
  <1>2. /\ start \in {"aliases", "aliases_unread"} /\ name \notin NamesIn(aliasDb.rows)
        /\ aliasDb' = Inserted(row) /\ UNCHANGED <<start, aliasMap, screen>>
    BY DEF InsertBuiltIn, InMigration
  <1>t. told' = [gone |-> told.gone, edited |-> told.edited,
                 back |-> IF start = "aliases_unread" THEN told.back \cup {name} ELSE told.back]
    <2>1. told = [gone |-> told.gone, back |-> told.back, edited |-> told.edited]
      BY DEF AliasInv, AliasStart
    <2>2. CASE start = "aliases_unread"
      BY <2>1, <2>2 DEF InsertBuiltIn
    <2>3. CASE start # "aliases_unread"
      BY <2>1, <2>3 DEF InsertBuiltIn
    <2> QED
      BY <2>2, <2>3
  <1> HIDE DEF row
  <1>3. /\ AliasTable' /\ aliasDb'.version = aliasDb.version
        /\ aliasDb'.sequence = aliasDb.sequence + 1
        /\ DOMAIN aliasDb'.rows = DOMAIN aliasDb.rows \cup {aliasDb.sequence + 1}
        /\ aliasDb'.rows[aliasDb.sequence + 1].name = name
        /\ \A id \in DOMAIN aliasDb.rows : aliasDb'.rows[id] = aliasDb.rows[id]
    BY <1>1, <1>2, InsertedOK DEF AliasInv
  <1>4. AliasStart'
    BY <1>2, <1>3, <1>t DEF AliasInv, AliasStart
  <1>5. aliasDb.sequence \in Nat /\ screen.id \in 0..aliasDb.sequence
    BY DEF AliasInv, AliasTable, ScreenOK
  <1>6. ScreenOK'
    BY <1>2, <1>3, <1>5 DEF AliasInv, ScreenOK
  <1>7. DeletedStaysDeleted'
    <2>1. CASE start = "aliases"
      <3>1. told'.gone = {}
        BY <1>t, <2>1 DEF AliasInv, AliasStart
      <3> QED
        BY <3>1 DEF DeletedStaysDeleted
    <2>2. CASE start = "aliases_unread"
      <3>1. told'.gone = told.gone /\ told'.back = told.back \cup {name}
        BY <1>t, <2>2
      <3>2. NamesIn(aliasDb'.rows) = NamesIn(aliasDb.rows) \cup {name}
        BY <1>3 DEF NamesIn
      <3> QED
        BY <3>1, <3>2 DEF AliasInv, DeletedStaysDeleted
    <2> QED
      BY <1>2, <2>1, <2>2
  <1>8. MapOK'
    BY <1>2 DEF MapOK
  <1> QED
    BY <1>3, <1>4, <1>6, <1>7, <1>8 DEF AliasInv

\* create_model_alias
LEMMA UpsertStep ==
  ASSUME AliasInv, NEW name, NEW target, NEW enabled \in BOOLEAN,
         UpsertAlias(name, target, enabled)
  PROVE  AliasInv'
  <1> DEFINE row == AliasRow(name, target, enabled)
  <1>1. /\ DOMAIN row = {"name", "target", "enabled"} /\ row.enabled \in BOOLEAN
        /\ row.name = name
    BY DEF AliasRow
  <1>2. /\ Up /\ UNCHANGED <<start, aliasMap, screen>>
        /\ told' = [gone |-> told.gone \ {name}, back |-> told.back \ {name}, edited |-> TRUE]
        /\ IF name \in NamesIn(aliasDb.rows)
           THEN aliasDb' = [aliasDb EXCEPT !.rows[IdOf(name)] = row]
           ELSE aliasDb' = Inserted(row)
    BY DEF UpsertAlias
  <1> HIDE DEF row
  <1>3. /\ aliasDb.version = 2 /\ aliasDb.sequence \in Nat /\ screen.id \in 0..aliasDb.sequence
        /\ RowsOK(aliasDb.rows, aliasDb.sequence)
    BY <1>2 DEF AliasInv, AliasTable, AliasStart, ScreenOK, Up
  <1>4. MapOK'
    BY <1>2 DEF MapOK
  <1>5. CASE name \in NamesIn(aliasDb.rows)
    <2> DEFINE n == IdOf(name)
               new == [aliasDb.rows EXCEPT ![n] = row]
    <2>1. n \in DOMAIN aliasDb.rows /\ aliasDb.rows[n].name = name
      BY <1>5 DEF IdOf, NamesIn
    <2>2. aliasDb' = [version |-> aliasDb.version, rows |-> new,
                      sequence |-> aliasDb.sequence]
      BY <1>2, <1>5 DEF AliasInv, AliasTable
    <2>3. /\ DOMAIN new = DOMAIN aliasDb.rows /\ new[n] = row
          /\ \A id \in DOMAIN aliasDb.rows \ {n} : new[id] = aliasDb.rows[id]
          /\ new = [id \in DOMAIN new |-> new[id]]
      BY <1>3, <2>1 DEF RowsOK
    <2> HIDE DEF n, new
    <2>4. \A id \in DOMAIN new : new[id].name = aliasDb.rows[id].name
      BY <1>1, <2>1, <2>3
    <2>5. RowsOK(new, aliasDb.sequence)
      BY <1>1, <1>3, <2>3, <2>4 DEF RowsOK
    <2>6. AliasTable'
      BY <1>3, <2>2, <2>5 DEF AliasInv, AliasTable
    <2>7. AliasStart'
      BY <1>2, <1>3, <2>2 DEF AliasInv, AliasStart
    <2>8. ScreenOK'
      BY <1>2, <1>3, <2>2, <2>3, <2>4 DEF AliasInv, ScreenOK
    <2>9. DeletedStaysDeleted'
      BY <1>2, <2>2, <2>3, <2>4 DEF AliasInv, DeletedStaysDeleted, NamesIn
    <2> QED
      BY <1>4, <2>6, <2>7, <2>8, <2>9 DEF AliasInv
  <1>6. CASE name \notin NamesIn(aliasDb.rows)
    <2>1. /\ AliasTable' /\ aliasDb'.version = aliasDb.version
          /\ aliasDb'.sequence = aliasDb.sequence + 1
          /\ DOMAIN aliasDb'.rows = DOMAIN aliasDb.rows \cup {aliasDb.sequence + 1}
          /\ aliasDb'.rows[aliasDb.sequence + 1] = row
          /\ \A id \in DOMAIN aliasDb.rows : aliasDb'.rows[id] = aliasDb.rows[id]
      BY <1>1, <1>2, <1>6, InsertedOK DEF AliasInv
    <2>2. AliasStart'
      BY <1>2, <1>3, <2>1 DEF AliasInv, AliasStart
    <2>3. ScreenOK'
      BY <1>2, <1>3, <2>1 DEF AliasInv, ScreenOK
    <2>4. DeletedStaysDeleted'
      BY <1>1, <1>2, <2>1 DEF AliasInv, DeletedStaysDeleted, NamesIn
    <2> QED
      BY <1>4, <2>1, <2>2, <2>3, <2>4 DEF AliasInv
  <1> QED
    BY <1>5, <1>6

\* delete_model_alias_handler
LEMMA DeleteStep ==
  ASSUME AliasInv, NEW n, DeleteAlias(n), n \in DOMAIN aliasDb.rows
  PROVE  AliasInv' /\ DOMAIN aliasDb'.rows = DOMAIN aliasDb.rows \ {n}
  <1> DEFINE new == Restrict(aliasDb.rows, DOMAIN aliasDb.rows \ {n})
  <1>1. /\ Up /\ UNCHANGED <<start, aliasMap, screen>>
        /\ told' = [gone |-> told.gone \cup {aliasDb.rows[n].name},
                    back |-> told.back \ {aliasDb.rows[n].name}, edited |-> TRUE]
        /\ aliasDb' = [version |-> aliasDb.version, rows |-> new,
                       sequence |-> aliasDb.sequence]
    BY DEF DeleteAlias, AliasInv, AliasTable
  <1>2. /\ DOMAIN new = DOMAIN aliasDb.rows \ {n}
        /\ \A id \in DOMAIN new : new[id] = aliasDb.rows[id]
        /\ new = [id \in DOMAIN new |-> new[id]]
    BY DEF Restrict
  <1> HIDE DEF new
  <1>3. /\ aliasDb.version = 2 /\ aliasDb.sequence \in Nat
        /\ RowsOK(aliasDb.rows, aliasDb.sequence)
    BY <1>1 DEF AliasInv, AliasTable, AliasStart, Up
  <1>4. RowsOK(new, aliasDb.sequence)
    BY <1>2, <1>3 DEF RowsOK
  <1>5. AliasTable'
    BY <1>1, <1>3, <1>4 DEF AliasTable
  <1>6. AliasStart'
    BY <1>1, <1>3 DEF AliasInv, AliasStart
  <1>7. ScreenOK'
    BY <1>1, <1>2 DEF AliasInv, ScreenOK
  <1>8. DeletedStaysDeleted'
    <2>1. ASSUME NEW id \in DOMAIN new PROVE new[id].name # aliasDb.rows[n].name
      BY <1>2, <1>3 DEF RowsOK
    <2> QED
      BY <1>1, <1>2, <2>1 DEF AliasInv, DeletedStaysDeleted, NamesIn
  <1> QED
    BY <1>1, <1>2, <1>5, <1>6, <1>7, <1>8 DEF AliasInv, MapOK

\* The aliases' own steps, the others', and those of neither.
LEMMA AliasStep == AliasInv /\ [Next]_vars => AliasInv'
  <1> SUFFICES ASSUME AliasInv, [Next]_vars PROVE AliasInv'
    OBVIOUS
  <1>1. CASE UNCHANGED aliasVars
    BY <1>1 DEF aliasVars, AliasInv, AliasTable, RowsOK, AliasStart, ScreenOK, MapOK,
                DeletedStaysDeleted
  <1>2. CASE ReadUserVersion \/ UserVersionUnread \/ BuiltInDone
    <2>1. /\ UNCHANGED <<aliasDb, aliasMap, screen, told>>
          /\ start' \in {"aliases", "aliases_unread", "version"}
          /\ start' = "aliases" => aliasDb.version < 2
      BY <1>2 DEF ReadUserVersion, UserVersionUnread, BuiltInDone, Behind
    <2> QED
      BY <2>1 DEF AliasInv, AliasTable, RowsOK, AliasStart, ScreenOK, MapOK,
                  DeletedStaysDeleted
  <1>3. CASE SetUserVersion
    <2>1. /\ aliasDb' = [version |-> 2, rows |-> aliasDb.rows, sequence |-> aliasDb.sequence]
          /\ start' = "list" /\ UNCHANGED <<aliasMap, screen, told>>
      BY <1>3 DEF SetUserVersion, AliasInv, AliasTable
    <2> QED
      BY <2>1 DEF AliasInv, AliasTable, AliasStart, ScreenOK, MapOK, DeletedStaysDeleted
  <1>4. CASE BuildAliasMap
    <2>1. /\ start = "list" /\ start' = "up" /\ aliasMap' = MapOf(aliasDb.rows)
          /\ told' = [gone |-> told.gone, back |-> told.back, edited |-> FALSE]
          /\ UNCHANGED <<aliasDb, screen>>
      BY <1>4 DEF BuildAliasMap, AliasInv, AliasStart
    <2> QED
      BY <2>1 DEF AliasInv, AliasTable, AliasStart, ScreenOK, MapOK, DeletedStaysDeleted
  <1>5. CASE AliasListFails
    BY <1>5 DEF AliasListFails, AliasInv, AliasTable, AliasStart, ScreenOK, MapOK,
                DeletedStaysDeleted
  <1>6. ASSUME NEW id \in 1..MaxId, PickAlias(id) PROVE AliasInv'
    <2>1. /\ id \in DOMAIN aliasDb.rows /\ screen' = [id |-> id, name |-> aliasDb.rows[id].name]
          /\ UNCHANGED <<aliasDb, start, aliasMap, told>>
      BY <1>6 DEF PickAlias
    <2>2. ScreenOK'
      BY <2>1 DEF AliasInv, AliasTable, RowsOK, ScreenOK
    <2> QED
      BY <2>1, <2>2 DEF AliasInv, AliasTable, AliasStart, MapOK, DeletedStaysDeleted
  <1>7. CASE DeleteAlias(screen.id)
    <2>1. CASE screen.id \in DOMAIN aliasDb.rows
      BY <1>7, <2>1, DeleteStep
    <2>2. CASE screen.id \notin DOMAIN aliasDb.rows
      BY <1>1, <1>7, <2>2 DEF DeleteAlias, aliasVars
    <2> QED
      BY <2>1, <2>2
  <1>8. CASE Crash
    BY <1>8 DEF Crash, Restart, AliasInv, AliasTable, AliasStart, ScreenOK, MapOK,
                DeletedStaysDeleted
  <1>9. CASE AliasNext
    BY <1>2, <1>3, <1>4, <1>5, <1>6, <1>7, <1>9, InsertStep, UpsertStep DEF AliasNext
  <1> QED
    BY <1>1, <1>8, <1>9 DEF Next, vars

LEMMA AliasInvariant == Spec => []AliasInv
  BY AliasInitOK, AliasStep, PTL DEF Spec

\* Migration 002 and delete_model_alias_handler: an alias that was deleted, built in
\* or not, is brought back by no restart and by no crash inside the migration, only
\* by a migration that took a version it could not read for 0.
THEOREM DeletedForGood == Spec => []DeletedStaysDeleted
  <1>1. AliasInv => DeletedStaysDeleted
    BY DEF AliasInv
  <1> QED
    BY <1>1, AliasInvariant, PTL

\* AUTOINCREMENT: a DELETE that comes late, or again, removes the alias that was on
\* the screen or none.
THEOREM PickedIsDeleted == Spec => DeletesWhatWasPicked
  <1> DEFINE Removes == \A id \in DOMAIN aliasDb.rows \ DOMAIN aliasDb'.rows :
                          screen.id = id /\ aliasDb.rows[id].name = screen.name
  <1>1. AliasInv /\ [Next]_vars => [Removes]_aliasVars
    <2> SUFFICES ASSUME AliasInv, [Next]_vars, NEW id \in DOMAIN aliasDb.rows,
                        id \notin DOMAIN aliasDb'.rows
                 PROVE  screen.id = id /\ aliasDb.rows[id].name = screen.name
      OBVIOUS
    <2>1. CASE UNCHANGED aliasDb
      BY <2>1
    <2>2. ASSUME NEW row, DOMAIN row = {"name", "target", "enabled"}, row.enabled \in BOOLEAN,
                 row.name \notin NamesIn(aliasDb.rows), aliasDb' = Inserted(row)
          PROVE  FALSE
      BY <2>2, InsertedOK DEF AliasInv
    <2>3. ASSUME NEW name \in BuiltIn, InsertBuiltIn(name) PROVE FALSE
      BY <2>2, <2>3 DEF InsertBuiltIn, AliasRow
    <2>4. ASSUME NEW name \in AliasNames, NEW target \in Targets, NEW enabled \in BOOLEAN,
                 UpsertAlias(name, target, enabled)
          PROVE  FALSE
      <3> DEFINE row == AliasRow(name, target, enabled)
      <3>1. CASE name \in NamesIn(aliasDb.rows)
        <4>1. aliasDb' = [aliasDb EXCEPT !.rows[IdOf(name)] = row]
          BY <2>4, <3>1 DEF UpsertAlias
        <4>2. aliasDb'.rows = [aliasDb.rows EXCEPT ![IdOf(name)] = row]
          BY <4>1 DEF AliasInv, AliasTable
        <4> QED
          BY <4>2
      <3>2. CASE name \notin NamesIn(aliasDb.rows)
        <4>1. aliasDb' = Inserted(row)
          BY <2>4, <3>2 DEF UpsertAlias
        <4> QED
          BY <2>2, <3>2, <4>1 DEF AliasRow
      <3> QED
        BY <3>1, <3>2
    <2>5. CASE SetUserVersion
      <3>1. aliasDb'.rows = aliasDb.rows
        BY <2>5 DEF SetUserVersion, AliasInv, AliasTable
      <3> QED
        BY <3>1
    <2>6. CASE DeleteAlias(screen.id)
      <3>1. CASE screen.id \in DOMAIN aliasDb.rows
        BY <2>6, <3>1, DeleteStep DEF AliasInv, ScreenOK
      <3>2. CASE screen.id \notin DOMAIN aliasDb.rows
        BY <2>1, <2>6, <3>2 DEF DeleteAlias
      <3> QED
        BY <3>1, <3>2
    <2>7. CASE AliasNext
      BY <2>1, <2>3, <2>4, <2>5, <2>6, <2>7
         DEF AliasNext, ReadUserVersion, UserVersionUnread, BuiltInDone, BuildAliasMap,
             AliasListFails, PickAlias
    <2> QED
      BY <2>1, <2>7 DEF Next, vars, aliasVars, Crash, Restart
  <1> QED
    BY <1>1, AliasInvariant, PTL DEF Spec, DeletesWhatWasPicked

\* main.rs builds the alias map of the enabled rows: the proxy applies exactly those
\* until the table is edited.
THEOREM MapOfTheTable == Spec => []MapIsTable
  <1>1. AliasInv => MapIsTable
    <2> SUFFICES ASSUME AliasInv, start = "up", ~told.edited PROVE MapIsTable
      BY DEF MapIsTable
    <2> DEFINE rows == aliasDb.rows
               on == {id \in DOMAIN rows : rows[id].enabled}
               Row(name) == CHOOSE id \in on : rows[id].name = name
    <2>1. aliasMap = [name \in {rows[id].name : id \in on} |-> rows[Row(name)].target]
      BY DEF AliasInv, MapOK, MapOf
    <2>2. \A i, j \in DOMAIN rows : rows[i].name = rows[j].name => i = j
      BY DEF AliasInv, AliasTable, RowsOK
    <2>3. \A id \in on : Row(rows[id].name) = id
      BY <2>2
    <2>4. DOMAIN aliasMap = {rows[id].name : id \in on}
      BY <2>1
    <2>5. ASSUME NEW id \in DOMAIN rows
          PROVE  /\ rows[id].enabled <=> rows[id].name \in DOMAIN aliasMap
                 /\ rows[id].enabled => aliasMap[rows[id].name] = rows[id].target
      <3>1. rows[id].enabled => id \in on
        OBVIOUS
      <3>2. rows[id].name \in DOMAIN aliasMap => rows[id].enabled
        BY <2>2, <2>4
      <3>3. id \in on => aliasMap[rows[id].name] = rows[id].target
        BY <2>1, <2>3
      <3> QED
        BY <2>4, <3>1, <3>2, <3>3
    <2>6. DOMAIN aliasMap \subseteq NamesIn(rows)
      BY <2>4 DEF NamesIn
    <2> HIDE DEF Row, on
    <2> QED
      BY <2>5, <2>6 DEF MapIsTable
  <1> QED
    BY <1>1, AliasInvariant, PTL

-----------------------------------------------------------------------------
(* The route *)

\* A set of naturals that is not empty has a least element.
LEMMA LeastOf ==
  ASSUME NEW S \in SUBSET Nat, S # {}
  PROVE  \E i \in S : \A j \in S : i <= j
  <1> DEFINE R == OpToRel(<, Nat)
  <1>1. PICK i \in S : \A j \in S : ~(<<j, i>> \in R)
    BY NatLessThanWellFounded, WFMin
  <1>2. \A j \in S : ~(j < i)
    BY <1>1 DEF OpToRel
  <1> QED
    BY <1>2

\* The first entry in a set of protocols is in it, if there is one.
LEMMA FirstEntryIn ==
  ASSUME NEW protocols \in Seq([protocol : STRING, has_url : BOOLEAN]), NEW ps,
         \E p \in ps : Supports(protocols, p)
  PROVE  FirstEntry(protocols, ps).protocol \in ps
  <1> DEFINE S == {i \in DOMAIN protocols : protocols[i].protocol \in ps}
  <1>1. S \in SUBSET Nat /\ S # {}
    BY DEF Supports
  <1>2. PICK i \in S : \A j \in S : i <= j
    BY <1>1, LeastOf
  <1>3. \E k \in DOMAIN protocols : /\ protocols[k].protocol \in ps
                                    /\ \A j \in DOMAIN protocols :
                                         protocols[j].protocol \in ps => k <= j
    BY <1>2
  <1> QED
    BY <1>3 DEF FirstEntry

\* resolve_target_protocol, the mapping's constraint and resolve_upstream_url: what
\* they agree on is a known protocol that the channel has a URL for and the mapping
\* allows.
LEMMA RouteOK ==
  ASSUME NEW route \in Routes, NEW client, NEW target,
         target = ResolveRoute(route.force, client, route.protocols, route.allowed),
         target # Error
  PROVE  /\ target \in ApiFormats /\ HasUpstreamUrl(target, route.protocols)
         /\ route.allowed # {} => target \in route.allowed
  <1> DEFINE ps == route.protocols
             wanted == ResolveTargetProtocol(route.force, client, ps)
             chosen == ApplyMappingConstraint(wanted, ps, route.allowed)
  <1>1. wanted \in ApiFormats \cup {Error}
    BY DEF ResolveTargetProtocol, ParseProtocol
  <1>2. target = chosen /\ HasUpstreamUrl(target, ps)
    BY DEF ResolveRoute
  <1> HIDE DEF wanted
  <1>3. chosen # Error => chosen \in ApiFormats
    BY <1>1 DEF ApplyMappingConstraint, ParseProtocol
  <1>4. ASSUME route.allowed # {} PROVE target \in route.allowed
    <2>1. CASE wanted \in route.allowed
      BY <1>2, <2>1 DEF ApplyMappingConstraint
    <2>2. CASE wanted \notin route.allowed
      <3>1. /\ \E p \in route.allowed : Supports(ps, p)
            /\ target = ParseProtocol(FirstEntry(ps, route.allowed).protocol)
        BY <1>2, <1>4, <2>2 DEF ApplyMappingConstraint
      <3> QED
        BY <3>1, FirstEntryIn, PipelineAssumption DEF ParseProtocol
    <2> QED
      BY <2>1, <2>2
  <1> QED
    BY <1>2, <1>3, <1>4

\* Where the chain goes on from each middleware.
LEMMA ChainOrder ==
  /\ Onward("compress") = <<"on_request", "model_alias">>
  /\ Onward("model_alias") = <<"on_request", "model_router">>
  /\ Onward("model_router") = <<"on_request", "bridge">>
  /\ Onward("bridge") = At("forward")
  /\ Back("bridge") = <<"on_response", "model_router">>
  /\ Back("model_router") = <<"on_response", "model_alias">>
  /\ Back("model_alias") = <<"on_response", "compress">>
  /\ Back("compress") = At("record_cost")
  /\ Chain[1] = "compress" /\ Chain[Len(Chain)] = "bridge"
  /\ \A i \in DOMAIN Chain : Chain[i] \in {"compress", "model_alias", "model_router", "bridge"}
  <1>1. DOMAIN Chain = 1..4 /\ Len(Chain) = 4
    BY DEF Chain
  <1>2. /\ Chain[1] = "compress" /\ Chain[2] = "model_alias"
        /\ Chain[3] = "model_router" /\ Chain[4] = "bridge"
    BY DEF Chain
  <1>3. \A i \in 1..4 : i = 1 \/ i = 2 \/ i = 3 \/ i = 4
    OBVIOUS
  <1>4. /\ Position("compress") = 1 /\ Position("model_alias") = 2
        /\ Position("model_router") = 3 /\ Position("bridge") = 4
    BY <1>1, <1>2, <1>3 DEF Position
  <1> QED
    BY <1>1, <1>2, <1>3, <1>4 DEF Onward, Back

\* ConversionDirection::resolve and the transforms: for every pair of formats but
\* one the request arrives in the upstream's format and the answer in the client's.
LEMMA Transforms ==
  ASSUME NEW client \in ApiFormats, NEW upstream \in ApiFormats, client # upstream
  PROVE  /\ Resolve(client, upstream) # "Passthrough"
         /\ ~(client = Chat /\ upstream = Responses) =>
              /\ client \in RequestTransform(Resolve(client, upstream)).reads
              /\ RequestTransform(Resolve(client, upstream)).writes = upstream
              /\ upstream \in ResponseTransform(Resolve(upstream, client)).reads
              /\ ResponseTransform(Resolve(upstream, client)).writes = client
  <1>f. /\ client \in {Anthropic, Chat, Responses} /\ upstream \in {Anthropic, Chat, Responses}
        /\ Anthropic # Chat /\ Anthropic # Responses /\ Chat # Responses
    BY DEF ApiFormats, Anthropic, Chat, Responses
  <1>1. CASE client = Anthropic /\ upstream = Chat
    <2>1. /\ Resolve(client, upstream) = "AnthropicToOpenai"
          /\ Resolve(upstream, client) = "OpenaiToAnthropic"
      BY <1>1, <1>f DEF Resolve
    <2> QED
      BY <1>1, <2>1 DEF RequestTransform, ResponseTransform
  <1>2. CASE client = Anthropic /\ upstream = Responses
    <2>1. /\ Resolve(client, upstream) = "AnthropicToResponses"
          /\ Resolve(upstream, client) = "ResponsesToAnthropic"
      BY <1>2, <1>f DEF Resolve
    <2> QED
      BY <1>2, <2>1 DEF RequestTransform, ResponseTransform
  <1>3. CASE client = Chat /\ upstream = Anthropic
    <2>1. /\ Resolve(client, upstream) = "OpenaiToAnthropic"
          /\ Resolve(upstream, client) = "AnthropicToOpenai"
      BY <1>3, <1>f DEF Resolve
    <2> QED
      BY <1>3, <2>1 DEF RequestTransform, ResponseTransform
  <1>4. CASE client = Responses /\ upstream = Anthropic
    <2>1. /\ Resolve(client, upstream) = "ResponsesToAnthropic"
          /\ Resolve(upstream, client) = "AnthropicToResponses"
      BY <1>4, <1>f DEF Resolve
    <2> QED
      BY <1>4, <2>1 DEF RequestTransform, ResponseTransform
  <1>5. CASE client = Responses /\ upstream = Chat
    <2>1. /\ Resolve(client, upstream) = "ResponsesToOpenai"
          /\ Resolve(upstream, client) = "ResponsesToOpenai"
      BY <1>5, <1>f DEF Resolve
    <2> QED
      BY <1>5, <2>1 DEF RequestTransform, ResponseTransform
  <1>6. CASE client = Chat /\ upstream = Responses
    <2>1. Resolve(client, upstream) = "ResponsesToOpenai"
      BY <1>6, <1>f DEF Resolve
    <2> QED
      BY <1>6, <2>1
  <1> QED
    BY <1>1, <1>2, <1>3, <1>4, <1>5, <1>6, <1>f

-----------------------------------------------------------------------------
(* The inductive invariant of the pipeline *)

OnRequest == {<<"on_request", "compress">>, <<"on_request", "model_alias">>,
              <<"on_request", "model_router">>, <<"on_request", "bridge">>}

\* After the bridge's on_response, until the answer.
Returning == {<<"on_response", "model_router">>, <<"on_response", "model_alias">>,
               <<"on_response", "compress">>, At("record_cost")}

OnResponse == {<<"on_response", "bridge">>} \cup Returning

ContextTyped ==
  ctx \in [client : ApiFormats \cup {NoProtocol}, streaming : BOOLEAN, body : {ctx.body},
           model : {ctx.model}, target : ApiFormats \cup {NoProtocol}, reverse : BOOLEAN,
           route : Routes \cup {NoRoute}]

ResponseTyped ==
  res \in [from : {"none", "proxy", "upstream"}, status : Statuses, body : {res.body},
           error : BOOLEAN, report : {res.report}]

LedgerTyped ==
  ledger \in [status : Statuses \cup {"none"}, body : {ledger.body},
              health : Statuses \cup {"none"}, quota : {"none", "tokens", "request"},
              cost : {"none", "row"}, usage : {ledger.usage}, metered : {ledger.metered},
              names : {ledger.names}, lost : {ledger.lost}]

Places == {At("idle"), At("forward"), At("answered")} \cup OnRequest \cup OnResponse

PlacesTyped == pc \in Places

\* The request as the client sent it, until the bridge.
AsSent == ctx.client \in ApiFormats /\ ctx.body = ctx.client /\ ~ctx.reverse

\* What the router promises of the route it chose.
Routed ==
  /\ ctx.client \in ApiFormats /\ ctx.target \in ApiFormats /\ ctx.model = "upstream"
  /\ HasUpstreamUrl(ctx.target, ctx.route.protocols)
  /\ ctx.route.allowed # {} => ctx.target \in ctx.route.allowed

\* What the bridge left: the body in the target's format, marked if it was converted.
Bridged ==
  /\ ctx.reverse <=> ctx.client # ctx.target
  /\ ChatToResponses \/ ctx.body = ctx.target

RequestInv ==
  /\ pc \in OnRequest => AsSent
  /\ pc \in {<<"on_request", "bridge">>, At("forward")} \cup OnResponse => Routed
  /\ pc \in {At("forward")} \cup OnResponse => Bridged
  /\ pc \in {At("idle"), At("forward")} \cup OnRequest => ledger.body = "none"

\* The answer as the upstream gave it, before the bridge sees it.
AsAnswered ==
  /\ res.from = "upstream" /\ res.body = ledger.body /\ res.status = ledger.status
  /\ IF res.status = "ok" THEN res.body = ctx.target
     ELSE res.body \in ErrorBodies /\ (res.body = ErrorJson => res.error)

\* The answer on its way to the client.
ForClient ==
  /\ res.from = "upstream" /\ res.status = ledger.status
  /\ res.status = "ok" =>
       ChatToResponses \/ res.body = IF res.error THEN ctx.target ELSE ctx.client
  /\ ledger.body = ErrorJson => res.body = ErrorJson

\* The router has seen the answer.
Noted ==
  /\ ledger.health = ledger.status
  /\ ctx.route.flat_fee => ledger.quota # "none"

ResponseInv ==
  /\ pc = <<"on_response", "bridge">> => AsAnswered
  /\ pc \in Returning => ForClient
  /\ pc \in Returning \ {<<"on_response", "model_router">>} => Noted
  /\ pc = At("answered") => \/ res.from = "proxy" /\ ledger.body # ErrorJson
                            \/ ForClient /\ Noted

PipelineInv == /\ ContextTyped /\ ResponseTyped /\ LedgerTyped /\ PlacesTyped
               /\ RequestInv /\ ResponseInv

-----------------------------------------------------------------------------
(* Steps of the pipeline *)

\* Every stage is one of its own.
LEMMA PlacesApart ==
  /\ At("idle") \notin OnRequest \cup OnResponse /\ At("forward") \notin OnRequest \cup OnResponse
  /\ At("answered") \notin OnRequest \cup OnResponse /\ OnRequest \cap OnResponse = {}
  /\ <<"on_response", "bridge">> \notin Returning
  /\ At("idle") # At("forward") /\ At("idle") # At("answered") /\ At("forward") # At("answered")
  BY DEF At, OnRequest, OnResponse, Returning

\* Nothing is in progress: at the start, after an answer, after a crash.
Resting == pc = At("idle") /\ ctx = NoContext /\ res = NoResponse /\ ledger = EmptyLedger

LEMMA AtRest == Resting => PipelineInv
  <1> SUFFICES ASSUME Resting PROVE PipelineInv
    OBVIOUS
  <1> USE DEF Resting
  <1>1. ContextTyped /\ ResponseTyped /\ LedgerTyped
    BY DEF ContextTyped, ResponseTyped, LedgerTyped, NoContext, NoResponse, EmptyLedger,
           Statuses
  <1>2. ledger.body = "none" /\ PlacesTyped
    BY DEF EmptyLedger, Places, PlacesTyped
  <1>p. /\ pc \notin OnRequest \cup OnResponse /\ pc \notin {At("forward"), At("answered")}
        /\ pc # <<"on_response", "bridge">> /\ pc # <<"on_request", "bridge">>
        /\ pc \notin Returning
    BY PlacesApart DEF OnResponse, OnRequest
  <1>3. RequestInv /\ ResponseInv
    BY <1>2, <1>p DEF RequestInv, ResponseInv
  <1> QED
    BY <1>1, <1>2, <1>3 DEF PipelineInv

\* The request is aborted, before any JSON error came from the upstream.
LEMMA AbortStep ==
  ASSUME PipelineInv, Abort, UNCHANGED <<ctx, ledger>>, ledger.body # ErrorJson
  PROVE  PipelineInv'
  <1>1. /\ pc' = At("answered") /\ res'.from = "proxy"
        /\ res' \in [from : {"none", "proxy", "upstream"}, status : Statuses, body : {res'.body},
                     error : BOOLEAN, report : {res'.report}]
    BY DEF Abort, NoResponse, Statuses
  <1>2. ContextTyped' /\ LedgerTyped' /\ ResponseTyped'
    BY <1>1 DEF PipelineInv, ContextTyped, LedgerTyped, ResponseTyped
  <1>3. PlacesTyped'
    BY <1>1 DEF Places, PlacesTyped
  <1>p. /\ pc' \notin OnRequest \cup OnResponse /\ pc' \notin {At("forward"), At("idle")}
        /\ pc' # <<"on_response", "bridge">> /\ pc' # <<"on_request", "bridge">>
        /\ pc' \notin Returning
    BY <1>1, PlacesApart DEF OnResponse, OnRequest
  <1>4. RequestInv' /\ ResponseInv'
    BY <1>1, <1>p DEF RequestInv, ResponseInv
  <1> QED
    BY <1>2, <1>3, <1>4 DEF PipelineInv

\* The steps of the request, up to the bridge.
LEMMA RequestSteps ==
  ASSUME PipelineInv,
         \/ RejectRequest \/ RefuseRequest \/ CompressRequest \/ AliasModel
         \/ \E client \in Clients, streaming \in BOOLEAN, model \in Models :
              AcceptRequest(client, streaming, model)
         \/ \E route \in Routes : RouteRequest(route)
         \/ UpstreamUnreachable
  PROVE  PipelineInv'
  <1>e. ErrorJson # "none"
    BY DEF ErrorJson
  <1>1. CASE RejectRequest \/ RefuseRequest \/ UpstreamUnreachable
    <2>1. pc \in {At("idle"), At("forward")} \cup OnRequest
      BY <1>1, ChainOrder DEF RejectRequest, RefuseRequest, UpstreamUnreachable, OnRequestOf,
                              OnRequest
    <2>2. ledger.body = "none" /\ Abort /\ UNCHANGED <<ctx, ledger>>
      BY <1>1, <2>1 DEF PipelineInv, RequestInv, RejectRequest, RefuseRequest,
                        UpstreamUnreachable
    <2> QED
      BY <1>e, <2>2, AbortStep
  <1>2. ASSUME NEW client \in Clients, NEW streaming \in BOOLEAN, NEW model \in Models,
               AcceptRequest(client, streaming, model)
        PROVE  PipelineInv'
    <2>1. /\ pc = At("idle") /\ pc' = <<"on_request", "compress">> /\ UNCHANGED <<res, ledger>>
          /\ ctx' = [NoContext EXCEPT !.client = client, !.streaming = streaming,
                                      !.body = client, !.model = model]
      BY <1>2, ChainOrder DEF AcceptRequest
    <2>2. /\ ctx' = [client |-> client, streaming |-> streaming, body |-> client,
                     model |-> model, target |-> NoProtocol, reverse |-> FALSE,
                     route |-> NoRoute]
      BY <2>1 DEF NoContext
    <2>0. client \in ApiFormats
      BY PipelineAssumption
    <2>c. ContextTyped'
      BY <2>0, <2>2 DEF ContextTyped
    <2>3. ContextTyped' /\ ResponseTyped' /\ LedgerTyped'
      BY <2>1, <2>c DEF PipelineInv, ResponseTyped, LedgerTyped
    <2>a. AsSent'
      BY <2>0, <2>2 DEF AsSent
    <2>4. AsSent' /\ ledger'.body = "none"
      BY <2>1, <2>a DEF PipelineInv, RequestInv
    <2>5. PlacesTyped' /\ RequestInv' /\ ResponseInv'
      BY <2>1, <2>4, PlacesApart DEF Places, PlacesTyped, RequestInv, ResponseInv, OnRequest,
                                     OnResponse, Returning, At
    <2> QED
      BY <2>3, <2>5 DEF PipelineInv
  <1>3. CASE CompressRequest \/ AliasModel
    <2>1. /\ pc \in OnRequest
          /\ pc' \in {<<"on_request", "model_alias">>, <<"on_request", "model_router">>}
          /\ UNCHANGED <<res, ledger>>
      BY <1>3, ChainOrder DEF CompressRequest, AliasModel, OnRequestOf, OnRequest
    <2>2. ContextTyped' /\ ctx'.client = ctx.client /\ ctx'.body = ctx.body
          /\ ctx'.reverse = ctx.reverse
      BY <1>3 DEF CompressRequest, AliasModel, PipelineInv, ContextTyped
    <2>3. ResponseTyped' /\ LedgerTyped'
      BY <2>1 DEF PipelineInv, ResponseTyped, LedgerTyped
    <2>4. AsSent' /\ ledger'.body = "none"
      BY <2>1, <2>2 DEF PipelineInv, RequestInv, AsSent
    <2>5. PlacesTyped' /\ RequestInv' /\ ResponseInv'
      BY <2>1, <2>4, PlacesApart DEF Places, PlacesTyped, RequestInv, ResponseInv, OnRequest,
                                     OnResponse, Returning, At
    <2> QED
      BY <2>2, <2>3, <2>5 DEF PipelineInv
  <1>4. ASSUME NEW route \in Routes, RouteRequest(route) PROVE PipelineInv'
    <2> DEFINE target == ResolveRoute(route.force, ctx.client, route.protocols, route.allowed)
    <2>1. /\ pc = <<"on_request", "model_router">> /\ pc \in OnRequest /\ UNCHANGED ledger
          /\ IF target = Error
             THEN Abort /\ UNCHANGED ctx
             ELSE /\ ctx' = [ctx EXCEPT !.model = "upstream", !.target = target,
                                        !.route = route]
                  /\ pc' = <<"on_request", "bridge">> /\ UNCHANGED res
      BY <1>4, ChainOrder DEF RouteRequest, OnRequestOf, OnRequest
    <2>2. ledger.body = "none" /\ AsSent
      BY <2>1 DEF PipelineInv, RequestInv
    <2>3. CASE target = Error
      BY <1>e, <2>1, <2>2, <2>3, AbortStep
    <2>4. CASE target # Error
      <3>1. /\ target \in ApiFormats /\ HasUpstreamUrl(target, route.protocols)
            /\ route.allowed # {} => target \in route.allowed
        BY <2>4, RouteOK
      <3> HIDE DEF target
      <3>2. /\ ContextTyped' /\ ctx'.client = ctx.client /\ ctx'.body = ctx.body
            /\ ctx'.reverse = ctx.reverse /\ ctx'.model = "upstream" /\ ctx'.target = target
            /\ ctx'.route = route
        BY <2>1, <2>4, <3>1 DEF PipelineInv, ContextTyped
      <3>3. AsSent' /\ Routed'
        BY <2>2, <3>1, <3>2 DEF AsSent, Routed
      <3>4. ResponseTyped' /\ LedgerTyped' /\ ledger'.body = "none"
        BY <2>1, <2>2, <2>4 DEF PipelineInv, ResponseTyped, LedgerTyped
      <3>5. PlacesTyped' /\ RequestInv' /\ ResponseInv'
        BY <2>1, <2>4, <3>3, <3>4, PlacesApart
           DEF Places, PlacesTyped, RequestInv, ResponseInv, OnRequest, OnResponse, Returning, At
      <3> QED
        BY <3>2, <3>4, <3>5 DEF PipelineInv
    <2> QED
      BY <2>3, <2>4
  <1> QED
    BY <1>1, <1>2, <1>3, <1>4

\* The bridge's on_request: converted and marked, or neither, or refused.
LEMMA BridgeRequestStep ==
  ASSUME PipelineInv, BridgeRequest
  PROVE  PipelineInv'
  <1> DEFINE direction == Resolve(ctx.client, ctx.target)
  <1>1. /\ pc = <<"on_request", "bridge">> /\ UNCHANGED ledger
        /\ \/ /\ direction = "Passthrough" /\ pc' = At("forward") /\ UNCHANGED <<ctx, res>>
           \/ /\ direction # "Passthrough" /\ Abort /\ UNCHANGED ctx
           \/ /\ direction # "Passthrough" /\ pc' = At("forward") /\ UNCHANGED res
              /\ \E body \in Converted(RequestTransform(direction), ctx.body) :
                   body # Error /\ ctx' = [ctx EXCEPT !.body = body, !.reverse = TRUE]
    BY ChainOrder DEF BridgeRequest, OnRequestOf
  <1>2. AsSent /\ Routed /\ ledger.body = "none"
    BY <1>1 DEF PipelineInv, RequestInv, OnRequest
  <1>3. CASE Abort /\ UNCHANGED ctx
    BY <1>1, <1>2, <1>3, AbortStep DEF ErrorJson
  <1>4. ASSUME pc' = At("forward"), UNCHANGED <<res, ledger>>, ContextTyped', Routed', Bridged'
        PROVE  PipelineInv'
    <2>1. ResponseTyped' /\ LedgerTyped'
      BY <1>4 DEF PipelineInv, ResponseTyped, LedgerTyped
    <2>2. PlacesTyped' /\ RequestInv' /\ ResponseInv'
      BY <1>2, <1>4, PlacesApart DEF Places, PlacesTyped, RequestInv, ResponseInv, OnRequest,
                                     OnResponse, Returning, At
    <2> QED
      BY <1>4, <2>1, <2>2 DEF PipelineInv
  <1>5. CASE direction = "Passthrough" /\ pc' = At("forward") /\ UNCHANGED <<ctx, res>>
    <2>1. ctx.client = ctx.target
      BY <1>2, <1>5, Transforms DEF Routed
    <2>2. ContextTyped' /\ Routed'
      BY <1>2, <1>5 DEF PipelineInv, ContextTyped, Routed
    <2>3. Bridged'
      BY <1>2, <1>5, <2>1 DEF AsSent, Bridged
    <2> QED
      BY <1>1, <1>4, <1>5, <2>2, <2>3
  <1>6. ASSUME direction # "Passthrough", pc' = At("forward"), UNCHANGED res,
               NEW body \in Converted(RequestTransform(direction), ctx.body), body # Error,
               ctx' = [ctx EXCEPT !.body = body, !.reverse = TRUE]
        PROVE  PipelineInv'
    <2>1. ctx.client # ctx.target
      BY <1>6 DEF Resolve, Anthropic, Chat, Responses
    <2>2. ChatToResponses \/ body = ctx.target
      <3>1. /\ ctx.client \in ApiFormats /\ ctx.target \in ApiFormats /\ ctx.body = ctx.client
        BY <1>2 DEF AsSent, Routed
      <3>2. ASSUME ~ChatToResponses PROVE body = ctx.target
        <4>1. /\ ctx.client \in RequestTransform(direction).reads
              /\ RequestTransform(direction).writes = ctx.target
          BY <2>1, <3>1, <3>2, Transforms DEF ChatToResponses
        <4> QED
          BY <1>6, <3>1, <4>1 DEF Converted
      <3> QED
        BY <3>2
    <2>3. /\ ContextTyped' /\ ctx'.client = ctx.client /\ ctx'.target = ctx.target
          /\ ctx'.body = body /\ ctx'.reverse = TRUE /\ ctx'.model = ctx.model
          /\ ctx'.route = ctx.route
      BY <1>6 DEF PipelineInv, ContextTyped
    <2>4. Routed'
      BY <1>2, <2>3 DEF Routed
    <2>5. Bridged'
      BY <2>1, <2>2, <2>3 DEF Bridged, ChatToResponses
    <2> QED
      BY <1>1, <1>4, <1>6, <2>3, <2>4, <2>5
  <1> QED
    BY <1>1, <1>3, <1>5, <1>6

\* The upstream's answer.
LEMMA ArriveStep ==
  ASSUME PipelineInv, NEW status \in Statuses, NEW body, NEW error \in BOOLEAN, NEW report,
         Arrives(status, body, error, report),
         IF status = "ok" THEN body = ctx.target
         ELSE body \in ErrorBodies /\ (body = ErrorJson => error)
  PROVE  PipelineInv'
  <1>1. /\ pc = At("forward") /\ pc' = <<"on_response", "bridge">> /\ UNCHANGED ctx
        /\ res' = [from |-> "upstream", status |-> status, body |-> body, error |-> error,
                   report |-> report]
        /\ ledger' = [ledger EXCEPT !.status = status, !.body = body,
                                    !.metered = report.metered, !.names = report.names]
    BY ChainOrder DEF Arrives
  <1>2. ContextTyped'
    BY <1>1 DEF PipelineInv, ContextTyped
  <1>3. ResponseTyped'
    BY <1>1 DEF ResponseTyped
  <1>4. LedgerTyped' /\ ledger'.status = status /\ ledger'.body = body
    BY <1>1 DEF PipelineInv, LedgerTyped
  <1>5. Routed' /\ Bridged'
    BY <1>1 DEF PipelineInv, RequestInv, Routed, Bridged, ChatToResponses
  <1>6. AsAnswered'
    BY <1>1, <1>4 DEF AsAnswered
  <1>7. PlacesTyped' /\ RequestInv' /\ ResponseInv'
    BY <1>1, <1>5, <1>6, PlacesApart DEF Places, PlacesTyped, RequestInv, ResponseInv,
                                         OnRequest, OnResponse, Returning, At
  <1> QED
    BY <1>2, <1>3, <1>4, <1>7 DEF PipelineInv

LEMMA AnswerStep ==
  ASSUME PipelineInv, NEW error \in BOOLEAN, NEW report \in Reports,
         UpstreamAnswers(error, report)
  PROVE  PipelineInv'
  <1>1. "ok" \in Statuses /\ Arrives("ok", ctx.target, error, report)
    BY DEF Statuses, UpstreamAnswers
  <1> QED
    BY <1>1, ArriveStep

LEMMA FailStep ==
  ASSUME PipelineInv, NEW status \in Statuses \ {"ok"}, NEW body \in ErrorBodies,
         UpstreamFails(status, body)
  PROVE  PipelineInv'
  <1>1. status # "ok" /\ Arrives(status, body, body = ErrorJson, NoReport)
    BY DEF UpstreamFails
  <1>2. (body = ErrorJson) \in BOOLEAN
    OBVIOUS
  <1> QED
    BY <1>1, <1>2, ArriveStep

\* The bridge's on_response.
LEMMA BridgeResponseStep ==
  ASSUME PipelineInv, BridgeResponse
  PROVE  PipelineInv'
  <1> DEFINE direction == Resolve(ctx.target, ctx.client)
             transform == IF ctx.streaming THEN StreamTransform(ctx.target, ctx.client)
                                           ELSE ResponseTransform(direction)
             skip == ~ctx.reverse \/ direction = "Passthrough" \/ IsUpstreamErrorBody(res)
  <1>1. /\ pc = <<"on_response", "bridge">> /\ UNCHANGED ctx
        /\ \/ /\ skip /\ pc' = <<"on_response", "model_router">> /\ UNCHANGED <<res, ledger>>
           \/ ~skip /\ Abort /\ UNCHANGED ledger
           \/ /\ ~skip
              /\ \E body \in Converted(transform, res.body) : \E report :
                   body # Error /\ ReplaceBody(body, report)
    BY ChainOrder DEF BridgeResponse, OnResponseOf
  <1>2. AsAnswered /\ Routed /\ Bridged /\ ContextTyped /\ ResponseTyped
    BY <1>1 DEF PipelineInv, RequestInv, ResponseInv, OnResponse
  <1>3. ctx.client \in ApiFormats /\ ctx.target \in ApiFormats
    BY <1>2 DEF Routed
  <1>n. ErrorJson \notin ApiFormats
    BY DEF ErrorJson, ApiFormats
  <1>4. ASSUME pc' = <<"on_response", "model_router">>, UNCHANGED ctx, LedgerTyped',
               ResponseTyped', ForClient'
        PROVE  PipelineInv'
    <2>1. ContextTyped' /\ Routed' /\ Bridged'
      BY <1>2, <1>4 DEF PipelineInv, ContextTyped, Routed, Bridged, ChatToResponses
    <2>2. PlacesTyped' /\ RequestInv' /\ ResponseInv'
      BY <1>4, <2>1, PlacesApart DEF Places, PlacesTyped, RequestInv, ResponseInv, OnRequest,
                                     OnResponse, Returning, At
    <2> QED
      BY <1>4, <2>1, <2>2 DEF PipelineInv
  <1>5. CASE skip /\ pc' = <<"on_response", "model_router">> /\ UNCHANGED <<res, ledger>>
    <2>1. ASSUME res.status = "ok"
          PROVE  res.body = IF res.error THEN ctx.target ELSE ctx.client
      <3>1. res.body = ctx.target
        BY <1>2, <2>1 DEF AsAnswered
      <3>2. ctx.target # ctx.client => direction # "Passthrough"
        BY <1>3, Transforms
      <3>3. CASE ~res.error
        BY <1>2, <1>5, <3>1, <3>2, <3>3 DEF Bridged, IsUpstreamErrorBody
      <3> QED
        BY <3>1, <3>3
    <2>2. ResponseTyped' /\ ForClient' /\ LedgerTyped'
      BY <1>1, <1>2, <1>5, <2>1
         DEF ResponseTyped, ForClient, AsAnswered, ChatToResponses, PipelineInv, LedgerTyped
    <2> QED
      BY <1>1, <1>4, <1>5, <2>2
  <1>e. ~skip => res.body # ErrorJson /\ ~res.error
    <2>1. ~skip => ~res.error
      BY DEF IsUpstreamErrorBody
    <2>2. res.body = ErrorJson => res.error
      BY <1>2, <1>3, <1>n DEF AsAnswered
    <2> QED
      BY <2>1, <2>2
  <1>6. CASE ~skip /\ Abort /\ UNCHANGED ledger
    BY <1>1, <1>2, <1>6, <1>e, AbortStep DEF AsAnswered
  <1>7. ASSUME ~skip, NEW body \in Converted(transform, res.body), body # Error, NEW report,
               ReplaceBody(body, report)
        PROVE  PipelineInv'
    <2>0. pc' = <<"on_response", "model_router">>
      BY <1>7, ChainOrder DEF ReplaceBody
    <2>1. ctx.client # ctx.target /\ res.body # ErrorJson /\ ~res.error
      BY <1>2, <1>7, <1>e DEF Bridged
    <2>2. ASSUME res.status = "ok", ~ChatToResponses PROVE body = ctx.client
      <3>1. res.body = ctx.target
        BY <1>2, <2>2 DEF AsAnswered
      <3>2. ctx.target \in transform.reads /\ transform.writes = ctx.client
        <4>1. CASE ctx.streaming
          BY <4>1 DEF StreamTransform
        <4>2. CASE ~ctx.streaming
          BY <1>3, <2>1, <2>2, <4>2, Transforms DEF ChatToResponses
        <4> QED
          BY <4>1, <4>2
      <3> QED
        BY <1>7, <3>1, <3>2 DEF Converted
    <2>3. /\ ResponseTyped' /\ res'.from = res.from /\ res'.status = res.status
          /\ res'.body = body /\ res'.error = res.error
      BY <1>2, <1>7 DEF ResponseTyped, ReplaceBody
    <2>l. LedgerTyped' /\ ledger'.status = ledger.status /\ ledger'.body = ledger.body
      BY <1>7 DEF PipelineInv, LedgerTyped, ReplaceBody
    <2>4. ForClient'
      BY <1>1, <1>2, <2>1, <2>2, <2>3, <2>l DEF ForClient, AsAnswered, ChatToResponses
    <2> QED
      BY <1>1, <1>4, <2>0, <2>3, <2>l, <2>4
  <1> QED
    BY <1>1, <1>5, <1>6, <1>7

\* The steps after the bridge's on_response, which leave the answer as it is.
LEMMA ReturnSteps ==
  ASSUME PipelineInv,
         RouterResponse \/ AliasResponse \/ CompressResponse \/ RecordCost \/ RecordCostFails
  PROVE  PipelineInv'
  <1>1. /\ UNCHANGED <<ctx, res>> /\ pc \in Returning
        /\ pc' \in {<<"on_response", "model_alias">>, <<"on_response", "compress">>,
                    At("record_cost"), At("answered")}
    BY ChainOrder DEF RouterResponse, AliasResponse, CompressResponse, RecordCost,
                      RecordCostFails, OnResponseOf, Returning
  <1>2. ForClient /\ Routed /\ Bridged /\ ContextTyped /\ ResponseTyped /\ LedgerTyped
    BY <1>1 DEF PipelineInv, RequestInv, ResponseInv, OnResponse
  <1>3. /\ LedgerTyped' /\ ledger'.status = ledger.status /\ ledger'.body = ledger.body
        /\ ledger'.health = ledger'.status
        /\ ctx.route.flat_fee => ledger'.quota # "none"
    <2>1. CASE RouterResponse
      <3>1. ledger' = [ledger EXCEPT
              !.quota = IF ~ctx.route.flat_fee THEN "none"
                        ELSE IF CountsTokens(res.body, ctx.streaming) THEN "tokens" ELSE "request",
              !.health = res.status]
        BY <2>1 DEF RouterResponse
      <3>2. res.status = ledger.status /\ res.status \in Statuses
        BY <1>2 DEF ForClient, ResponseTyped
      <3> QED
        BY <1>2, <3>1, <3>2 DEF LedgerTyped
    <2>2. CASE ~RouterResponse
      <3>1. Noted
        <4>1. pc # <<"on_response", "model_router">>
          <5>1. \/ pc = At("record_cost") \/ pc = <<"on_response", "compress">>
                \/ pc = <<"on_response", "model_alias">>
            BY <2>2 DEF AliasResponse, CompressResponse, RecordCost, RecordCostFails,
                        OnResponseOf
          <5> QED
            BY <5>1 DEF At
        <4> QED
          BY <1>1, <4>1 DEF PipelineInv, ResponseInv
      <3>2. CASE UNCHANGED ledger
        BY <1>2, <3>1, <3>2 DEF Noted, LedgerTyped
      <3>3. ASSUME NEW u, ledger' = [ledger EXCEPT !.cost = "row", !.usage = u]
            PROVE  /\ LedgerTyped' /\ ledger'.status = ledger.status
                   /\ ledger'.body = ledger.body /\ ledger'.health = ledger.health
                   /\ ledger'.quota = ledger.quota
        BY <1>2, <3>3 DEF LedgerTyped
      <3>4. ASSUME RecordCost, ledger' # ledger
            PROVE  /\ LedgerTyped' /\ ledger'.status = ledger.status
                   /\ ledger'.body = ledger.body /\ ledger'.health = ledger.health
                   /\ ledger'.quota = ledger.quota
        BY <3>3, <3>4 DEF RecordCost
      <3> QED
        BY <2>2, <3>1, <3>2, <3>4 DEF Noted, AliasResponse, CompressResponse, RecordCostFails
    <2> QED
      BY <2>1, <2>2
  <1>4. ForClient' /\ Noted' /\ Routed' /\ Bridged' /\ ContextTyped' /\ ResponseTyped'
    BY <1>1, <1>2, <1>3 DEF ForClient, Noted, Routed, Bridged, ContextTyped, ResponseTyped,
                            ChatToResponses
  <1>5. PlacesTyped'
    BY <1>1 DEF PlacesTyped, Places, OnResponse, Returning
  <1>6. RequestInv' /\ ResponseInv'
    BY <1>1, <1>4, PlacesApart DEF RequestInv, ResponseInv, OnRequest, OnResponse, Returning, At
  <1> QED
    BY <1>3, <1>4, <1>5, <1>6 DEF PipelineInv

LEMMA PipelineStep == PipelineInv /\ [Next]_vars => PipelineInv'
  <1> SUFFICES ASSUME PipelineInv, [Next]_vars PROVE PipelineInv'
    OBVIOUS
  <1>1. CASE UNCHANGED pipeline
    BY <1>1 DEF pipeline, PipelineInv, ContextTyped, ResponseTyped, LedgerTyped, PlacesTyped,
                RequestInv, ResponseInv, AsSent, Routed, Bridged, AsAnswered, ForClient, Noted,
                ChatToResponses
  <1>2. CASE Resting'
    BY <1>2, AtRest, PTL
  <1>3. CASE PipelineNext
    BY <1>2, <1>3, RequestSteps, BridgeRequestStep, AnswerStep, FailStep, BridgeResponseStep,
       ReturnSteps
       DEF PipelineNext, Done, Resting
  <1> QED
    BY <1>1, <1>2, <1>3 DEF Next, vars, Crash, Resting

LEMMA PipelineInvariant == Spec => []PipelineInv
  <1>1. Init => PipelineInv
    BY AtRest DEF Init, PipelineInit, Resting
  <1> QED
    BY <1>1, PipelineStep, PTL DEF Spec

\* on_request of the router and of the bridge: whatever the routes, what is sent is
\* in the protocol whose URL was chosen and names the upstream's model, except from
\* a Chat client to a Responses upstream, the pair convert_request has no transform
\* for.
THEOREM RequestsFit == Spec => []RequestFits
  <1>1. PipelineInv => RequestFits
    BY DEF PipelineInv, RequestInv, Routed, Bridged, UpstreamFormat, RequestFits
  <1> QED
    BY <1>1, PipelineInvariant, PTL

\* on_response of the bridge: a successful answer reaches the client in the format it
\* asked in, streaming or not, with the same exception, unless it is JSON with an
\* `error` key, of whatever value: is_upstream_error_body takes that for an error, and
\* the body stays in the upstream's format.
THEOREM AnswersFit == Spec => []AnswerFits
  <1>1. PipelineInv => AnswerFits
    BY DEF PipelineInv, ResponseInv, ForClient, AnswerFits, Delivered
  <1> QED
    BY <1>1, PipelineInvariant, PTL

\* A JSON error of the upstream passes the bridge and has reached the health map and
\* the quota when the client gets it.
THEOREM FailuresRecorded == Spec => []FailureRecorded
  <1>1. PipelineInv => FailureRecorded
    BY DEF PipelineInv, ResponseInv, ForClient, Noted, FailureRecorded, Delivered
  <1> QED
    BY <1>1, PipelineInvariant, PTL

-----------------------------------------------------------------------------
(* The usage of an answer *)

\* Induction, for a property given as a set of numbers.
LEMMA InductionSet ==
  ASSUME NEW P \in SUBSET Nat, 0 \in P, \A n \in P : n + 1 \in P
  PROVE  P = Nat
  <1> SUFFICES ASSUME Nat \ P # {} PROVE FALSE
    OBVIOUS
  <1>1. PICK i \in Nat \ P : \A j \in Nat \ P : i <= j
    BY LeastOf
  <1>2. i - 1 \in P
    BY <1>1
  <1> QED
    BY <1>1, <1>2

\* What one event makes of the accumulator.
Collect(acc, event) ==
  IF event.kind \in UsageKinds THEN merge_usage_fields(acc, event.usage) ELSE acc

\* h has the accumulator of extract_usage_from_sse after each of the first N events.
Collects(h, events, N) ==
  h = [n \in 0..N |-> IF n = 0 THEN NoUsage ELSE Collect(h[n - 1], events[n])]

LEMMA CollectsUpTo ==
  ASSUME NEW events, NEW N \in Nat
  PROVE  \E h : Collects(h, events, N)
  <1> DEFINE P == {n \in Nat : \E h : Collects(h, events, n)}
  <1>1. 0 \in P
    <2> DEFINE h == [n \in 0..0 |-> NoUsage]
    <2>1. Collects(h, events, 0)
      BY DEF Collects
    <2> QED
      BY <2>1
  <1>2. ASSUME NEW n \in P PROVE n + 1 \in P
    <2>1. PICK h : Collects(h, events, n)
      OBVIOUS
    <2> DEFINE k == [m \in 0..(n + 1) |-> IF m = n + 1 THEN Collect(h[n], events[m]) ELSE h[m]]
    <2>2. \A m \in 0..n : h[m] = IF m = 0 THEN NoUsage ELSE Collect(h[m - 1], events[m])
      BY <2>1 DEF Collects
    <2> HIDE DEF P
    <2>n. n \in Nat
      BY DEF P
    <2>3. ASSUME NEW m \in 0..(n + 1)
          PROVE  k[m] = IF m = 0 THEN NoUsage ELSE Collect(k[m - 1], events[m])
      <3>1. CASE m = n + 1
        BY <2>n, <3>1
      <3>2. CASE m # n + 1
        <4>1. m \in 0..n /\ k[m] = h[m] /\ (m # 0 => k[m - 1] = h[m - 1])
          BY <2>n, <3>2
        <4> QED
          BY <2>2, <4>1
      <3> QED
        BY <3>1, <3>2
    <2>4. Collects(k, events, n + 1)
      <3>1. k = [m \in 0..(n + 1) |-> k[m]]
        OBVIOUS
      <3> HIDE DEF k
      <3> QED
        BY <2>3, <3>1 DEF Collects
    <2> QED
      BY <2>n, <2>4 DEF P
  <1> QED
    BY <1>1, <1>2, InductionSet

LEMMA ExtractedIs ==
  ASSUME NEW events
  PROVE  extract_usage_from_sse(events)
           = (CHOOSE h : Collects(h, events, Len(events)))[Len(events)]
  BY DEF extract_usage_from_sse, Collects, Collect

\* The events up to n that say something of a key.
Said(events, key, n) ==
  {i \in 1..n : events[i].kind \in UsageKinds /\ key \in DOMAIN events[i].usage}

\* The accumulator has a key when an event said it; it has a value that was said, and
\* of a counter the greatest.
Keeps(acc, events, key, n) ==
  /\ key \in DOMAIN acc <=> Said(events, key, n) # {}
  /\ key \in DOMAIN acc =>
       \E i \in Said(events, key, n) :
         /\ acc[key] = events[i].usage[key]
         /\ key \notin Nested =>
              \A j \in Said(events, key, n) : events[j].usage[key] <= acc[key]

\* merge_usage_fields, event after event: a cumulative counter ends at its greatest
\* value, although an event may say zero of it.
LEMMA CollectKeeps ==
  ASSUME NEW events, NEW N \in Nat, NEW h, Collects(h, events, N), NEW key,
         \A i \in Said(events, key, N) : events[i].usage[key] \in Nat,
         key \notin Nested =>
           \A i, j \in Said(events, key, N) :
             i < j /\ events[j].usage[key] # 0 => events[i].usage[key] <= events[j].usage[key]
  PROVE  Keeps(h[N], events, key, N)
  <1> DEFINE P == {n \in Nat : n <= N => Keeps(h[n], events, key, n)}
             Value(i) == events[i].usage[key]
  <1>1. 0 \in P
    <2>1. h[0] = NoUsage
      BY DEF Collects
    <2>2. DOMAIN h[0] = {} /\ Said(events, key, 0) = {}
      BY <2>1 DEF NoUsage, Said
    <2> QED
      BY <2>2 DEF Keeps
  <1>2. ASSUME NEW n \in P PROVE n + 1 \in P
    <2> SUFFICES ASSUME n + 1 <= N PROVE Keeps(h[n + 1], events, key, n + 1)
      OBVIOUS
    <2>n. n \in Nat /\ n <= N
      OBVIOUS
    <2>k. Keeps(h[n], events, key, n)
      BY <2>n
    <2> HIDE DEF P
    <2> DEFINE event == events[n + 1]
               acc == h[n]
               now == Said(events, key, n)
               says == event.kind \in UsageKinds /\ key \in DOMAIN event.usage
    <2>1. h[n + 1] = Collect(acc, event)
      BY <2>n DEF Collects
    <2>2. Said(events, key, n + 1) = IF says THEN now \cup {n + 1} ELSE now
      BY <2>n DEF Said
    <2>3. Said(events, key, n + 1) \subseteq Said(events, key, N)
      BY <2>n DEF Said
    <2>4. \A i \in now : i < n + 1
      BY <2>n DEF Said
    <2>5. CASE ~says
      <3>1. key \in DOMAIN h[n + 1] <=> key \in DOMAIN acc
        BY <2>1, <2>5 DEF Collect, merge_usage_fields
      <3>2. key \in DOMAIN acc => h[n + 1][key] = acc[key]
        BY <2>1, <2>5 DEF Collect, merge_usage_fields
      <3> QED
        BY <2>2, <2>5, <2>k, <3>1, <3>2 DEF Keeps
    <2>6. CASE says
      <3>1. key \in DOMAIN h[n + 1]
        BY <2>1, <2>6 DEF Collect, merge_usage_fields
      <3>2. h[n + 1][key] = IF key \notin DOMAIN acc \/ (key \notin Nested /\ Value(n + 1) > 0)
                            THEN Value(n + 1) ELSE acc[key]
        BY <2>1, <2>6 DEF Collect, merge_usage_fields
      <3>3. n + 1 \in Said(events, key, n + 1) /\ Said(events, key, n + 1) = now \cup {n + 1}
        BY <2>2, <2>6
      <3>4. \A i \in Said(events, key, n + 1) : Value(i) \in Nat
        BY <2>3
      <3>5. CASE key \notin DOMAIN acc
        <4>1. now = {}
          BY <2>k, <3>5 DEF Keeps
        <4>2. h[n + 1][key] = Value(n + 1) /\ Value(n + 1) <= Value(n + 1)
          BY <3>2, <3>3, <3>4, <3>5
        <4> QED
          BY <3>1, <3>3, <4>1, <4>2 DEF Keeps
      <3>6. CASE key \in DOMAIN acc /\ key \notin Nested /\ Value(n + 1) > 0
        <4>1. h[n + 1][key] = Value(n + 1) /\ Value(n + 1) # 0
          BY <3>2, <3>3, <3>4, <3>6
        <4>2. \A j \in now : Value(j) <= Value(n + 1)
          BY <2>3, <2>4, <3>3, <3>6, <4>1
        <4>3. Value(n + 1) <= Value(n + 1)
          BY <3>3, <3>4
        <4> QED
          BY <3>1, <3>3, <4>1, <4>2, <4>3 DEF Keeps
      <3>7. CASE key \in DOMAIN acc /\ (key \in Nested \/ ~(Value(n + 1) > 0))
        <4>1. PICK i \in now : /\ acc[key] = Value(i)
                               /\ key \notin Nested => \A j \in now : Value(j) <= acc[key]
          BY <2>k, <3>7 DEF Keeps
        <4>2. h[n + 1][key] = acc[key]
          BY <3>2, <3>7
        <4>3. key \notin Nested => Value(n + 1) <= acc[key]
          BY <3>3, <3>4, <3>7, <4>1
        <4> QED
          BY <3>1, <3>3, <4>1, <4>2, <4>3 DEF Keeps
      <3> QED
        BY <3>5, <3>6, <3>7
    <2> QED
      BY <2>5, <2>6
  <1>3. P = Nat
    BY <1>1, <1>2, InductionSet
  <1> QED
    BY <1>3


\* The usage object of a report: of the JSON body, or merged from the events.
UsageOf(report) ==
  IF report.streaming THEN extract_usage_from_sse(report.events) ELSE report.events[1].usage

\* What an honest report says of a key is what is read.
LEMMA ToldIsRead ==
  ASSUME NEW report, Honest(report), report.events \in Seq(Range(report.events)),
         NEW key, NEW n \in Nat, Tells(report, key, n)
  PROVE  /\ key \in DOMAIN UsageOf(report) <=> ~Silent(report, key)
         /\ Tokens(UsageOf(report), key) = n
  <1> DEFINE events == report.events
             N == Len(events)
             said == Saying(report, key)
             Value(i) == events[i].usage[key]
             U == UsageOf(report)
  <1>1. N \in Nat /\ DOMAIN events = 1..N
    OBVIOUS
  <1>2. \A i \in said : Value(i) \in Nat
    BY DEF Honest, Saying
  <1>3. /\ key \in DOMAIN U <=> said # {}
        /\ key \in DOMAIN U => \E i \in said : /\ U[key] = Value(i)
                                               /\ key \notin Nested =>
                                                    \A j \in said : Value(j) <= U[key]
    <2>1. CASE report.streaming
      <3>1. PICK h : U = h[N] /\ Collects(h, events, N)
        <4>1. Collects(CHOOSE h : Collects(h, events, N), events, N)
          BY <1>1, CollectsUpTo
        <4>2. U = (CHOOSE h : Collects(h, events, N))[N]
          BY <2>1, ExtractedIs DEF UsageOf
        <4> QED
          BY <4>1, <4>2
      <3>2. said = Said(events, key, N)
        BY <1>1, <2>1 DEF Saying, Said
      <3>3. key \notin Nested =>
              \A i, j \in said : i < j /\ Value(j) # 0 => Value(i) <= Value(j)
        BY DEF Tells
      <3> HIDE DEF said, N, events, U
      <3>4. Keeps(U, events, key, N)
        BY <1>1, <1>2, <3>1, <3>2, <3>3, CollectKeeps
      <3> QED
        BY <3>2, <3>4 DEF Keeps
    <2>2. CASE ~report.streaming
      <3>1. U = events[1].usage /\ DOMAIN events = {1}
        BY <2>2 DEF UsageOf, Honest
      <3>2. said = IF key \in DOMAIN U THEN {1} ELSE {}
        BY <2>2, <3>1 DEF Saying
      <3>3. CASE key \in DOMAIN U
        <4>1. said = {1} /\ U[key] = Value(1)
          BY <3>1, <3>2, <3>3
        <4>2. Value(1) \in Nat
          BY <1>2, <4>1
        <4> HIDE DEF said, U, events
        <4>3. Value(1) <= Value(1)
          BY <4>2
        <4> QED
          BY <3>3, <4>1, <4>3
      <3> QED
        BY <3>2, <3>3
    <2> QED
      BY <2>1, <2>2
  <1>4. CASE said = {}
    <2>1. n = 0
      BY <1>4 DEF Tells
    <2> QED
      BY <1>3, <1>4, <2>1 DEF Tokens, Silent
  <1>5. CASE said # {}
    <2>1. PICK i \in said : /\ U[key] = Value(i)
                            /\ key \notin Nested => \A j \in said : Value(j) <= U[key]
      BY <1>3, <1>5
    <2>2. CASE key \in Nested
      <3>1. Value(i) = n
        BY <2>2 DEF Tells
      <3> QED
        BY <1>3, <1>5, <2>1, <3>1 DEF Tokens, Silent
    <2>3. CASE key \notin Nested
      <3>1. /\ \A j \in said : Value(j) <= n
            /\ n # 0 => \E j \in said : Value(j) = n
        BY <2>3 DEF Tells
      <3>2. U[key] \in Nat
        BY <1>2, <2>1
      <3> HIDE DEF said, U, Value
      <3>3. U[key] = n
        BY <1>2, <2>1, <2>3, <3>1, <3>2
      <3> QED
        BY <1>3, <1>5, <3>3 DEF Tokens, Silent, said, U
    <2> QED
      BY <2>2, <2>3
  <1> QED
    BY <1>4, <1>5

LEMMA SilentTells ==
  ASSUME NEW report, NEW key, Silent(report, key)
  PROVE  Tells(report, key, 0)
  BY DEF Silent, Tells

\* Reading the meters of a record.
LEMMA CountsAre ==
  ASSUME NEW i, NEW o, NEW w, NEW r
  PROVE  /\ Counts(i, o, w, r)["input"] = i /\ Counts(i, o, w, r)["output"] = o
         /\ Counts(i, o, w, r)["cache_write"] = w /\ Counts(i, o, w, r)["cache_read"] = r
  BY DEF Counts, Meters

LEMMA MetersApart ==
  ASSUME NEW metered \in Usage
  PROVE  /\ metered = Counts(metered["input"], metered["output"], metered["cache_write"],
                             metered["cache_read"])
         /\ metered["input"] \in Nat /\ metered["output"] \in Nat
         /\ metered["cache_write"] \in Nat /\ metered["cache_read"] \in Nat
  BY DEF Usage, Counts, Meters

\* What is paid for one report.
PaidFor(usage, metered, names) ==
  IF names = "total"
  THEN metered["input"] + metered["output"] - usage["input"] - usage["output"] \in {0, 1}
  ELSE usage = metered

\* Two halves of a number lose no more than one.
LEMMA Halves ==
  ASSUME NEW n \in Nat
  PROVE  \E half \in Nat : half = n \div 2 /\ n \in {half + half, half + half + 1}
  <1>1. n \div 2 \in Nat
    OBVIOUS
  <1>2. n = 2 * (n \div 2) + (n % 2) /\ n % 2 \in {0, 1}
    OBVIOUS
  <1> QED
    BY <1>1, <1>2

\* extract_openai_chat, with the three ways it reads a usage.
LEMMA ChatPaid ==
  ASSUME NEW report, Honest(report), report.events \in Seq(Range(report.events)),
         report.format = "openai_chat"
  PROVE  PaidFor(extract_openai_chat(UsageOf(report)), report.metered, report.names)
  <1> DEFINE U == UsageOf(report)
             metered == report.metered
             in == metered["input"]
             out == metered["output"]
             cached == metered["cache_read"]
             prompt == Tokens(U, "prompt_tokens")
             completion == Tokens(U, "completion_tokens")
             total == Tokens(U, "total_tokens")
             usage == extract_openai_chat(U)
  <1>1. HonestChat(report) /\ metered \in Usage
    BY DEF Honest
  <1>2. /\ metered["cache_write"] = 0 /\ metered = Counts(in, out, 0, cached)
        /\ in \in Nat /\ out \in Nat /\ cached \in Nat /\ in + out \in Nat
    BY <1>1, MetersApart DEF HonestChat
  <1>3. Tokens(U, "prompt_tokens_details") = cached
    BY <1>1, <1>2, ToldIsRead DEF HonestChat
  <1>r. ASSUME NEW key, NEW n \in Nat, Tells(report, key, n) PROVE Tokens(U, key) = n
    BY <1>r, ToldIsRead
  <1>s. ASSUME NEW key, Silent(report, key) PROVE Tokens(U, key) = 0 /\ key \notin DOMAIN U
    BY <1>s, ToldIsRead, SilentTells
  <1>4. usage = IF prompt > 0 \/ completion > 0 THEN Counts(prompt, completion, 0, cached)
                ELSE IF "total_tokens" \in DOMAIN U
                THEN Counts(total \div 2, total \div 2, 0, cached)
                ELSE Counts(Tokens(U, "input"), Tokens(U, "output"), 0, cached)
    BY <1>3 DEF extract_openai_chat
  <1>5. CASE report.names = "total"
    <2>1. /\ Tells(report, "prompt_tokens", 0) /\ Tells(report, "completion_tokens", 0)
          /\ ~Silent(report, "total_tokens") /\ Tells(report, "total_tokens", in + out)
      BY <1>1, <1>5 DEF HonestChat
    <2>2. prompt = 0 /\ completion = 0 /\ total = in + out
      BY <1>2, <1>r, <2>1
    <2>3. "total_tokens" \in DOMAIN U
      BY <1>2, <2>1, ToldIsRead
    <2>4. usage = Counts((in + out) \div 2, (in + out) \div 2, 0, cached)
      BY <1>4, <2>2, <2>3
    <2>5. PICK n \in Nat, half \in Nat :
             n = in + out /\ half = n \div 2 /\ n \in {half + half, half + half + 1}
      <3>1. PICK n \in Nat : n = in + out
        BY <1>2
      <3>2. PICK half \in Nat : half = n \div 2 /\ n \in {half + half, half + half + 1}
        BY Halves
      <3> QED
        BY <3>1, <3>2
    <2>6. usage = Counts(half, half, 0, cached)
      BY <2>4, <2>5
    <2> HIDE DEF usage, metered
    <2>7. usage["input"] = half /\ usage["output"] = half
      BY <2>6, CountsAre
    <2>8. metered["input"] + metered["output"] - usage["input"] - usage["output"] \in {0, 1}
      <3>1. n = half + half \/ n = half + half + 1
        BY <2>5
      <3>2. ASSUME NEW i \in Nat, NEW o \in Nat, i + o = n PROVE i + o - half - half \in {0, 1}
        BY <3>1, <3>2
      <3> QED
        BY <1>2, <2>5, <2>7, <3>2
    <2> QED
      BY <1>5, <2>8 DEF PaidFor, usage, metered
  <1>6. CASE report.names # "total"
    <2>1. ASSUME Tells(report, "prompt_tokens", in), Tells(report, "completion_tokens", out),
                 Silent(report, "input"), Silent(report, "output"),
                 Silent(report, "total_tokens") \/ Tells(report, "total_tokens", in + out)
          PROVE  usage = metered
      <3>1. prompt = in /\ completion = out
        BY <1>2, <1>r, <2>1
      <3>2. Tokens(U, "input") = 0 /\ Tokens(U, "output") = 0
        BY <1>s, <2>1
      <3>3. "total_tokens" \in DOMAIN U => total = in + out
        BY <1>2, <1>r, <1>s, <2>1
      <3>4. CASE in > 0 \/ out > 0
        BY <1>2, <1>4, <3>1, <3>4
      <3>5. CASE in = 0 /\ out = 0
        <4>1. "total_tokens" \in DOMAIN U => total \div 2 = 0
          BY <3>3, <3>5
        <4> QED
          BY <1>2, <1>4, <3>1, <3>2, <3>5, <4>1
      <3> QED
        BY <1>2, <3>4, <3>5
    <2>2. ASSUME Tells(report, "prompt_tokens", 0), Tells(report, "completion_tokens", 0),
                 Silent(report, "total_tokens"), Tells(report, "input", in),
                 Tells(report, "output", out)
          PROVE  usage = metered
      <3>1. prompt = 0 /\ completion = 0
        BY <1>r, <2>2
      <3>2. Tokens(U, "input") = in /\ Tokens(U, "output") = out
        BY <1>2, <1>r, <2>2
      <3>3. "total_tokens" \notin DOMAIN U
        BY <1>s, <2>2
      <3> QED
        BY <1>2, <1>4, <3>1, <3>2, <3>3
    <2>3. report.names = "own" \/ report.names = "short"
      BY <1>6 DEF Honest, Names
    <2>4. CASE report.names = "own"
      BY <1>1, <1>6, <2>1, <2>4 DEF HonestChat, PaidFor
    <2>5. CASE report.names = "short"
      BY <1>1, <1>6, <2>2, <2>5 DEF HonestChat, PaidFor
    <2> QED
      BY <2>3, <2>4, <2>5
  <1> QED
    BY <1>5, <1>6

\* extract_usage: an honest report is paid for as metered.
LEMMA ReportPaid ==
  ASSUME NEW report, Honest(report), report.events \in Seq(Range(report.events)),
         report.format \in ApiFormats
  PROVE  PaidFor(extract_usage(UsageOf(report), report.format), report.metered, report.names)
  <1> DEFINE U == UsageOf(report)
             metered == report.metered
  <1>1. /\ metered = Counts(metered["input"], metered["output"], metered["cache_write"],
                            metered["cache_read"])
        /\ metered["input"] \in Nat /\ metered["output"] \in Nat
        /\ metered["cache_write"] \in Nat /\ metered["cache_read"] \in Nat
    BY MetersApart DEF Honest
  <1>r. ASSUME NEW key, NEW n \in Nat, Tells(report, key, n) PROVE Tokens(U, key) = n
    BY <1>r, ToldIsRead
  <1>2. CASE report.format = "openai_chat"
    BY <1>2, ChatPaid DEF extract_usage
  <1>3. CASE report.format = "anthropic_messages"
    <2>1. /\ report.names = "own"
          /\ Tells(report, "input_tokens", metered["input"])
          /\ Tells(report, "output_tokens", metered["output"])
          /\ Tells(report, "cache_creation_input_tokens", metered["cache_write"])
          /\ Tells(report, "cache_read_input_tokens", metered["cache_read"])
      BY <1>3 DEF Honest
    <2>2. extract_usage(U, report.format) = extract_anthropic(U)
      BY <1>3 DEF extract_usage
    <2>3. extract_anthropic(U) = metered
      BY <1>1, <1>r, <2>1 DEF extract_anthropic
    <2> QED
      BY <2>1, <2>2, <2>3 DEF PaidFor
  <1>4. CASE report.format = "openai_responses"
    <2>1. /\ report.names = "own" /\ metered["cache_write"] = 0
          /\ Tells(report, "input_tokens", metered["input"])
          /\ Tells(report, "output_tokens", metered["output"])
          /\ Tells(report, "input_tokens_details", metered["cache_read"])
      BY <1>4 DEF Honest
    <2>2. extract_usage(U, report.format) = extract_openai_responses(U)
      BY <1>4 DEF extract_usage
    <2>3. extract_openai_responses(U) = metered
      BY <1>1, <1>r, <2>1 DEF extract_openai_responses
    <2> QED
      BY <2>1, <2>2, <2>3 DEF PaidFor
  <1> QED
    BY <1>2, <1>3, <1>4 DEF ApiFormats

\* The report of the body as it is now is honest, in the body's format, and has the
\* meters of the upstream's but for the lost ones.
Carries ==
  /\ res.report \in Reports /\ res.report.format = res.body
  /\ res.report.streaming = ctx.streaming
  /\ (ctx.reverse => ledger.names = "own") =>
       /\ res.report.names = ledger.names
       /\ \A m \in Meters :
            res.report.metered[m] = IF m \in ledger.lost THEN 0 ELSE ledger.metered[m]

\* No cost is recorded before the end, and then what the report says; only a
\* conversion loses a meter.
UsageInv ==
  /\ pc # At("answered") => ledger.cost = "none"
  /\ ledger.lost # {} => ctx.reverse /\ pc \in Returning \cup {At("answered")}
  /\ pc \in OnResponse /\ res.status = "ok" /\ res.body \in ApiFormats => Carries
  /\ UsageBilled

LEMMA RecordCostStep ==
  ASSUME PipelineInv, UsageInv, RecordCost
  PROVE  UsageInv'
  <1>1. pc = At("record_cost") /\ pc' = At("answered") /\ UNCHANGED <<ctx, res>>
    BY DEF RecordCost
  <1>2. Routed /\ LedgerTyped /\ pc \in OnResponse
    BY <1>1 DEF PipelineInv, RequestInv, OnResponse, Returning
  <1>3. /\ \/ ledger' = ledger
           \/ ledger' = [ledger EXCEPT !.cost = "row",
                                       !.usage = extract_usage(UsageIn(res), UsageFormat)]
        /\ ledger.cost = "none"
    BY <1>1 DEF RecordCost, UsageInv, At
  <1>4. /\ ledger'.lost = ledger.lost /\ ledger'.metered = ledger.metered
        /\ ledger'.names = ledger.names
        /\ ledger'.cost = "row" => ledger'.usage = extract_usage(UsageIn(res), UsageFormat)
    BY <1>2, <1>3 DEF LedgerTyped
  <1>5. UsageBilled'
    <2> SUFFICES ASSUME res.status = "ok", ledger'.cost = "row", res.body = ctx.client,
                        ctx.reverse => ledger.names = "own"
                 PROVE  IF ledger.names = "total"
                        THEN ledger.metered["input"] + ledger.metered["output"]
                               - ledger'.usage["input"] - ledger'.usage["output"] \in {0, 1}
                        ELSE \A m \in Meters :
                               ledger'.usage[m] = IF m \in ledger.lost THEN 0 ELSE ledger.metered[m]
      BY <1>1, <1>4 DEF UsageBilled
    <2> DEFINE report == res.report
    <2>1. ctx.client \in ApiFormats /\ Carries
      BY <1>2 DEF Routed, UsageInv
    <2>2. /\ report \in Reports /\ report.format = ctx.client
          /\ report.streaming = ctx.streaming /\ report.names = ledger.names
          /\ \A m \in Meters :
               report.metered[m] = IF m \in ledger.lost THEN 0 ELSE ledger.metered[m]
      BY <2>1 DEF Carries
    <2>3. Honest(report) /\ report.events \in Seq(Range(report.events))
      BY <2>2, PipelineAssumption
    <2>4. UsageIn(res) = UsageOf(report) /\ UsageFormat = report.format
      BY <2>1, <2>2 DEF UsageIn, UsageOf, UsageFormat
    <2>5. ledger'.usage = extract_usage(UsageOf(report), report.format)
      BY <1>4, <2>4
    <2>6. PaidFor(ledger'.usage, report.metered, report.names)
      BY <2>1, <2>2, <2>3, <2>5, ReportPaid
    <2>7. CASE ledger.names = "total"
      <3>1. ledger.lost = {}
        BY <2>7 DEF UsageInv
      <3>2. "input" \in Meters /\ "output" \in Meters
        BY DEF Meters
      <3>3. /\ report.metered["input"] = ledger.metered["input"]
            /\ report.metered["output"] = ledger.metered["output"]
        BY <2>2, <3>1, <3>2
      <3> QED
        BY <2>2, <2>6, <2>7, <3>3 DEF PaidFor
    <2>8. CASE ledger.names # "total"
      BY <2>2, <2>6, <2>8 DEF PaidFor
    <2> QED
      BY <2>7, <2>8
  <1>6. pc' \notin OnResponse
    BY <1>1, PlacesApart
  <1> QED
    BY <1>1, <1>4, <1>5, <1>6 DEF UsageInv

\* The upstream's report comes with its answer.
LEMMA ReportArrives ==
  ASSUME PipelineInv, UsageInv, NEW status, NEW body, NEW error, NEW report,
         Arrives(status, body, error, report),
         status = "ok" => /\ report \in Reports /\ report.format = body
                          /\ report.streaming = ctx.streaming
  PROVE  UsageInv'
  <1>1. /\ pc = At("forward") /\ pc' = <<"on_response", "bridge">> /\ UNCHANGED ctx
        /\ res' = [from |-> "upstream", status |-> status, body |-> body, error |-> error,
                   report |-> report]
        /\ ledger' = [ledger EXCEPT !.status = status, !.body = body,
                                    !.metered = report.metered, !.names = report.names]
    BY ChainOrder DEF Arrives
  <1>2. /\ ledger'.cost = ledger.cost /\ ledger'.lost = ledger.lost
        /\ ledger'.metered = report.metered /\ ledger'.names = report.names
    BY <1>1 DEF PipelineInv, LedgerTyped
  <1>3. ledger.cost = "none" /\ ledger.lost = {}
    BY <1>1 DEF UsageInv, Returning, At
  <1>4. pc' # At("answered")
    BY <1>1 DEF At
  <1>5. res'.status = "ok" => Carries'
    BY <1>1, <1>2, <1>3 DEF Carries
  <1> QED
    BY <1>2, <1>3, <1>4, <1>5 DEF UsageInv, UsageBilled, Delivered

\* The conversion: the meters that differ are the lost ones.
LEMMA BridgeCarries ==
  ASSUME PipelineInv, UsageInv, BridgeResponse
  PROVE  UsageInv'
  <1>1. pc = <<"on_response", "bridge">> /\ UNCHANGED ctx
    BY DEF BridgeResponse, OnResponseOf
  <1>2. /\ pc \in OnResponse /\ pc \notin Returning \cup {At("answered")}
        /\ pc # At("answered") /\ ledger.cost = "none" /\ ledger.lost = {}
    BY <1>1, PlacesApart DEF UsageInv, OnResponse
  <1>3. AsAnswered /\ Routed /\ ResponseTyped /\ LedgerTyped
    BY <1>1, <1>2 DEF PipelineInv, RequestInv, ResponseInv
  <1>4. CASE pc' = Back("bridge") /\ UNCHANGED <<res, ledger>>
    <2>1. pc' \in OnResponse /\ pc' # At("answered")
      BY <1>4, ChainOrder DEF OnResponse, Returning, At
    <2>2. res.status = "ok" /\ res.body \in ApiFormats => Carries'
      BY <1>1, <1>2, <1>4 DEF UsageInv, Carries
    <2> QED
      BY <1>2, <1>4, <2>1, <2>2 DEF UsageInv, UsageBilled, Delivered
  <1>5. CASE Abort /\ UNCHANGED ledger
    <2>1. pc' = At("answered") /\ res'.from = "proxy"
      BY <1>5 DEF Abort, NoResponse
    <2> QED
      BY <1>2, <1>5, <2>1, PlacesApart DEF UsageInv, UsageBilled, Delivered
  <1>6. ASSUME ctx.reverse, NEW body,
               NEW report \in IF body \in ApiFormats THEN ConvertedReports(res.report, body)
                                                     ELSE {NoReport},
               ReplaceBody(body, report)
        PROVE  UsageInv'
    <2> DEFINE lost == {m \in Meters : report.metered[m] # ledger.metered[m]}
    <2>1. /\ ledger'.lost = lost /\ ledger'.cost = ledger.cost
          /\ ledger'.metered = ledger.metered /\ ledger'.names = ledger.names
      BY <1>3, <1>6 DEF LedgerTyped, ReplaceBody
    <2>2. res'.body = body /\ res'.report = report /\ res'.status = res.status
      BY <1>3, <1>6 DEF ResponseTyped, ReplaceBody
    <2>3. pc' \in Returning /\ pc' # At("answered")
      BY <1>6, ChainOrder DEF Returning, At, ReplaceBody
    <2>4. ASSUME res.status = "ok", body \in ApiFormats PROVE Carries'
      <3>1. Carries
        BY <1>2, <1>3, <2>4 DEF UsageInv, AsAnswered, Routed
      <3>2. /\ report \in Reports /\ report.format = body
            /\ report.streaming = res.report.streaming
            /\ res.report.names = "own" =>
                 /\ report.names = "own"
                 /\ \A m \in Meters : report.metered[m] \in {0, res.report.metered[m]}
        BY <1>6, <2>4 DEF ConvertedReports
      <3>3. report.streaming = ctx.streaming
        BY <3>1, <3>2 DEF Carries
      <3>4. ASSUME ledger.names = "own"
            PROVE  /\ report.names = "own"
                   /\ \A m \in Meters :
                        report.metered[m] = IF m \in lost THEN 0 ELSE ledger.metered[m]
        <4>1. /\ res.report.names = "own"
              /\ \A m \in Meters : res.report.metered[m] = ledger.metered[m]
          BY <1>2, <3>1, <3>4 DEF Carries
        <4> QED
          BY <3>2, <4>1
      <3> HIDE DEF lost
      <3> QED
        BY <1>1, <1>6, <2>1, <2>2, <3>2, <3>3, <3>4 DEF Carries
    <2> QED
      BY <1>1, <1>2, <1>6, <2>1, <2>2, <2>3, <2>4 DEF UsageInv, UsageBilled, Delivered
  <1> QED
    BY <1>4, <1>5, <1>6 DEF BridgeResponse

LEMMA UsageStep == PipelineInv /\ UsageInv /\ [Next]_vars => UsageInv'
  <1> SUFFICES ASSUME PipelineInv, UsageInv, [Next]_vars PROVE UsageInv'
    OBVIOUS
  <1>1. CASE UNCHANGED pipeline
    BY <1>1 DEF pipeline, UsageInv, UsageBilled, Delivered, Carries
  <1>2. CASE Resting'
    BY <1>2, PlacesApart DEF Resting, UsageInv, UsageBilled, Delivered, EmptyLedger
  \* Before the upstream answers.
  <1>3. ASSUME pc \in {At("idle"), At("forward")} \cup OnRequest, UNCHANGED ledger,
               \/ pc' \in OnRequest \cup {At("forward")}
               \/ Abort
        PROVE  UsageInv'
    <2>1. ledger.cost = "none" /\ ledger.lost = {}
      BY <1>3, PlacesApart DEF UsageInv, OnResponse
    <2>2. pc' \notin OnResponse /\ ~Delivered'
      BY <1>3, PlacesApart DEF Abort, NoResponse, Delivered
    <2> QED
      BY <1>3, <2>1, <2>2 DEF UsageInv, UsageBilled
  <1>4. CASE RejectRequest \/ UpstreamUnreachable \/ RefuseRequest
    BY <1>3, <1>4, ChainOrder DEF RejectRequest, UpstreamUnreachable, RefuseRequest,
                                  OnRequestOf, OnRequest
  <1>5. CASE CompressRequest \/ AliasModel
    BY <1>3, <1>5, ChainOrder DEF CompressRequest, AliasModel, OnRequestOf, OnRequest
  <1>6. CASE \E client \in Clients, streaming \in BOOLEAN, model \in Models :
               AcceptRequest(client, streaming, model)
    BY <1>3, <1>6, ChainOrder DEF AcceptRequest, OnRequest
  <1>7. CASE \E route \in Routes : RouteRequest(route)
    <2>1. /\ pc = <<"on_request", "model_router">> /\ UNCHANGED ledger
          /\ pc' = Onward("model_router") \/ Abort
      BY <1>7 DEF RouteRequest, OnRequestOf
    <2> QED
      BY <1>3, <2>1, ChainOrder DEF OnRequest
  <1>8. CASE BridgeRequest
    <2>1. /\ pc = <<"on_request", "bridge">> /\ UNCHANGED ledger
          /\ pc' = Onward("bridge") \/ Abort
      BY <1>8 DEF BridgeRequest, OnRequestOf
    <2> QED
      BY <1>3, <2>1, ChainOrder DEF OnRequest
  <1>9. ASSUME NEW error, NEW report \in Reports, UpstreamAnswers(error, report)
        PROVE  UsageInv'
    BY <1>9, ReportArrives DEF UpstreamAnswers
  <1>10. ASSUME NEW status \in Statuses \ {"ok"}, NEW body, UpstreamFails(status, body)
         PROVE  UsageInv'
    BY <1>10, ReportArrives DEF UpstreamFails
  \* On the way back, the response stays as it is.
  <1>11. CASE RouterResponse \/ AliasResponse \/ CompressResponse \/ RecordCostFails
    <2>1. /\ pc \in Returning /\ pc' \in Returning \cup {At("answered")}
          /\ UNCHANGED <<ctx, res>>
      BY <1>11, ChainOrder DEF RouterResponse, AliasResponse, CompressResponse,
                               RecordCostFails, OnResponseOf, Returning
    <2>2. /\ ledger'.cost = ledger.cost /\ ledger'.lost = ledger.lost
          /\ ledger'.metered = ledger.metered /\ ledger'.names = ledger.names
      BY <1>11 DEF RouterResponse, AliasResponse, CompressResponse, RecordCostFails,
                   PipelineInv, LedgerTyped
    <2>3. pc \in OnResponse /\ ledger.cost = "none"
      BY <2>1, PlacesApart DEF UsageInv, OnResponse
    <2> QED
      BY <2>1, <2>2, <2>3 DEF UsageInv, UsageBilled, Carries
  <1>12. CASE Done
    BY <1>2, <1>12 DEF Done, Resting
  <1>13. CASE PipelineNext
    BY <1>4, <1>5, <1>6, <1>7, <1>8, <1>9, <1>10, <1>11, <1>12, <1>13, BridgeCarries,
       RecordCostStep
       DEF PipelineNext
  <1> QED
    BY <1>1, <1>2, <1>13 DEF Next, vars, Crash, Resting

\* record() after the chain: whatever events a stream is cut into, an answer that its
\* upstream reports honestly and that is delivered in the client's format is paid for
\* as metered, but for the meters the conversion loses.  extract_usage_from_sse keeps
\* of each counter the greatest value said.
THEOREM UsageIsBilled == Spec => []UsageBilled
  <1>1. Init => UsageInv
    BY PlacesApart DEF Init, PipelineInit, UsageInv, UsageBilled, Delivered, EmptyLedger
  <1>2. UsageInv => UsageBilled
    BY DEF UsageInv
  <1> QED
    BY <1>1, <1>2, UsageStep, PipelineInvariant, PTL DEF Spec

=============================================================================
