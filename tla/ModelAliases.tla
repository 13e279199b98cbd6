---------------------------- MODULE ModelAliases ----------------------------
(***************************************************************************)
(* Model aliases: the model_aliases table and its migration                *)
(* (crates/storage-sqlite), its admin endpoints, and the map main.rs makes *)
(* of it for the alias middleware, once, at start-up.                      *)
(*                                                                         *)
(* execute_batch opens no transaction, so the statements of a migration    *)
(* commit one by one, and the process may crash between any two.  The      *)
(* administrator works from a list fetched earlier.  The gaps that an      *)
(* ignored insert may leave in the ids are left out.                       *)
(***************************************************************************)
EXTENDS Naturals, Functions

CONSTANTS BuiltIn,     \* the aliases migration 002 inserts, with an empty target
          AliasNames,  \* the aliases there may be
          Targets,     \* the models an administrator maps them to
          MaxId        \* bound on the ids given out

VARIABLES aliasDb,     \* user_version, model_aliases and its AUTOINCREMENT sequence
          start,       \* where the start-up of the process is
          aliasMap,    \* ModelAliasMiddleware::alias_map
          screen,      \* the alias the administrator picked from the list
          told         \* history: names deleted and not created again, those of them a
                       \* migration brought back since that could not read the version,
                       \* and whether the table was edited since the map was made

aliasVars == <<aliasDb, start, aliasMap, screen, told>>

NoModel == ""     \* also the target the built-in aliases have

NoMap == [name \in {} |-> NoModel]

NotPicked == [id |-> 0, name |-> NoModel]

AliasRow(name, target, enabled) == [name |-> name, target |-> target, enabled |-> enabled]

NamesIn(rows) == {rows[id].name : id \in DOMAIN rows}

IdOf(name) == CHOOSE id \in DOMAIN aliasDb.rows : aliasDb.rows[id].name = name

\* Mutant: without AUTOINCREMENT, one more than the largest id there is.
NextIdReused ==
  CHOOSE n \in 1..(MaxId + 1) :
    /\ \A id \in DOMAIN aliasDb.rows : id < n
    /\ n > 1 => n - 1 \in DOMAIN aliasDb.rows

\* AUTOINCREMENT: one more than the largest id there ever was.
NextId == aliasDb.sequence + 1

Inserted(row) ==
  [aliasDb EXCEPT !.rows = [id \in DOMAIN @ \cup {NextId} |->
                              IF id = NextId THEN row ELSE @[id]],
                  !.sequence = NextId]

\* A database of an earlier release, or none.
AliasInit ==
  /\ \E v \in {0, 1} : aliasDb = [version |-> v, rows |-> [id \in {} |-> 0], sequence |-> 0]
  /\ start = "migrate" /\ aliasMap = NoMap /\ screen = NotPicked
  /\ told = [gone |-> {}, back |-> {}, edited |-> FALSE]

-----------------------------------------------------------------------------
(* Start-up *)

\* Mutant: the aliases are inserted at every start.
BehindAlways(version) == TRUE

Behind(version) == version < 2

\* migrate() reads user_version.
ReadUserVersion ==
  /\ start = "migrate"
  /\ start' = IF Behind(aliasDb.version) THEN "aliases" ELSE "version"
  /\ UNCHANGED <<aliasDb, aliasMap, screen, told>>

\* The query fails, unwrap_or(0): the migrations run, whatever the version is.
UserVersionUnread ==
  /\ start = "migrate"
  /\ start' = "aliases_unread"
  /\ UNCHANGED <<aliasDb, aliasMap, screen, told>>

InMigration == start \in {"aliases", "aliases_unread"}

\* A statement of migration 002: INSERT OR IGNORE.
InsertBuiltIn(name) ==
  /\ InMigration /\ name \notin NamesIn(aliasDb.rows) /\ NextId <= MaxId
  /\ aliasDb' = Inserted(AliasRow(name, NoModel, TRUE))
  /\ told' = IF start = "aliases_unread" THEN [told EXCEPT !.back = @ \cup {name}] ELSE told
  /\ UNCHANGED <<start, aliasMap, screen>>

BuiltInDone ==
  /\ InMigration /\ BuiltIn \subseteq NamesIn(aliasDb.rows)
  /\ start' = "version"
  /\ UNCHANGED <<aliasDb, aliasMap, screen, told>>

SetUserVersion ==
  /\ start = "version"
  /\ aliasDb' = [aliasDb EXCEPT !.version = 2]
  /\ start' = "list"
  /\ UNCHANGED <<aliasMap, screen, told>>

\* Mutant: disabled aliases are in the map too.
MapOfAll(rows) ==
  [name \in NamesIn(rows) |->
     rows[CHOOSE id \in DOMAIN rows : rows[id].name = name].target]

\* The map of the enabled aliases.
MapOf(rows) ==
  LET enabled == {id \in DOMAIN rows : rows[id].enabled}
  IN  [name \in {rows[id].name : id \in enabled} |->
         rows[CHOOSE id \in enabled : rows[id].name = name].target]

BuildAliasMap ==
  /\ start = "list"
  /\ aliasMap' = MapOf(aliasDb.rows)
  /\ start' = "up"
  /\ told' = [told EXCEPT !.edited = FALSE]
  /\ UNCHANGED <<aliasDb, screen>>

\* The list cannot be read: unwrap_or_default, the proxy runs without aliases.
AliasListFails ==
  /\ start = "list"
  /\ start' = "up_bare"
  /\ UNCHANGED <<aliasDb, aliasMap, screen, told>>

Up == start \in {"up", "up_bare"}

\* The process ends, or a statement of the migration fails and it exits (a failed
\* read of the version is no such step, see UserVersionUnread); it is started again.
Restart ==
  /\ start' = "migrate" /\ aliasMap' = NoMap
  /\ UNCHANGED <<aliasDb, screen, told>>

-----------------------------------------------------------------------------
(* The admin endpoints *)

\* list_model_aliases; the administrator looks at one of them.
PickAlias(id) ==
  /\ Up /\ id \in DOMAIN aliasDb.rows
  /\ screen' = [id |-> id, name |-> aliasDb.rows[id].name]
  /\ UNCHANGED <<aliasDb, start, aliasMap, told>>

\* create_model_alias: the row of the name is updated in place, or a new one made.
UpsertAlias(name, target, enabled) ==
  LET row == AliasRow(name, target, enabled)
  IN  /\ Up
      /\ IF name \in NamesIn(aliasDb.rows)
         THEN aliasDb' = [aliasDb EXCEPT !.rows[IdOf(name)] = row]
         ELSE NextId <= MaxId /\ aliasDb' = Inserted(row)
      /\ told' = [gone |-> told.gone \ {name}, back |-> told.back \ {name}, edited |-> TRUE]
      /\ UNCHANGED <<start, aliasMap, screen>>

\* delete_model_alias_handler: 404, and nothing changed, if the row is gone.
DeleteAlias(id) ==
  /\ Up
  /\ IF id \in DOMAIN aliasDb.rows
     THEN /\ aliasDb' = [aliasDb EXCEPT !.rows = Restrict(@, DOMAIN @ \ {id})]
          /\ told' = [gone |-> told.gone \cup {aliasDb.rows[id].name},
                      back |-> told.back \ {aliasDb.rows[id].name}, edited |-> TRUE]
     ELSE UNCHANGED <<aliasDb, told>>
  /\ UNCHANGED <<start, aliasMap, screen>>

AliasNext ==
  \/ ReadUserVersion \/ UserVersionUnread \/ BuiltInDone \/ SetUserVersion \/ BuildAliasMap \/ AliasListFails
  \/ \E name \in BuiltIn : InsertBuiltIn(name)
  \/ \E id \in 1..MaxId : PickAlias(id)
  \/ \E name \in AliasNames, target \in Targets, enabled \in BOOLEAN :
       UpsertAlias(name, target, enabled)
  \/ screen # NotPicked /\ DeleteAlias(screen.id)

-----------------------------------------------------------------------------
(* Properties *)

\* An alias the administrator deleted, a built-in one too, is not brought back by
\* any number of restarts and crashes, in the middle of the migration or not, but
\* by one thing: a start-up that could not read user_version runs migration 002
\* again, and then the names it inserts are back until they are deleted again.
DeletedStaysDeleted == NamesIn(aliasDb.rows) \cap told.gone \subseteq told.back

\* A DELETE sent late or sent again, from a list fetched before other edits and
\* restarts, deletes the alias the administrator saw or none: ids are not given
\* out twice.
DeletesWhatWasPicked ==
  [][\A id \in DOMAIN aliasDb.rows \ DOMAIN aliasDb'.rows :
       screen.id = id /\ aliasDb.rows[id].name = screen.name]_aliasVars

\* The running proxy applies exactly the aliases that are enabled in the table, as
\* long as nobody edited it since the start; a name has one row.
MapIsTable ==
  start = "up" /\ ~told.edited =>
    /\ \A id \in DOMAIN aliasDb.rows :
         LET row == aliasDb.rows[id]
         IN  /\ row.enabled <=> row.name \in DOMAIN aliasMap
             /\ row.enabled => aliasMap[row.name] = row.target
    /\ DOMAIN aliasMap \subseteq NamesIn(aliasDb.rows)

=============================================================================
