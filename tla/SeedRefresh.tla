----------------------------- MODULE SeedRefresh -----------------------------
(***************************************************************************)
(* The seed data: seed_init at start-up and seed_refresh from the admin    *)
(* API (crates/storage-sqlite/src/seed.rs, apps/server/src/main.rs).       *)
(*                                                                         *)
(* A release is a manifest with a version and one file per entry.  Every   *)
(* row of a file and every key of seed_metadata is a statement of its own, *)
(* outside a transaction; a fetch or a statement may fail and the proxy    *)
(* may crash between any two.  A row is abstracted to the number of its    *)
(* contents, a SHA-256 to the file it is the hash of.                      *)
(***************************************************************************)
EXTENDS Naturals, Sequences

CONSTANTS Calls,        \* seed_refresh calls in flight at once
          Releases,     \* the files of every release: version -> entry -> row -> contents
          MaxFaults,    \* bound: failures and crashes
          MaxMisreads   \* bound: reads of seed_metadata that fail

\* The names of the entries in a manifest, and the tables they are for.
Names == {"providers", "models", "channels", "modelMappings"}

Tables == <<"providers", "models", "channels", "model_mappings">>

TableOf(name) == IF name = "modelMappings" THEN "model_mappings" ELSE name

\* Keys of seed_metadata: seed_init writes the hashes under the tables' names,
\* seed_refresh reads and writes them under the manifest's.
HashKeys == Names \cup {"model_mappings"}

Versions == 1..Len(Releases)

Embedded == 1   \* the release compiled in

Newest == Len(Releases)

RowIds == UNION {UNION {DOMAIN Releases[v][name] : name \in DOMAIN Releases[v]} : v \in Versions}

ASSUME SeedAssumption ==
  /\ Len(Releases) \in Nat \ {0} /\ MaxFaults \in Nat /\ MaxMisreads \in Nat
  /\ RowIds \subseteq Nat
  /\ DOMAIN Releases[Embedded] = Names
  /\ \A v \in Versions : /\ DOMAIN Releases[v] \subseteq Names
                          /\ \A name \in DOMAIN Releases[v] :
                               \A i \in DOMAIN Releases[v][name] : Releases[v][name][i] # 0

Absent == 0

NoHash == <<>>

NoName == ""

VARIABLES table,       \* table -> row -> its contents
          hash,        \* seed_metadata, the <name>:sha256 keys
          version,     \* seed_metadata, version
          boot,        \* seed_init, in the start-up of the proxy
          call,        \* the seed_refresh calls
          faults,      \* how many failures and crashes there were
          misreads,    \* how many reads of seed_metadata failed
          torn,        \* history: updated rows <<table, row>> written by a file whose hash
                       \* is not the one a refresh would find
          older,       \* history: updated rows written by an older release than the version
          blind,     \* history: whether the last to write read no version, and took it for 0
          overlapped   \* history: whether two refreshes ever ran at once

vars == <<table, hash, version, boot, call, faults, misreads, torn, older, blind, overlapped>>

history == <<torn, older, blind, overlapped>>

metadata == <<hash, version>>

Idle == [pc |-> "idle", release |-> Embedded, left |-> {}, name |-> NoName,
         rows |-> {}, failed |-> FALSE]

NameFor(t) == CHOOSE name \in Names : TableOf(name) = t

EmbeddedFile(t) == Releases[Embedded][NameFor(t)]

-----------------------------------------------------------------------------
(* upsert_entry *)

\* providers and models are inserted or left alone, channels and mappings updated.
Upserted == {"channels", "model_mappings"}

\* The row a row refers to by its foreign key has the same number in the parent.
Parent(t) == IF t = "models" THEN "providers" ELSE "channels"

HasParent(t, i) == t \in {"models", "model_mappings"} => table[Parent(t)][i] # Absent

Smallest(rows) == CHOOSE i \in rows : \A j \in rows : i <= j

\* One statement of upsert_entry: row i of table t gets the contents c of a release.
PutRow(t, i, c, release) ==
  LET updated == ({t} \cap Upserted) \X {i}
  IN  /\ HasParent(t, i)
      /\ table' = [table EXCEPT ![t][i] = IF t \in Upserted \/ @ = Absent THEN c ELSE @]
      /\ torn' = torn \cup updated
      /\ older' = IF release < version THEN older \cup updated ELSE older

Fault == faults < MaxFaults /\ faults' = faults + 1 /\ UNCHANGED misreads

NoFault == UNCHANGED <<faults, misreads>>

Misread == misreads < MaxMisreads /\ misreads' = misreads + 1 /\ UNCHANGED faults

\* get_local_version_inner: a version that cannot be read counts as 0.
LocalVersion(read) == IF read THEN version ELSE 0

ReadVersion(read) == /\ IF read THEN NoFault ELSE Misread
                     /\ blind' = ~read

-----------------------------------------------------------------------------
(* seed_init *)

Init ==
  /\ table = [t \in {Tables[k] : k \in DOMAIN Tables} |-> [i \in RowIds |-> Absent]]
  /\ hash = [key \in HashKeys |-> NoHash]
  /\ version = 0
  /\ boot = [pc |-> "start", k |-> 1, rows |-> {}]
  /\ call = [c \in Calls |-> Idle]
  /\ faults = 0 /\ misreads = 0 /\ torn = {} /\ older = {} /\ blind = FALSE /\ overlapped = FALSE

BootDone == boot' = [pc |-> "up", k |-> 1, rows |-> {}]

\* seed_init looks at the version: 0 means that the tables are to be filled.
SeedInit(read) ==
  /\ boot.pc = "start"
  /\ ReadVersion(read)
  /\ IF LocalVersion(read) > 0 THEN BootDone
     ELSE boot' = [pc |-> "rows", k |-> 1, rows |-> DOMAIN EmbeddedFile(Tables[1])]
  /\ UNCHANGED <<table, metadata, call, torn, older, overlapped>>

\* apply_all_entries: the rows of the four files in order ...
InitRow ==
  LET t == Tables[boot.k]
      i == Smallest(boot.rows)
  IN  /\ boot.pc = "rows" /\ boot.rows # {}
      /\ PutRow(t, i, EmbeddedFile(t)[i], Embedded)
      /\ boot' = [boot EXCEPT !.rows = @ \ {i}]
      /\ UNCHANGED <<metadata, call, faults, misreads, blind, overlapped>>

InitNextFile ==
  /\ boot.pc = "rows" /\ boot.rows = {}
  /\ boot' = IF boot.k < Len(Tables)
             THEN [pc |-> "rows", k |-> boot.k + 1,
                   rows |-> DOMAIN EmbeddedFile(Tables[boot.k + 1])]
             ELSE [pc |-> "hashes", k |-> 1, rows |-> {}]
  /\ UNCHANGED <<table, metadata, call, faults, misreads, history>>

\* ... then their hashes, which for the mappings is not the key of the manifest ...
InitHash ==
  LET t == Tables[boot.k]
  IN  /\ boot.pc = "hashes"
      /\ hash' = [hash EXCEPT ![t] = EmbeddedFile(t)]
      /\ torn' = IF hash'[NameFor(t)] \in {NoHash, EmbeddedFile(t)}
                 THEN torn \ ({t} \X DOMAIN EmbeddedFile(t)) ELSE torn
      /\ boot' = IF boot.k < Len(Tables) THEN [boot EXCEPT !.k = @ + 1]
                 ELSE [boot EXCEPT !.pc = "version"]
      /\ UNCHANGED <<table, version, call, faults, misreads, older, blind, overlapped>>

\* ... and the version of the embedded manifest last.
InitVersion ==
  /\ boot.pc = "version"
  /\ version' = Embedded /\ older' = {}
  /\ BootDone
  /\ UNCHANGED <<table, hash, call, faults, misreads, torn, blind, overlapped>>

\* seed_init gets no connection or a statement of it fails: main goes on without it.
InitFails ==
  /\ boot.pc # "up"
  /\ Fault
  /\ BootDone
  /\ UNCHANGED <<table, metadata, call, history>>

-----------------------------------------------------------------------------
(* seed_refresh *)

\* Mutant: only the version that is already there is refused.
IsNewerOrOlder(v, local) == v # local

IsNewer(v, local) == v > local

\* There is no URL, or no manifest to be had: the call ends with nothing changed ...
ManifestFails(c) ==
  /\ boot.pc = "up" /\ call[c].pc = "idle"
  /\ UNCHANGED vars

\* ... as it does when its version, compared with the local one, is not newer.
UpToDate(c, v) ==
  /\ boot.pc = "up" /\ call[c].pc = "idle"
  /\ ~IsNewer(v, LocalVersion(TRUE))
  /\ UNCHANGED vars

StartRefresh(c, v, read) ==
  /\ boot.pc = "up" /\ call[c].pc = "idle"
  /\ ReadVersion(read)
  /\ IsNewer(v, LocalVersion(read))
  /\ call' = [call EXCEPT ![c] = [Idle EXCEPT !.pc = "next", !.release = v,
                                               !.left = DOMAIN Releases[v]]]
  /\ overlapped' = (overlapped \/ \E d \in Calls : call[d].pc # "idle")
  /\ UNCHANGED <<table, metadata, boot, torn, older>>

File(c, name) == Releases[call[c].release][name]

\* The next entry of the manifest, a HashMap, whose stored hash is the same.
SkipEntry(c, name) ==
  /\ call[c].pc = "next" /\ name \in call[c].left
  /\ hash[name] = File(c, name)
  /\ call' = [call EXCEPT ![c].left = @ \ {name}]
  /\ UNCHANGED <<table, metadata, boot, faults, misreads, history>>

\* fetch_and_apply_entry gets a file with the hash of the manifest.
Fetched(c, name) ==
  /\ call[c].pc = "next" /\ name \in call[c].left
  /\ call' = [call EXCEPT ![c].pc = "rows", ![c].left = @ \ {name}, ![c].name = name,
                          ![c].rows = DOMAIN File(c, name)]
  /\ UNCHANGED <<table, metadata, boot, history>>

\* The next entry, changed ...
FetchEntry(c, name) ==
  /\ Fetched(c, name)
  /\ hash[name] # File(c, name)
  /\ NoFault

\* ... or taken for changed: its hash could not be read.
RefetchEntry(c, name) ==
  /\ Fetched(c, name)
  /\ hash[name] = File(c, name)
  /\ Misread

\* Mutant: the first entry that fails ends the call.
EntryFailsEndsCall(c) == call' = [call EXCEPT ![c] = Idle]

\* The entry failed: noted, and on to the next.
EntryFails(c) == call' = [call EXCEPT ![c].pc = "next", ![c].name = NoName, ![c].rows = {},
                                      ![c].failed = TRUE]

UpsertRow(c) ==
  LET name == call[c].name
      i == Smallest(call[c].rows)
  IN  /\ call[c].pc = "rows" /\ call[c].rows # {}
      /\ PutRow(TableOf(name), i, File(c, name)[i], call[c].release)
      /\ call' = [call EXCEPT ![c].rows = @ \ {i}]
      /\ UNCHANGED <<metadata, boot, faults, misreads, blind, overlapped>>

\* The row's foreign key has no row to refer to.
RowRefused(c) ==
  /\ call[c].pc = "rows" /\ call[c].rows # {}
  /\ ~HasParent(TableOf(call[c].name), Smallest(call[c].rows))
  /\ EntryFails(c)
  /\ UNCHANGED <<table, metadata, boot, faults, misreads, history>>

StoreHash(c) ==
  LET name == call[c].name
  IN  /\ call[c].pc = "rows" /\ call[c].rows = {}
      /\ hash' = [hash EXCEPT ![name] = File(c, name)]
      /\ torn' = torn \ ({TableOf(name)} \X DOMAIN File(c, name))
      /\ call' = [call EXCEPT ![c].pc = "next", ![c].name = NoName]
      /\ UNCHANGED <<table, version, boot, faults, misreads, older, blind, overlapped>>

\* The file cannot be fetched, has another hash, or one of the statements fails.
FetchOrStatementFails(c) ==
  /\ call[c].pc = "rows"
  /\ Fault
  /\ EntryFails(c)
  /\ UNCHANGED <<table, metadata, boot, history>>

\* Mutant: the version is written although entries failed.
VersionDueAlways(c) == TRUE

VersionDue(c) == ~call[c].failed

\* All entries were visited: the version is written if none failed, otherwise
\* last_error.
FinishRefresh(c) ==
  /\ call[c].pc = "next" /\ call[c].left = {}
  /\ version' = IF VersionDue(c) THEN call[c].release ELSE version
  /\ older' = IF VersionDue(c) THEN {} ELSE older
  /\ call' = [call EXCEPT ![c] = Idle]
  /\ UNCHANGED <<table, hash, boot, faults, misreads, torn, blind, overlapped>>

\* Not even version or last_error can be written.
FinishFails(c) ==
  /\ call[c].pc = "next" /\ call[c].left = {}
  /\ Fault
  /\ call' = [call EXCEPT ![c] = Idle]
  /\ UNCHANGED <<table, metadata, boot, history>>

\* The process ends, whatever it was doing, and starts again with seed_init.
Crash ==
  /\ Fault
  /\ boot' = [pc |-> "start", k |-> 1, rows |-> {}]
  /\ call' = [c \in Calls |-> Idle]
  /\ UNCHANGED <<table, metadata, history>>

BootStep == SeedInit(TRUE) \/ InitRow \/ InitNextFile \/ InitHash \/ InitVersion

CallStep(c) ==
  \/ \E name \in Names : SkipEntry(c, name) \/ FetchEntry(c, name)
  \/ UpsertRow(c) \/ RowRefused(c) \/ StoreHash(c) \/ FinishRefresh(c)

Next ==
  \/ BootStep \/ SeedInit(FALSE) \/ InitFails \/ Crash
  \/ \E c \in Calls : \/ \E v \in Versions : \/ \E read \in BOOLEAN : StartRefresh(c, v, read)
                                              \/ UpToDate(c, v)
                      \/ ManifestFails(c)
                      \/ \E name \in Names : RefetchEntry(c, name)
                      \/ CallStep(c) \/ FetchOrStatementFails(c) \/ FinishFails(c)

Spec == Init /\ [][Next]_vars

\* The start-up and a call run on; the newest release is asked for again and again.
Fairness ==
  /\ WF_vars(BootStep)
  /\ \A c \in Calls : WF_vars(CallStep(c))
  /\ SF_vars(\E c \in Calls : StartRefresh(c, Newest, TRUE))

FairSpec == Spec /\ Fairness

-----------------------------------------------------------------------------
(* Properties *)

\* The row has the contents that release v gives it.
Holds(v, name, i) ==
  /\ name \in DOMAIN Releases[v] /\ i \in DOMAIN Releases[v][name]
  /\ table[TableOf(name)][i] = Releases[v][name][i]

\* The version in seed_metadata does not promise more than the tables hold, after
\* any failure or crash half-way: every updatable row of that release is there,
\* with the contents of that release or of a newer one.  Excepted are refreshes that
\* overlap, rows that were written half-way by another file than the stored hash
\* says or by a start-up over a refresh that never got to its version, and the rows
\* a start-up or a refresh that could not read the version wrote for an older one.
VersionTruthful ==
  ~overlapped /\ version > 0 =>
    \A name \in DOMAIN Releases[version] : TableOf(name) \in Upserted =>
      \A i \in DOMAIN Releases[version][name] :
        <<TableOf(name), i>> \notin torn \cup older => \E v \in version..Newest : Holds(v, name, i)

\* "Reject downgrade": while refreshes do not overlap the version never goes back,
\* across failures, crashes and start-ups, but by the one start-up or refresh that
\* could not read it.
NoDowngrade == [][~overlapped' /\ ~blind' => version' >= version]_vars

\* When failures end and the newest release is asked for again and again, it is
\* installed in the end and stays, whatever was left half-way before and in
\* whatever order overlapping calls end.
RefreshHeals == <>[](version = Newest)

=============================================================================
